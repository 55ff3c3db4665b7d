---------------------------- MODULE BackupProofs ----------------------------
(***************************************************************************)
(* Proofs about SchemaStartup and Backup: for any number of servers and     *)
(* operators, any schema versions, any releases that meet, and any number   *)
(* of crashes, failures, archives, restores and migrations.                 *)
(***************************************************************************)
EXTENDS Backup, TLAPS

(* The rows of the model's variables. *)
Database == [version : 0 .. Current, mirror : 0 .. Current, policy : Policies, admin : Admins,
             content : Content]
Opener   == [pc : {"idle", "lock", "history", "mirror", "apply", "opened", "refused"},
             db : Databases \cup {Nobody}, release : 0 .. Current,
             version : 0 .. Current, start : 0 .. Current]
Bundle   == [version : 0 .. Current, policy : Policies, admin : Admins, content : Content,
             notice : BOOLEAN]
Making   == [pc : {"idle", "snapshot", "export", "list", "publish"},
             snapshot : Database \cup {None}, portable : Bundle \cup {None},
             listed : BOOLEAN, object : BOOLEAN]
Archive  == [snapshot : Database \cup {None}, portable : Bundle \cup {None}, object : BOOLEAN]
Staging  == [db : Database, object : BOOLEAN, from : {"snapshot", "portable"}]
Task     == [kind : {"none", "restore", "logical", "migrate"},
             pc : {"idle", "publish", "open", "import", "verify"},
             bundle : Bundle \cup {None}, staging : Staging \cup {None}]

StartupTypes ==
    /\ provider \in [Databases -> {"sqlite", "postgres"}]
    /\ db \in [Databases -> Database]
    /\ lock \in [Databases -> Procs \cup {Nobody}]
    /\ open \in [Procs -> Opener]
    /\ fresh \subseteq Databases /\ unmarked \subseteq Databases /\ disturbed \subseteq Databases

BackupTypes ==
    /\ storage \in {"local", "s3"} /\ object \in BOOLEAN /\ making \in Making /\ archives \subseteq Archive
    /\ directory \in Staging \cup {None} /\ task \in [Operators -> Task]

(* The database a process works on, and the releases it may be of. *)
Home(p)       == IF p \in Servers THEN "source" ELSE "target"
ReleasesOf(p) == IF p \in Servers THEN Releases ELSE {Current}

(* A process past the history has read a version that the database has, and *)
(* on PostgreSQL the lock makes it the database's.                          *)
OpenSound(p, q) ==
    /\ q.pc # "idle" => q.db = Home(p) /\ q.release \in ReleasesOf(p)
    /\ q.pc = "mirror" => provider[q.db] = "sqlite"
    /\ q.pc \in {"mirror", "apply"} => q.version <= db[q.db].version /\ q.version <= q.release
    /\ q.pc = "opened" => q.release <= db[q.db].version
    /\ q.pc \in {"history", "apply"} /\ provider[q.db] = "postgres" => lock[q.db] = p
    /\ q.pc = "apply" /\ provider[q.db] = "postgres" => q.version = db[q.db].version
    /\ q.pc = "refused" /\ provider[q.db] = "postgres" => db[q.db].version > q.release

OpensInv == \A p \in Procs : OpenSound(p, open[p])

(* A new database whose set-up nobody disturbed is taken past PolicyVersion *)
(* by one opener, who found it empty.                                       *)
FreshSound(d) ==
    /\ \A p \in Opening(d) : /\ open[p].release >= PolicyVersion
                             /\ open[p].pc \in {"mirror", "apply"} =>
                                   /\ open[p].version = db[d].version
                                   /\ open[p].version < PolicyVersion => open[p].start = 0
    /\ provider[d] = "sqlite" => \A p, q \in Opening(d) : p = q
    /\ 0 < db[d].version /\ db[d].version < PolicyVersion => \E p \in Opening(d) : open[p].pc = "apply"
    /\ db[d].version >= PolicyVersion => db[d].policy # "open"

FreshInv == \A d \in fresh \ disturbed : FreshSound(d)

StartupInv == StartupTypes /\ OpensInv /\ FreshInv /\ MirrorAgrees

(* The source: the roles' migration leaves no administrator without one, an *)
(* object outlives the live row, nothing is written before set-up.          *)
SourceInv ==
    /\ db["source"].version >= RolesVersion => db["source"].admin # "unroled"
    /\ db["source"].admin = "none" <=> Source.owners = {}
    /\ db["source"].admin = "none" => Source = Empty
    /\ Source.file = "live" => object

(* A snapshot of the source, a bundle of some deployment at the newest      *)
(* schema, and a snapshot with the object that goes with it.                *)
SnapshotSound(s) ==
    s # None => /\ s.version >= RolesVersion => s.admin # "unroled"
                /\ s.content.file = "live" => Source.file # "none"
BundleSound(b) ==
    /\ b \in Bundle /\ b.version = Current /\ ~b.content.cluster
    /\ b.admin = "none" <=> b.content.owners = {}
    /\ b.admin = "none" => b.content = Empty /\ ~b.notice
HoldsFile(s, o) == storage = "local" /\ s # None /\ s.content.file = "live" /\ ~o => Source.file = "deleted"

MakingInv ==
    /\ making.pc # "idle" => db["source"].version = Current /\ SnapshotSound(making.snapshot)
    /\ making.pc \in {"export", "list", "publish"} => BundleSound(making.portable)
    /\ making.pc = "list" => HoldsFile(making.snapshot, making.listed)
    /\ making.pc = "publish" => HoldsFile(making.snapshot, making.object)

ArchivesInv ==
    \A a \in archives : SnapshotSound(a.snapshot) /\ BundleSound(a.portable) /\ HoldsFile(a.snapshot, a.object)

StagingSound(s) ==
    /\ s.db.version = Current
    /\ s.from = "snapshot" => s.db.admin # "unroled" /\ HoldsFile(s.db, s.object)

(* What a committed import of bundle b made of the target, unless another   *)
(* deployment was imported beside it.                                       *)
Holds(b) ==
    /\ Administers(db["target"], b)
    /\ db["target"].content = RestorePolicy(b.content, b.notice)
Unshared(b)  == \A i \in imports : i.bundle.content.owners \in {{}, b.content.owners}
Delivered(b) == b.content.owners # {} /\ Unshared(b) => Holds(b)

TaskSound(p, t) ==
    /\ t.kind = "restore" => t.pc = "publish" 
    /\ t.pc = "publish" => t.staging \in Staging /\ StagingSound(t.staging)
    /\ t.pc \in {"open", "import", "verify"} => BundleSound(t.bundle)
    /\ t.pc \in {"import", "verify"} => At(p, "opened")
    /\ t.pc = "verify" => [by |-> p, bundle |-> t.bundle] \in imports /\ Delivered(t.bundle)

TasksInv ==
    /\ \A p \in Operators : TaskSound(p, task[p])
    /\ directory # None => StagingSound(directory)

(* What is in the target came with the imports: all their rows and          *)
(* administrators, nobody else's, and the policy of one of them.            *)
ImportSound(i) ==
    /\ i.bundle.content.owners \subseteq db["target"].content.owners
    /\ i.bundle.content.rows \subseteq db["target"].content.rows
TargetInv ==
    /\ db["target"].admin = "none" <=> db["target"].content.owners = {}
    /\ db["target"].content.owners = {} => db["target"].content = Empty
    /\ \A i \in imports : ImportSound(i)
    /\ \A w \in db["target"].content.owners : \E i \in imports : w \in i.bundle.content.owners
    /\ imports # {} => /\ db["target"].version = Current
                       /\ \E i \in imports : db["target"].policy = i.bundle.policy

BackupInv ==
    /\ StartupInv /\ BackupTypes /\ SourceInv /\ MakingInv /\ ArchivesInv /\ TasksInv /\ TargetInv
    /\ ImportedOnce /\ MigrationVerdict

-----------------------------------------------------------------------------
(* Opening a database *)

(* What a step of process p may do to the databases and to the lock: only   *)
(* the holder of the lock changes the version of a PostgreSQL database.     *)
VersionsGrow(p) ==
    \A d \in Databases : /\ db[d].version <= db'[d].version
                         /\ provider[d] = "postgres" /\ db'[d].version # db[d].version => lock[d] = p
LockKept(p) == \A d \in Databases, o \in Procs : o # p /\ lock[d] = o => lock'[d] = o

(* A database and its opener are those of the process's side. *)
LEMMA Typed ==
    ASSUME StartupInv, NEW p \in Procs
    PROVE  /\ open[p] \in Opener /\ OpenSound(p, open[p])
           /\ open[p].pc # "idle" => open[p].db \in Databases /\ open[p].release \in 1 .. Current
           /\ open[p].version \in Nat /\ open[p].release \in Nat /\ open[p].start \in Nat
           /\ \A d \in Databases : /\ db[d] \in Database /\ db[d].version \in Nat /\ db[d].mirror \in Nat
                                   /\ db[d].version <= Current /\ provider[d] \in {"sqlite", "postgres"}
<1>1. open[p] \in Opener /\ OpenSound(p, open[p]) /\ \A d \in Databases : db[d] \in Database
  BY DEF StartupInv, StartupTypes, OpensInv
<1>2. Home(p) \in Databases
  BY BackupAssumption DEF Home
<1>3. ReleasesOf(p) \subseteq 1 .. Current
  BY StartupAssumption DEF ReleasesOf
<1>4. open[p].pc # "idle" => open[p].db = Home(p) /\ open[p].release \in ReleasesOf(p)
  BY <1>1 DEF OpenSound
<1>5. open[p].pc # "idle" => open[p].db \in Databases /\ open[p].release \in 1 .. Current
  BY <1>2, <1>3, <1>4
<1> QED
  BY <1>1, <1>5, StartupAssumption DEF Opener, Database, StartupInv, StartupTypes

(* A step of p leaves the other openers where they are. *)
LEMMA OthersSound ==
    ASSUME StartupInv, NEW p \in Procs, NEW o \in Procs, o # p, open'[o] = open[o],
           UNCHANGED provider, db' \in [Databases -> Database], VersionsGrow(p), LockKept(p)
    PROVE  OpenSound(o, open[o])'
<1>1. open[o] \in Opener /\ OpenSound(o, open[o]) /\ Nobody \notin Procs
  BY Typed, StartupAssumption
<1>2. CASE open[o].pc = "idle"
  BY <1>2 DEF OpenSound
<1>3. CASE open[o].pc # "idle"
  <2>1. open[o].db \in Databases /\ open[o].version \in Nat /\ open[o].release \in Nat
    BY <1>3, Typed
  <2>2. PICK d \in Databases : d = open[o].db
    BY <2>1
  <2>3. db[d].version \in Nat /\ db'[d].version \in Nat /\ db[d].version <= db'[d].version
    BY Typed, StartupAssumption DEF VersionsGrow, Database
  <2>4. open[o].pc \in {"history", "apply"} /\ provider[d] = "postgres"
           => lock'[d] = o /\ db'[d].version = db[d].version
    BY <1>1, <2>2 DEF OpenSound, VersionsGrow, LockKept
  <2> QED
    BY <1>1, <1>3, <2>1, <2>2, <2>3, <2>4 DEF OpenSound
<1> QED
  BY <1>2, <1>3

(* A new database that p is not opening, or no longer is, stays as it is,   *)
(* unless p was the one that took it past PolicyVersion.                    *)
Leaves(p, d) ==
    /\ p \notin Opening(d)'
    /\ p \in Opening(d) => open[p].pc # "apply" \/ db[d].version >= PolicyVersion
    /\ db'[d].version = db[d].version /\ db'[d].policy = db[d].policy

(* Such a step keeps what is known of that database. *)
LEMMA FreshKept ==
    ASSUME StartupInv, NEW p \in Procs, \A o \in Procs : o # p => open'[o] = open[o],
           UNCHANGED provider, NEW d \in fresh \ disturbed, Leaves(p, d)
    PROVE  FreshSound(d)'
<1>1. /\ Opening(d)' = Opening(d) \ {p}
      /\ \A o \in Opening(d) \ {p} : o \in Procs /\ open'[o] = open[o]
  BY DEF Opening, Leaves
<1>2. FreshSound(d)
  BY DEF StartupInv, FreshInv
<1>3. /\ db'[d].version = db[d].version /\ db'[d].policy = db[d].policy
      /\ p \in Opening(d) => open[p].pc # "apply" \/ db[d].version >= PolicyVersion
      /\ db[d].version \in Nat /\ PolicyVersion \in Nat
  BY Typed, StartupAssumption DEF Leaves, StartupInv, StartupTypes
<1> QED
  BY <1>1, <1>2, <1>3 DEF FreshSound

(* Process p moves to q. *)
LEMMA MoveStep ==
    ASSUME StartupInv, NEW p \in Procs, NEW q \in Opener, open' = [open EXCEPT ![p] = q],
           UNCHANGED <<provider, unmarked>>, db' \in [Databases -> Database],
           lock' \in [Databases -> Procs \cup {Nobody}], VersionsGrow(p), LockKept(p),
           fresh' \subseteq fresh, disturbed \subseteq disturbed', disturbed' \subseteq Databases,
           OpenSound(p, q)', MirrorAgrees',
           \A d \in fresh' \ disturbed' : FreshSound(d)' \/ Leaves(p, d)
    PROVE  StartupInv'
<1>1. /\ open' \in [Procs -> Opener] /\ open'[p] = q
      /\ \A o \in Procs : o # p => open'[o] = open[o]
  BY DEF StartupInv, StartupTypes
<1>2. StartupTypes'
  BY <1>1 DEF StartupInv, StartupTypes
<1>3. OpensInv'
  <2> SUFFICES ASSUME NEW o \in Procs PROVE OpenSound(o, open[o])'
    BY DEF OpensInv
  <2>1. CASE o = p
    BY <1>1, <2>1
  <2>2. CASE o # p
    BY <1>1, <2>2, OthersSound
  <2> QED
    BY <2>1, <2>2
<1>4. FreshInv'
  <2> SUFFICES ASSUME NEW d \in fresh' \ disturbed' PROVE FreshSound(d)'
    BY DEF FreshInv
  <2>1. d \in fresh \ disturbed
    OBVIOUS
  <2> QED
    BY <1>1, <2>1, FreshKept
<1> QED
  BY <1>2, <1>3, <1>4 DEF StartupInv

(* Giving up the lock takes nobody else's. *)
LEMMA Unlocks ==
    ASSUME StartupInv, NEW p \in Procs, Unlock(p) \/ UNCHANGED lock
    PROVE  lock' \in [Databases -> Procs \cup {Nobody}] /\ LockKept(p)
BY StartupAssumption DEF StartupInv, StartupTypes, Unlock, LockKept

(* A process that ends without having been opening, and a step that opens   *)
(* nothing.                                                                 *)
LEMMA OutsideStep ==
    ASSUME StartupInv, NEW p \in Procs, open[p].pc \notin {"lock", "history", "mirror", "apply"},
           (MoveTo(p, Closed) /\ Unlock(p)) \/ UNCHANGED <<open, lock>>,
           UNCHANGED <<provider, unmarked, disturbed>>, fresh' \subseteq fresh,
           db' \in [Databases -> Database],
           \A d \in Databases : /\ db'[d].version = db[d].version /\ db'[d].mirror = db[d].mirror
                                /\ d \in fresh' => db'[d].policy = db[d].policy
    PROVE  StartupInv'
<1>1. PICK q \in Opener : /\ open' = [open EXCEPT ![p] = q] /\ (q = Closed \/ q = open[p])
                          /\ q.pc \notin {"lock", "history", "mirror", "apply"}
  <2>1. Closed \in Opener /\ Closed.pc = "idle"
    BY StartupAssumption DEF Closed, Opener
  <2>2. open[p] \in Opener /\ open = [open EXCEPT ![p] = open[p]]
    BY DEF StartupInv, StartupTypes
  <2> QED
    BY <2>1, <2>2 DEF MoveTo
<1>2. VersionsGrow(p) /\ LockKept(p) /\ lock' \in [Databases -> Procs \cup {Nobody}]
  BY Unlocks, Typed DEF VersionsGrow
<1>3. OpenSound(p, q)'
  <2>1. CASE q = Closed
    BY <2>1 DEF OpenSound, Closed
  <2>2. CASE q = open[p]
    BY <1>1, <2>2, Typed DEF OpenSound
  <2> QED
    BY <1>1, <2>1, <2>2
<1>4. MirrorAgrees'
  BY DEF StartupInv, MirrorAgrees
<1>5. \A d \in fresh' \ disturbed' : Leaves(p, d)
  BY <1>1 DEF Leaves, Opening, StartupInv, StartupTypes
<1>6. disturbed' \subseteq Databases
  BY DEF StartupInv, StartupTypes
<1> QED
  BY <1>1, <1>2, <1>3, <1>4, <1>5, <1>6, MoveStep

(* A process begins to open its database. *)
LEMMA BeginKeeps ==
    ASSUME StartupInv, NEW p \in Procs, NEW d \in Databases, d = Home(p),
           NEW release \in ReleasesOf(p), Begin(p, d, release)
    PROVE  StartupInv'
<1>1. release \in 1 .. Current /\ PolicyVersion \in Nat /\ release \in Nat
  BY StartupAssumption DEF ReleasesOf
<1>2. PICK q : q = [Closed EXCEPT !.pc = "lock", !.db = d, !.release = release]
  OBVIOUS
<1>3. q \in Opener /\ q.pc = "lock" /\ q.db = d /\ q.release = release
  <2>1. q = [pc |-> "lock", db |-> d, release |-> release, version |-> 0, start |-> 0]
    BY <1>2 DEF Closed
  <2>2. 0 \in 0 .. Current /\ release \in 0 .. Current
    BY <1>1, StartupAssumption
  <2> QED
    BY <2>1, <2>2 DEF Opener
<1>4. open' = [open EXCEPT ![p] = q] /\ UNCHANGED <<provider, db, lock, unmarked>>
  BY <1>2 DEF Begin, MoveTo
<1>5. OpenSound(p, q)' /\ MirrorAgrees'
  BY <1>3, <1>4 DEF OpenSound, StartupInv, MirrorAgrees, Home, ReleasesOf
<1>6. fresh' \subseteq fresh /\ disturbed \subseteq disturbed' /\ disturbed' \subseteq Databases
  BY DEF Begin, StartupInv, StartupTypes
<1>7. /\ VersionsGrow(p) /\ LockKept(p) /\ lock' \in [Databases -> Procs \cup {Nobody}]
      /\ db' \in [Databases -> Database]
  BY <1>4, Unlocks, Typed DEF VersionsGrow, StartupInv, StartupTypes
<1>8. ASSUME NEW e \in fresh' \ disturbed' PROVE FreshSound(e)' \/ Leaves(p, e)
  <2>1. /\ open'[p] = q /\ p \notin Opening(e)
        /\ \A o \in Procs : o # p => open'[o] = open[o]
    BY <1>4 DEF Begin, Opening, StartupInv, StartupTypes
  <2>2. CASE e # d
    BY <1>3, <1>4, <2>1, <2>2 DEF Leaves, Opening
  <2>3. CASE e = d
    <3>1. FreshSound(d) /\ release >= PolicyVersion /\ (provider[d] = "sqlite" => Opening(d) = {})
      BY <1>1, <1>6, <1>8, <2>3 DEF Begin, StartupInv, FreshInv
    <3>2. Opening(d)' = Opening(d) \cup {p} /\ \A o \in Opening(d) : o # p /\ open'[o] = open[o]
      BY <1>3, <2>1, <2>3 DEF Opening
    <3>3. FreshSound(d)'
      BY <1>3, <1>4, <2>1, <3>1, <3>2 DEF FreshSound
    <3> QED
      BY <2>3, <3>3
  <2> QED
    BY <2>2, <2>3
<1> QED
  BY <1>3, <1>4, <1>5, <1>6, <1>7, <1>8, MoveStep

(* What an opener's next step is about. *)
LEMMA AtWork ==
    ASSUME StartupInv, NEW p \in Procs, open[p].pc # "idle"
    PROVE  /\ Mine(p) \in Databases /\ Mine(p) = Home(p)
           /\ Mine(p) \in fresh \ disturbed => FreshSound(Mine(p))
           /\ open[p].pc \in {"lock", "history", "mirror", "apply"} => p \in Opening(Mine(p))
BY Typed DEF Mine, StartupInv, FreshInv, OpenSound, Opening

(* It takes the lock. *)
LEMMA LockKeeps ==
    ASSUME StartupInv, NEW p \in Procs, Lock(p)
    PROVE  StartupInv'
<1>1. PICK d \in Databases : d = open[p].db /\ (d \in fresh \ disturbed => FreshSound(d)) /\ p \in Opening(d)
  BY AtWork DEF Lock, At, Mine
<1>2. PICK q : q = [open[p] EXCEPT !.pc = "history"]
  OBVIOUS
<1>3. q \in Opener /\ q.pc = "history" /\ q.db = d /\ q.release = open[p].release
  BY <1>1, <1>2, Typed DEF Opener
<1>4. /\ open' = [open EXCEPT ![p] = q] /\ UNCHANGED <<provider, db, fresh, unmarked, disturbed>>
      /\ IF provider[d] = "postgres" THEN lock[d] = Nobody /\ lock' = [lock EXCEPT ![d] = p]
                                     ELSE UNCHANGED lock
  BY <1>1, <1>2 DEF Lock, MoveTo, Mine
<1>5. /\ lock' \in [Databases -> Procs \cup {Nobody}] /\ LockKept(p)
      /\ provider[d] = "postgres" => lock'[d] = p
  BY <1>4, StartupAssumption DEF LockKept, StartupInv, StartupTypes
<1>6. OpenSound(p, q)'
  <2>1. d = Home(p) /\ q.release \in ReleasesOf(p)
    BY <1>1, <1>3, Typed DEF OpenSound, Lock, At
  <2> QED
    BY <1>3, <1>4, <1>5, <2>1 DEF OpenSound, Home, ReleasesOf
<1>9. MirrorAgrees'
  BY <1>4 DEF StartupInv, MirrorAgrees
<1>7. VersionsGrow(p) /\ db' \in [Databases -> Database]
  BY <1>4, Typed DEF VersionsGrow, StartupInv, StartupTypes
<1>8. ASSUME NEW e \in fresh' \ disturbed' PROVE FreshSound(e)' \/ Leaves(p, e)
  <2>1. open'[p] = q /\ \A o \in Procs : o # p => open'[o] = open[o]
    BY <1>4 DEF StartupInv, StartupTypes
  <2>2. CASE e # d
    BY <1>1, <1>3, <1>4, <2>1, <2>2 DEF Leaves, Opening
  <2>3. CASE e = d
    <3>1. Opening(d)' = Opening(d) /\ \A o \in Opening(d) : o \in Procs
      BY <1>1, <1>3, <2>1 DEF Opening
    <3>2. FreshSound(d) /\ open[p].pc = "lock"
      BY <1>1, <1>4, <1>8, <2>3 DEF Lock, At
    <3>3. FreshSound(d)'
      BY <1>3, <1>4, <2>1, <3>1, <3>2 DEF FreshSound
    <3> QED
      BY <2>3, <3>3
  <2> QED
    BY <2>2, <2>3
<1> QED
  BY <1>3, <1>4, <1>5, <1>6, <1>9, <1>7, <1>8, MoveStep DEF StartupInv, StartupTypes

(* One opener at a time is past the lock of a new database. *)
LEMMA OnlyOpener ==
    ASSUME StartupInv, NEW d \in fresh \ disturbed, NEW p \in Opening(d), NEW o \in Opening(d),
           open[p].pc # "lock", open[o].pc # "lock"
    PROVE  p = o
<1>1. d \in Databases /\ p \in Procs /\ o \in Procs /\ open[p].db = d /\ open[o].db = d /\ FreshSound(d)
  BY DEF StartupInv, FreshInv, StartupTypes, Opening
<1>2. CASE provider[d] = "sqlite"
  BY <1>1, <1>2 DEF FreshSound
<1>3. CASE provider[d] = "postgres"
  BY <1>1, <1>3, Typed DEF OpenSound, Opening
<1> QED
  BY <1>1, <1>2, <1>3, Typed

(* The opener of a new database goes on. *)
LEMMA FreshMoves ==
    ASSUME StartupInv, NEW p \in Procs, NEW q \in Opener, open' = [open EXCEPT ![p] = q],
           UNCHANGED provider, NEW d \in fresh \ disturbed, p \in Opening(d), open[p].pc # "lock",
           q.pc \in {"history", "mirror", "apply"}, q.db = d, q.release = open[p].release,
           q.pc \in {"mirror", "apply"} => /\ q.version = db'[d].version
                                           /\ q.version < PolicyVersion => q.start = 0,
           0 < db'[d].version /\ db'[d].version < PolicyVersion => q.pc = "apply",
           db'[d].version >= PolicyVersion => db'[d].policy # "open"
    PROVE  FreshSound(d)'
<1>1. open'[p] = q /\ \A o \in Procs : o # p => open'[o] = open[o]
  BY DEF StartupInv, StartupTypes
<1>2. Opening(d)' = Opening(d) /\ \A o \in Opening(d) : o \in Procs
  BY <1>1 DEF Opening
<1>3. \A o \in Opening(d) : o # p => open'[o] = open[o] /\ open[o].pc = "lock"
  BY <1>1, <1>2, OnlyOpener
<1>4. FreshSound(d)
  BY DEF StartupInv, FreshInv
<1> QED
  BY <1>1, <1>2, <1>3, <1>4 DEF FreshSound

(* A process that the database refuses. *)
LEMMA RefuseKeeps ==
    ASSUME StartupInv, NEW p \in Procs, open[p].pc \in {"history", "mirror", "apply"}, Refuse(p),
           UNCHANGED <<provider, db, fresh, unmarked, disturbed>>,
           provider[open[p].db] = "postgres" => db[open[p].db].version > open[p].release,
           open[p].pc = "apply" => open[p].db \notin fresh \ disturbed
    PROVE  StartupInv'
<1>1. PICK d \in Databases : d = open[p].db /\ d = Home(p) /\ open[p].release \in ReleasesOf(p)
  BY AtWork, Typed DEF Mine, OpenSound
<1>2. PICK q : q = [open[p] EXCEPT !.pc = "refused"]
  OBVIOUS
<1>3. q \in Opener /\ q.pc = "refused" /\ q.db = d /\ q.release = open[p].release
  BY <1>1, <1>2, Typed DEF Opener
<1>4. open' = [open EXCEPT ![p] = q] /\ Unlock(p)
  BY <1>2 DEF Refuse, MoveTo
<1>5. lock' \in [Databases -> Procs \cup {Nobody}] /\ LockKept(p)
  BY <1>4, Unlocks
<1>6. OpenSound(p, q)'
  BY <1>1, <1>3 DEF OpenSound, Home, ReleasesOf
<1>7. MirrorAgrees'
  BY DEF StartupInv, MirrorAgrees
<1>8. VersionsGrow(p) /\ db' \in [Databases -> Database]
  BY Typed DEF VersionsGrow, StartupInv, StartupTypes
<1>9. ASSUME NEW e \in fresh' \ disturbed' PROVE Leaves(p, e)
  BY <1>1, <1>3, <1>4 DEF Leaves, Opening, StartupInv, StartupTypes
<1> QED
  BY <1>3, <1>4, <1>5, <1>6, <1>7, <1>8, <1>9, MoveStep DEF StartupInv, StartupTypes

(* It reads the history: nobody is between two migrations of a new database. *)
LEMMA ReadHistoryKeeps ==
    ASSUME StartupInv, NEW p \in Procs, ReadHistory(p)
    PROVE  StartupInv'
<1>1. PICK d \in Databases : /\ d = open[p].db /\ d = Home(p) /\ open[p].release \in ReleasesOf(p)
                             /\ p \in Opening(d) /\ open[p].pc = "history"
                             /\ (d \in fresh \ disturbed => FreshSound(d))
                             /\ (provider[d] = "postgres" => lock[d] = p)
  BY AtWork, Typed DEF ReadHistory, At, Mine, OpenSound
<1>2. CASE db[d].version > open[p].release
  BY <1>1, <1>2, RefuseKeeps DEF ReadHistory, Mine
<1>3. CASE ~(db[d].version > open[p].release)
  <2>0. PICK pc : pc = IF provider[d] = "sqlite" THEN "mirror" ELSE "apply"
    OBVIOUS
  <2>1. PICK r : r = [open[p] EXCEPT !.pc = pc]
    OBVIOUS
  <2>2. PICK r2 : r2 = [r EXCEPT !.version = db[d].version]
    OBVIOUS
  <2>3. PICK q : q = [r2 EXCEPT !.start = db[d].version]
    OBVIOUS
  <2>4. /\ q \in Opener /\ q.pc = pc /\ q.db = d /\ q.release = open[p].release
        /\ q.version = db[d].version /\ q.start = db[d].version
    <3>1. r \in Opener /\ r.pc = pc /\ r.db = d /\ r.release = open[p].release
      BY <1>1, <2>0, <2>1, Typed DEF Opener
    <3>2. r2 \in Opener /\ r2.pc = pc /\ r2.db = d /\ r2.release = open[p].release /\ r2.version = db[d].version
      BY <2>2, <3>1, Typed DEF Opener, Database
    <3> QED
      BY <2>3, <3>2, Typed DEF Opener, Database
  <2>5. q = [open[p] EXCEPT !.pc = pc, !.version = db[d].version, !.start = db[d].version]
    BY <2>1, <2>2, <2>3, Typed DEF Opener
  <2>6. open' = [open EXCEPT ![p] = q] /\ UNCHANGED <<provider, db, lock, fresh, unmarked, disturbed>>
    BY <1>1, <1>3, <2>0, <2>5 DEF ReadHistory, MoveTo, Mine
  <2>7. OpenSound(p, q)'
    BY <1>1, <1>3, <2>0, <2>4, <2>6, Typed DEF OpenSound, Home, ReleasesOf
  <2>8. MirrorAgrees'
    BY <2>6 DEF StartupInv, MirrorAgrees
  <2>9. /\ VersionsGrow(p) /\ db' \in [Databases -> Database]
        /\ LockKept(p) /\ lock' \in [Databases -> Procs \cup {Nobody}]
    BY <2>6, Typed, Unlocks DEF VersionsGrow, StartupInv, StartupTypes
  <2>10. ASSUME NEW e \in fresh' \ disturbed' PROVE FreshSound(e)' \/ Leaves(p, e)
    <3>1. CASE e # d
      BY <1>1, <2>4, <2>6, <3>1 DEF Leaves, Opening, StartupInv, StartupTypes
    <3>2. CASE e = d
      <4>1. d \in fresh \ disturbed /\ FreshSound(d)
        BY <1>1, <2>6, <2>10, <3>2
      <4>2. ~(0 < db[d].version /\ db[d].version < PolicyVersion)
        BY <1>1, <4>1, OnlyOpener DEF FreshSound
      <4>3. q.version < PolicyVersion => q.start = 0
        BY <2>4, <4>2, Typed, StartupAssumption
      <4>4. db'[d].version >= PolicyVersion => db'[d].policy # "open"
        BY <2>6, <4>1 DEF FreshSound
      <4>5. q.pc \in {"history", "mirror", "apply"} /\ q.version = db'[d].version
        BY <2>0, <2>4, <2>6
      <4>6. ~(0 < db'[d].version /\ db'[d].version < PolicyVersion)
        BY <2>6, <4>2
      <4>7. FreshSound(d)'
        BY <1>1, <2>4, <2>6, <4>1, <4>3, <4>4, <4>5, <4>6, FreshMoves
      <4> QED
        BY <3>2, <4>7
    <3> QED
      BY <3>1, <3>2
  <2> QED
    BY <2>4, <2>6, <2>7, <2>8, <2>9, <2>10, MoveStep DEF StartupInv, StartupTypes
<1> QED
  BY <1>2, <1>3

(* It compares the mirror with the history, and writes it where it is       *)
(* missing: a database created here has both or neither.                    *)
LEMMA ReadMirrorKeeps ==
    ASSUME StartupInv, NEW p \in Procs, ReadMirror(p)
    PROVE  StartupInv'
<1>1. PICK d \in Databases : /\ d = open[p].db /\ d = Home(p) /\ open[p].release \in ReleasesOf(p)
                             /\ p \in Opening(d) /\ open[p].pc = "mirror" /\ provider[d] = "sqlite"
                             /\ open[p].version <= db[d].version /\ open[p].version <= open[p].release
                             /\ (d \in fresh \ disturbed => FreshSound(d))
  BY AtWork, Typed DEF ReadMirror, At, Mine, OpenSound
<1>2. PICK v \in 0 .. Current : v = open[p].version
  BY Typed DEF Opener
<1>3. CASE db[d].mirror \notin {0, v}
  <2>1. Refuse(p) /\ UNCHANGED <<provider, db, fresh, unmarked, disturbed>>
    BY <1>1, <1>2, <1>3 DEF ReadMirror, Mine
  <2> QED
    BY <1>1, <2>1, RefuseKeeps
<1>4. CASE db[d].mirror \in {0, v}
  <2>1. PICK row : row = [db[d] EXCEPT !.mirror = IF db[d].mirror = 0 THEN v ELSE db[d].mirror]
    OBVIOUS
  <2>2. /\ row \in Database /\ row.version = db[d].version /\ row.policy = db[d].policy /\ row.mirror = v
    BY <1>4, <2>1, Typed DEF Database
  <2>3. db' = [db EXCEPT ![d] = row]
    BY <1>1, <1>2, <1>4, <2>1 DEF ReadMirror, Mine, StartupInv, StartupTypes
  <2>4. db' \in [Databases -> Database] /\ db'[d] = row /\ \A e \in Databases : e # d => db'[e] = db[e]
    BY <2>2, <2>3 DEF StartupInv, StartupTypes
  <2>5. PICK q : q = [open[p] EXCEPT !.pc = "apply"]
    OBVIOUS
  <2>6. /\ q \in Opener /\ q.pc = "apply" /\ q.db = d /\ q.release = open[p].release
        /\ q.version = v /\ q.start = open[p].start
    BY <1>1, <1>2, <2>5, Typed DEF Opener
  <2>7. open' = [open EXCEPT ![p] = q] /\ UNCHANGED <<provider, lock, fresh, unmarked, disturbed>>
    BY <1>1, <1>2, <1>4, <2>5 DEF ReadMirror, MoveTo, Mine
  <2>8. OpenSound(p, q)'
    BY <1>1, <1>2, <2>2, <2>4, <2>6, <2>7 DEF OpenSound, Home, ReleasesOf
  <2>9. MirrorAgrees'
    <3>1. ASSUME d \notin unmarked PROVE v = db[d].version
      BY <1>1, <1>2, <1>4, <3>1, Typed DEF StartupInv, MirrorAgrees
    <3> QED
      BY <2>2, <2>4, <2>7, <3>1 DEF StartupInv, MirrorAgrees
  <2>10. /\ VersionsGrow(p) /\ LockKept(p) /\ lock' \in [Databases -> Procs \cup {Nobody}]
    <3>1. \A e \in Databases : db'[e].version = db[e].version
      BY <2>2, <2>4
    <3> QED
      BY <2>7, <3>1, Typed, Unlocks DEF VersionsGrow
  <2>11. ASSUME NEW e \in fresh' \ disturbed' PROVE FreshSound(e)' \/ Leaves(p, e)
    <3>1. CASE e # d
      BY <1>1, <2>4, <2>6, <2>7, <3>1 DEF Leaves, Opening, StartupInv, StartupTypes
    <3>2. CASE e = d
      <4>1. d \in fresh \ disturbed /\ FreshSound(d)
        BY <1>1, <2>7, <2>11, <3>2
      <4>2. v = db[d].version /\ (v < PolicyVersion => q.start = 0)
        BY <1>1, <1>2, <2>6, <4>1 DEF FreshSound
      <4>3. db'[d].version >= PolicyVersion => db'[d].policy # "open"
        BY <2>2, <2>4, <4>1 DEF FreshSound
      <4>4. FreshSound(d)'
        BY <1>1, <2>2, <2>4, <2>6, <2>7, <4>1, <4>2, <4>3, FreshMoves
      <4> QED
        BY <3>2, <4>4
    <3> QED
      BY <3>1, <3>2
  <2> QED
    BY <2>4, <2>6, <2>7, <2>8, <2>9, <2>10, <2>11, MoveStep DEF StartupInv, StartupTypes
<1> QED
  BY <1>3, <1>4

(* What a migration makes of a row. *)
LEMMA MigratedRow ==
    ASSUME NEW rec \in Database, NEW v \in 0 .. Current, rec.version <= v, NEW start \in Nat
    PROVE  /\ Migrated(rec, v, start) \in Database
           /\ Migrated(rec, v, start).version = v /\ Migrated(rec, v, start).mirror = rec.mirror
           /\ Migrated(rec, v, start).content = rec.content
           /\ Migrated(rec, v, start).policy =
                 IF rec.version < PolicyVersion /\ PolicyVersion <= v
                 THEN seedRegistrationPolicy(start) ELSE rec.policy
           /\ Migrated(rec, v, start).admin =
                 IF rec.version < RolesVersion /\ RolesVersion <= v /\ rec.admin = "unroled"
                 THEN "roled" ELSE rec.admin
<1>1. seedRegistrationPolicy(start) \in Policies /\ "roled" \in Admins
  BY DEF seedRegistrationPolicy, Policies, Admins
<1>3. PICK pol : pol = IF rec.version < PolicyVersion /\ PolicyVersion <= v
                       THEN seedRegistrationPolicy(start) ELSE rec.policy
  OBVIOUS
<1>4. PICK adm : adm = IF rec.version < RolesVersion /\ RolesVersion <= v /\ rec.admin = "unroled"
                       THEN "roled" ELSE rec.admin
  OBVIOUS
<1>5. pol \in Policies /\ adm \in Admins
  BY <1>1, <1>3, <1>4 DEF Database
<1>6. Migrated(rec, v, start) = [version |-> v, mirror |-> rec.mirror, policy |-> pol, admin |-> adm,
                                 content |-> rec.content]
  <2>1. Migrated(rec, v, start) = [rec EXCEPT !.version = v, !.policy = pol, !.admin = adm]
    BY <1>3, <1>4 DEF Migrated
  <2>2. rec = [version |-> rec.version, mirror |-> rec.mirror, policy |-> rec.policy, admin |-> rec.admin,
               content |-> rec.content]
    BY DEF Database
  <2> QED
    BY <2>1, <2>2
<1> QED
  BY <1>3, <1>4, <1>5, <1>6 DEF Database

(* It applies a migration, whose seed depends on what it found at the start. *)
LEMMA ApplyKeeps ==
    ASSUME StartupInv, NEW p \in Procs, Apply(p)
    PROVE  StartupInv'
<1>1. PICK d \in Databases : /\ d = open[p].db /\ d = Home(p) /\ open[p].release \in ReleasesOf(p)
                             /\ p \in Opening(d) /\ open[p].pc = "apply"
                             /\ open[p].version <= db[d].version /\ open[p].version < open[p].release
                             /\ (provider[d] = "postgres" => lock[d] = p /\ open[p].version = db[d].version)
                             /\ (d \in fresh \ disturbed => FreshSound(d))
  BY AtWork, Typed DEF Apply, At, Mine, OpenSound
<1>2. PICK v \in 1 .. Current : v = open[p].version + 1 /\ v \in 0 .. Current
  <2>1. open[p].version \in Nat /\ open[p].release \in 1 .. Current /\ Current \in Nat
    BY <1>1, Typed, StartupAssumption
  <2> QED
    BY <1>1, <2>1
<1>3. CASE db[d].version # v - 1
  <2>1. Refuse(p) /\ UNCHANGED <<provider, db, fresh, unmarked, disturbed>>
    BY <1>1, <1>2, <1>3 DEF Apply, Mine
  <2>2. provider[d] # "postgres" /\ d \notin fresh \ disturbed
    BY <1>1, <1>2, <1>3, Typed DEF FreshSound
  <2> QED
    BY <1>1, <2>1, <2>2, RefuseKeeps
<1>4. CASE db[d].version = v - 1
  <2>0. PICK rec \in Database : rec = Migrated(db[d], v, open[p].start)
    BY <1>2, <1>4, MigratedRow, Typed
  <2>1. PICK row : row = [rec EXCEPT !.mirror = IF provider[d] = "sqlite" THEN v ELSE rec.mirror]
    OBVIOUS
  <2>2. /\ row \in Database /\ row.version = v /\ (provider[d] = "sqlite" => row.mirror = v)
        /\ row.policy = IF v = PolicyVersion THEN seedRegistrationPolicy(open[p].start) ELSE db[d].policy
    <3>1. row \in Database /\ row.version = rec.version /\ row.policy = rec.policy
          /\ (provider[d] = "sqlite" => row.mirror = v)
      BY <2>1 DEF Database
    <3>2. /\ rec.version = v
          /\ rec.policy = IF db[d].version < PolicyVersion /\ PolicyVersion <= v
                          THEN seedRegistrationPolicy(open[p].start) ELSE db[d].policy
      BY <1>2, <1>4, <2>0, MigratedRow, Typed
    <3>3. (db[d].version < PolicyVersion /\ PolicyVersion <= v) <=> v = PolicyVersion
      BY <1>2, <1>4, StartupAssumption
    <3> QED
      BY <3>1, <3>2, <3>3
  <2>3. db' = [db EXCEPT ![d] = row]
    BY <1>1, <1>2, <1>4, <2>0, <2>1 DEF Apply, Mine
  <2>4. db' \in [Databases -> Database] /\ db'[d] = row /\ \A e \in Databases : e # d => db'[e] = db[e]
    BY <2>2, <2>3 DEF StartupInv, StartupTypes
  <2>5. PICK q : q = [open[p] EXCEPT !.version = v]
    OBVIOUS
  <2>6. /\ q \in Opener /\ q.pc = "apply" /\ q.db = d /\ q.release = open[p].release
        /\ q.version = v /\ q.start = open[p].start
    BY <1>1, <1>2, <2>5, Typed DEF Opener
  <2>7. open' = [open EXCEPT ![p] = q] /\ UNCHANGED <<provider, lock, fresh, unmarked, disturbed>>
    BY <1>1, <1>2, <1>4, <2>5 DEF Apply, MoveTo, Mine
  <2>8. OpenSound(p, q)'
    <3>1. v <= q.release
      BY <1>1, <1>2, <2>6, Typed
    <3> QED
      BY <1>1, <1>2, <2>2, <2>4, <2>6, <2>7, <3>1 DEF OpenSound, Home, ReleasesOf
  <2>9. MirrorAgrees'
    BY <2>2, <2>4, <2>7 DEF StartupInv, MirrorAgrees
  <2>10. /\ VersionsGrow(p) /\ LockKept(p) /\ lock' \in [Databases -> Procs \cup {Nobody}]
    BY <1>1, <1>2, <1>4, <2>2, <2>4, <2>7, Typed, Unlocks DEF VersionsGrow
  <2>11. ASSUME NEW e \in fresh' \ disturbed' PROVE FreshSound(e)' \/ Leaves(p, e)
    <3>1. CASE e # d
      BY <1>1, <2>4, <2>6, <2>7, <3>1 DEF Leaves, Opening, StartupInv, StartupTypes
    <3>2. CASE e = d
      <4>1. d \in fresh \ disturbed /\ FreshSound(d)
        BY <1>1, <2>7, <2>11, <3>2
      <4>2. v - 1 < PolicyVersion => q.start = 0
        BY <1>1, <1>2, <2>6, <4>1, Typed DEF FreshSound
      <4>3. ASSUME v >= PolicyVersion PROVE row.policy # "open"
        <5>1. CASE v = PolicyVersion
          BY <2>2, <2>6, <4>2, <5>1, StartupAssumption DEF seedRegistrationPolicy
        <5>2. CASE v > PolicyVersion
          <6>1. db[d].version >= PolicyVersion
            BY <1>4, <5>2, StartupAssumption
          <6> QED
            BY <2>2, <4>1, <5>2, <6>1, StartupAssumption DEF FreshSound
        <5> QED
          BY <4>3, <5>1, <5>2, StartupAssumption
      <4>4. q.version < PolicyVersion => q.start = 0
        BY <2>6, <4>2, StartupAssumption
      <4>5. FreshSound(d)'
        BY <1>1, <2>2, <2>4, <2>6, <2>7, <4>1, <4>3, <4>4, FreshMoves
      <4> QED
        BY <3>2, <4>5
    <3> QED
      BY <3>1, <3>2
  <2> QED
    BY <2>4, <2>6, <2>7, <2>8, <2>9, <2>10, <2>11, MoveStep DEF StartupInv, StartupTypes
<1> QED
  BY <1>3, <1>4

(* It is done: a new database that its release opens is past PolicyVersion. *)
LEMMA OpenedKeeps ==
    ASSUME StartupInv, NEW p \in Procs, Opened(p)
    PROVE  StartupInv'
<1>1. PICK d \in Databases : /\ d = open[p].db /\ d = Home(p) /\ open[p].release \in ReleasesOf(p)
                             /\ p \in Opening(d) /\ open[p].pc = "apply"
                             /\ open[p].release <= db[d].version
                             /\ (d \in fresh \ disturbed => FreshSound(d))
  BY AtWork, Typed DEF Opened, At, Mine, OpenSound
<1>2. PICK q : q = [open[p] EXCEPT !.pc = "opened"]
  OBVIOUS
<1>3. q \in Opener /\ q.pc = "opened" /\ q.db = d /\ q.release = open[p].release
  BY <1>1, <1>2, Typed DEF Opener
<1>4. open' = [open EXCEPT ![p] = q] /\ Unlock(p) /\ UNCHANGED <<provider, db, fresh, unmarked, disturbed>>
  BY <1>2 DEF Opened, MoveTo
<1>5. lock' \in [Databases -> Procs \cup {Nobody}] /\ LockKept(p)
  BY <1>4, Unlocks
<1>6. OpenSound(p, q)'
  BY <1>1, <1>3, <1>4 DEF OpenSound, Home, ReleasesOf
<1>7. MirrorAgrees'
  BY <1>4 DEF StartupInv, MirrorAgrees
<1>8. VersionsGrow(p) /\ db' \in [Databases -> Database]
  BY <1>4, Typed DEF VersionsGrow, StartupInv, StartupTypes
<1>9. ASSUME NEW e \in fresh' \ disturbed' PROVE Leaves(p, e)
  <2>1. e = d => db[d].version >= PolicyVersion
    BY <1>1, <1>4, <1>9, Typed, StartupAssumption DEF FreshSound
  <2> QED
    BY <1>1, <1>3, <1>4, <2>1 DEF Leaves, Opening, StartupInv, StartupTypes
<1> QED
  BY <1>3, <1>4, <1>5, <1>6, <1>7, <1>8, <1>9, MoveStep DEF StartupInv, StartupTypes

(* A process that ends while it is opening disturbs the set-up. *)
LEMMA EndKeeps ==
    ASSUME StartupInv, NEW p \in Procs, End(p)
    PROVE  StartupInv'
<1>1. PICK d \in Databases : d = open[p].db
  BY AtWork DEF End, Mine
<1>2. Closed \in Opener /\ Closed.pc = "idle"
  BY StartupAssumption DEF Closed, Opener
<1>3. open' = [open EXCEPT ![p] = Closed] /\ Unlock(p) /\ UNCHANGED <<provider, db, fresh, unmarked>>
  BY DEF End, MoveTo
<1>4. lock' \in [Databases -> Procs \cup {Nobody}] /\ LockKept(p)
  BY <1>3, Unlocks
<1>5. OpenSound(p, Closed)'
  BY <1>2 DEF OpenSound
<1>6. MirrorAgrees'
  BY <1>3 DEF StartupInv, MirrorAgrees
<1>7. VersionsGrow(p) /\ db' \in [Databases -> Database]
  BY <1>3, Typed DEF VersionsGrow, StartupInv, StartupTypes
<1>8. disturbed \subseteq disturbed' /\ disturbed' \subseteq Databases
  BY <1>1 DEF End, Mine, StartupInv, StartupTypes
<1>9. ASSUME NEW e \in fresh' \ disturbed' PROVE Leaves(p, e)
  BY <1>1, <1>2, <1>3 DEF Leaves, Opening, End, Mine, StartupInv, StartupTypes
<1> QED
  BY <1>2, <1>3, <1>4, <1>5, <1>6, <1>7, <1>8, <1>9, MoveStep

-----------------------------------------------------------------------------
(* Archives, restores and migrations beside the servers *)

(* What no step undoes: at the source the newest schema, a file's row and   *)
(* its deletion; at the target, once it is at the newest schema, all that   *)
(* an import does not bring.                                                *)
SourceKept ==
    /\ UNCHANGED storage
    /\ db["source"].version = Current => db'["source"].version = Current
    /\ Source.file # "none" => Source'.file # "none"
    /\ Source.file = "deleted" => Source'.file = "deleted"
TargetKept ==
    /\ db'["target"].content = db["target"].content
    /\ db["target"].admin = "none" <=> db'["target"].admin = "none"
    /\ db["target"].version = Current =>
          /\ db'["target"].version = Current /\ db'["target"].policy = db["target"].policy
          /\ db'["target"].admin = db["target"].admin

(* The conclusion of each step. *)
RestInv ==
    /\ BackupTypes /\ SourceInv /\ MakingInv /\ ArchivesInv /\ TasksInv /\ TargetInv
    /\ ImportedOnce /\ MigrationVerdict

(* What is known of snapshots, bundles and staged restores stays true. *)
LEMMA SoundStays ==
    ASSUME SourceKept
    PROVE  /\ \A s : SnapshotSound(s) => SnapshotSound(s)'
           /\ \A b : BundleSound(b) => BundleSound(b)'
           /\ \A s, o : HoldsFile(s, o) => HoldsFile(s, o)'
           /\ \A s : StagingSound(s) => StagingSound(s)'
<1>1. \A s : SnapshotSound(s) => SnapshotSound(s)'
  BY DEF SourceKept, SnapshotSound
<1>2. \A b : BundleSound(b) => BundleSound(b)'
  BY DEF SourceKept, BundleSound
<1>3. \A s, o : HoldsFile(s, o) => HoldsFile(s, o)'
  BY DEF SourceKept, HoldsFile
<1>4. \A s : StagingSound(s) => StagingSound(s)'
  BY <1>3 DEF StagingSound
<1> QED
  BY <1>1, <1>2, <1>3, <1>4

(* An operator past its check has opened the target, at the newest schema.  *)
LEMMA TargetCurrent ==
    ASSUME StartupInv, NEW o \in Operators, At(o, "opened")
    PROVE  db["target"].version = Current /\ o \in Procs /\ o \notin Servers
<1>1. o \in Procs /\ o \notin Servers /\ "target" \in Databases
  BY BackupAssumption
<1>2. open[o].db = "target" /\ open[o].release = Current /\ Current <= db["target"].version
  BY <1>1, Typed DEF OpenSound, Home, ReleasesOf, At
<1>3. db["target"].version \in Nat /\ db["target"].version <= Current /\ Current \in Nat
  BY <1>1, Typed, StartupAssumption
<1> QED
  BY <1>1, <1>2, <1>3

(* A serving process has the source at the newest schema. *)
LEMMA SourceCurrent ==
    ASSUME StartupInv, NEW p, Serving(p)
    PROVE  /\ db["source"].version = Current /\ p \in Procs /\ p \in Servers /\ open[p].pc = "opened"
           /\ open[p].db = "source"
<1>1. p \in Procs /\ p \in Servers /\ "source" \in Databases
  BY BackupAssumption DEF Serving
<1>2. open[p].db = "source" /\ open[p].release = Current /\ Current <= db["source"].version
  BY <1>1, Typed DEF OpenSound, Home, At, Serving
<1>3. db["source"].version \in Nat /\ db["source"].version <= Current /\ Current \in Nat
  BY <1>1, Typed, StartupAssumption
<1> QED
  BY <1>1, <1>2, <1>3 DEF Serving, At

(* Operators that go on undisturbed. *)
LEMMA TaskStays ==
    ASSUME BackupInv, SourceKept, NEW o \in Operators, task'[o] = task[o],
           task[o].pc \in {"import", "verify"} => At(o, "opened")',
           imports \subseteq imports',
           task[o].pc = "verify" => (Delivered(task[o].bundle) => Delivered(task[o].bundle)')
    PROVE  TaskSound(o, task[o])'
<1>1. TaskSound(o, task[o])
  BY DEF BackupInv, TasksInv
<1>2. PICK t : t = task[o]
  OBVIOUS
<1>3. TaskSound(o, t)'
  BY <1>1, <1>2, SoundStays DEF TaskSound
<1> QED
  BY <1>2, <1>3

(* A step that imports nothing and reports nothing. *)
LEMMA RestStep ==
    ASSUME BackupInv, SourceKept, TargetKept, UNCHANGED imports, BackupTypes', SourceInv', MigrationVerdict',
           UNCHANGED making \/ MakingInv', UNCHANGED archives \/ ArchivesInv',
           UNCHANGED directory \/ (directory # None => StagingSound(directory))',
           \A o \in Operators : \/ task'[o] = task[o] /\ (At(o, "opened") => At(o, "opened")')
                                \/ TaskSound(o, task[o])'
    PROVE  RestInv'
<1>1. MakingInv'
  <2>1. CASE UNCHANGED making
    BY <2>1, SoundStays DEF BackupInv, MakingInv, SourceKept
  <2> QED
    BY <2>1
<1>2. ArchivesInv'
  <2>1. CASE UNCHANGED archives
    BY <2>1, SoundStays DEF BackupInv, ArchivesInv
  <2> QED
    BY <2>1
<1>3. ASSUME NEW o \in Operators PROVE TaskSound(o, task[o])'
  <2> SUFFICES ASSUME task'[o] = task[o], At(o, "opened") => At(o, "opened")'
               PROVE  TaskSound(o, task[o])'
    BY <1>3
  <2>1. TaskSound(o, task[o]) /\ StartupInv
    BY DEF BackupInv, TasksInv
  <2>2. task[o].pc \in {"import", "verify"} => db["target"].version = Current /\ At(o, "opened")'
    BY <2>1, TargetCurrent DEF TaskSound
  <2>3. task[o].pc = "verify" => (Delivered(task[o].bundle) => Delivered(task[o].bundle)')
    <3>1. PICK b : b = task[o].bundle
      OBVIOUS
    <3>2. task[o].pc = "verify" => (Delivered(b) => Delivered(b)')
      BY <2>2 DEF Delivered, Unshared, Holds, Administers, RolesLost, TargetKept
    <3> QED
      BY <3>1, <3>2 DEF Delivered, Unshared, Holds
  <2> QED
    BY <2>2, <2>3, TaskStays
<1>4. TasksInv'
  <2>1. (directory # None => StagingSound(directory))'
    BY SoundStays DEF BackupInv, TasksInv
  <2> QED
    BY <1>3, <2>1 DEF TasksInv
<1>5. TargetInv' /\ ImportedOnce'
  BY DEF BackupInv, TargetInv, ImportSound, ImportedOnce, TargetKept
<1> QED
  BY <1>1, <1>2, <1>4, <1>5 DEF RestInv

(* What opening a database does to its rows. *)
Opens(d) ==
    /\ db'[d].content = db[d].content
    /\ db[d].version = Current => /\ db'[d].version = Current /\ db'[d].policy = db[d].policy
                                  /\ db'[d].admin = db[d].admin
    /\ db'[d].admin = db[d].admin \/ (db[d].admin = "unroled" /\ db'[d].admin = "roled")
    /\ db'[d].version >= RolesVersion =>
          db'[d].admin # "unroled" \/ (db[d].version >= RolesVersion /\ db[d].admin = "unroled")

(* What the steps of opening change beside the openers: of the source's     *)
(* contents nothing, of the target's nothing, and versions only grow.       *)
LEMMA StartupEffect ==
    ASSUME StartupInv, NEW p \in Procs, StartupStep(p), NEW d \in Databases
    PROVE  Opens(d)
<1>1. db[d] \in Database
  BY Typed
<1>2. CASE UNCHANGED db
  BY <1>2 DEF Opens
<1>3. CASE ReadMirror(p)
  <2>1. PICK m : db' = db \/ db' = [db EXCEPT ![Mine(p)].mirror = m]
    BY <1>3 DEF ReadMirror
  <2>2. PICK row : row = [db[d] EXCEPT !.mirror = m]
    OBVIOUS
  <2>3. /\ row.content = db[d].content /\ row.version = db[d].version /\ row.policy = db[d].policy
        /\ row.admin = db[d].admin
    BY <1>1, <2>2 DEF Database
  <2>4. db'[d] = db[d] \/ db'[d] = row
    BY <2>1, <2>2 DEF StartupInv, StartupTypes
  <2> QED
    BY <2>3, <2>4 DEF Opens
<1>4. CASE Apply(p)
  <2>1. /\ open[p].version \in Nat /\ open[p].start \in Nat /\ open[p].release \in 1 .. Current
        /\ open[p].version < open[p].release /\ Current \in Nat
    BY <1>4, Typed, StartupAssumption DEF Apply, At
  <2>2. PICK v \in 0 .. Current : v = open[p].version + 1 /\ v > 0
    BY <2>1
  <2>3. CASE Mine(p) # d \/ db[d].version # v - 1
    <3>1. db'[d] = db[d]
      BY <1>4, <2>2, <2>3 DEF Apply, StartupInv, StartupTypes
    <3> QED
      BY <3>1 DEF Opens
  <2>4. CASE Mine(p) = d /\ db[d].version = v - 1
    <3>1. PICK rec \in Database : rec = Migrated(db[d], v, open[p].start)
      BY <1>1, <2>1, <2>2, <2>4, MigratedRow
    <3>2. PICK m : db' = [db EXCEPT ![d] = [rec EXCEPT !.mirror = m]]
      BY <1>4, <2>2, <2>4, <3>1 DEF Apply
    <3>3. PICK row : row = [rec EXCEPT !.mirror = m]
      OBVIOUS
    <3>4. row.content = rec.content /\ row.version = rec.version /\ row.admin = rec.admin
      BY <3>3 DEF Database
    <3>5. db'[d] = row
      BY <3>2, <3>3 DEF StartupInv, StartupTypes
    <3>6. /\ rec.version = v /\ rec.content = db[d].content
          /\ rec.admin = IF db[d].version < RolesVersion /\ RolesVersion <= v /\ db[d].admin = "unroled"
                         THEN "roled" ELSE db[d].admin
      BY <1>1, <2>1, <2>2, <2>4, <3>1, MigratedRow
    <3>7. db[d].version # Current
      BY <2>2, <2>4, StartupAssumption
    <3>8. RolesVersion \in Nat /\ db[d].version \in Nat
      BY <2>2, <2>4, StartupAssumption
    <3> QED
      BY <2>2, <3>4, <3>5, <3>6, <3>7, <3>8 DEF Opens
  <2> QED
    BY <2>3, <2>4
<1> QED
  BY <1>2, <1>3, <1>4 DEF StartupStep, Lock, ReadHistory, Opened

(* A process opens a database beside the others. *)
LEMMA StartupStepKeeps ==
    ASSUME BackupInv, NEW p \in Procs, StartupStep(p), UNCHANGED backupVars
    PROVE  BackupInv'
<1>1. StartupInv'
  BY LockKeeps, ReadHistoryKeeps, ReadMirrorKeeps, ApplyKeeps, OpenedKeeps DEF StartupStep, BackupInv
<1>2. Opens("source") /\ Opens("target")
  BY StartupEffect, BackupAssumption DEF BackupInv
<1>3. SourceKept /\ TargetKept /\ SourceInv'
  BY <1>2 DEF Opens, SourceKept, TargetKept, SourceInv, Source, BackupInv, backupVars
<1>4. ASSUME NEW o \in Operators, At(o, "opened") PROVE At(o, "opened")'
  <2>1. o # p
    BY <1>4 DEF StartupStep, Lock, ReadHistory, ReadMirror, Apply, Opened, At
  <2>2. PICK q : open' = [open EXCEPT ![p] = q]
    BY DEF StartupStep, Lock, ReadHistory, ReadMirror, Apply, Opened, MoveTo, Refuse
  <2> QED
    BY <1>4, <2>1, <2>2, BackupAssumption DEF At, BackupInv, StartupInv, StartupTypes
<1>5. RestInv'
  BY <1>3, <1>4, RestStep DEF BackupInv, backupVars, BackupTypes, MigrationVerdict, Administers, RolesLost, Alone
<1> QED
  BY <1>1, <1>5 DEF BackupInv, RestInv

(* A server starts. *)
LEMMA StartKeeps ==
    ASSUME BackupInv, NEW p \in Servers, Start(p)
    PROVE  BackupInv'
<1>1. p \in Procs /\ p \notin Operators
  BY BackupAssumption
<1>2. PICK release \in Releases : Begin(p, "source", release)
  BY DEF Start
<1>3. StartupInv'
  BY <1>1, <1>2, BeginKeeps, BackupAssumption DEF BackupInv, Home, ReleasesOf
<1>4. SourceKept /\ TargetKept /\ SourceInv' /\ BackupTypes' /\ MigrationVerdict'
  BY <1>2 DEF Begin, Start, SourceKept, TargetKept, SourceInv, Source, BackupInv, BackupTypes, MigrationVerdict,
              Administers, RolesLost, Alone
<1>5. ASSUME NEW o \in Operators, At(o, "opened") PROVE At(o, "opened")'
  BY <1>1, <1>2, <1>5, BackupAssumption DEF Begin, MoveTo, At, BackupInv, StartupInv, StartupTypes
<1>6. RestInv'
  BY <1>4, <1>5, RestStep DEF Start
<1> QED
  BY <1>3, <1>6 DEF BackupInv, RestInv

(* A step of a serving process that changes the source's rows. *)
LEMMA SourceStep ==
    ASSUME BackupInv, NEW p, Serving(p), NEW row \in Database, db' = [db EXCEPT !["source"] = row],
           row.version = db["source"].version, row.mirror = db["source"].mirror,
           row.policy = db["source"].policy, row.admin \in {db["source"].admin, "roled"},
           row.admin = "none" <=> row.content.owners = {}, row.admin = "none" => row.content = Empty,
           Source.file # "none" => row.content.file # "none",
           Source.file = "deleted" => row.content.file = "deleted",
           row.content.file = "live" => object', object' \in BOOLEAN,
           UNCHANGED <<provider, lock, open, fresh, unmarked, disturbed, storage, making, archives, directory, task,
                       verdicts, imports>>
    PROVE  BackupInv'
<1>1. p \in Procs /\ p \in Servers /\ open[p].pc = "opened"
  BY SourceCurrent DEF BackupInv
<1>2. /\ db' \in [Databases -> Database] /\ db'["source"] = row
      /\ \A d \in Databases : d # "source" => db'[d] = db[d]
      /\ "source" \in Databases /\ "target" \in Databases
  BY BackupAssumption DEF BackupInv, StartupInv, StartupTypes
<1>3. \A d \in Databases : /\ db'[d].version = db[d].version /\ db'[d].mirror = db[d].mirror
                           /\ db'[d].policy = db[d].policy
  BY <1>2
<1>4. StartupInv'
  BY <1>1, <1>2, <1>3, OutsideStep DEF BackupInv
<1>5. SourceKept /\ TargetKept /\ BackupTypes' /\ MigrationVerdict'
  BY <1>2 DEF SourceKept, TargetKept, Source, BackupInv, BackupTypes, MigrationVerdict, Administers, RolesLost, Alone
<1>6. SourceInv'
  BY <1>2 DEF SourceInv, Source, BackupInv
<1>7. \A o \in Operators : task'[o] = task[o] /\ (At(o, "opened") => At(o, "opened")')
  BY DEF At
<1>8. RestInv'
  BY <1>5, <1>6, <1>7, RestStep
<1> QED
  BY <1>4, <1>8 DEF BackupInv, RestInv

(* The first administrator. *)
LEMMA SetupKeeps ==
    ASSUME BackupInv, NEW p \in Servers, Setup(p)
    PROVE  BackupInv'
<1>1. db["source"] \in Database /\ Serving(p) /\ db["source"].admin = "none"
  BY BackupAssumption DEF Setup, BackupInv, StartupInv, StartupTypes
<1>2. PICK c : c = [Source EXCEPT !.owners = {Here}]
  OBVIOUS
<1>7. c \in Content /\ c.owners = {Here} /\ c.file = Source.file
  BY <1>1, <1>2 DEF Source, Database, Content, Deployments
<1>8. PICK row : row = [version |-> db["source"].version, mirror |-> db["source"].mirror,
                        policy |-> db["source"].policy, admin |-> "roled", content |-> c]
  OBVIOUS
<1>3. /\ row \in Database /\ row.admin = "roled" /\ row.version = db["source"].version
      /\ row.mirror = db["source"].mirror /\ row.policy = db["source"].policy
      /\ row.content = c
  BY <1>1, <1>7, <1>8 DEF Database, Admins
<1>4. db' = [db EXCEPT !["source"] = row]
  <2>1. db["source"] = [version |-> db["source"].version, mirror |-> db["source"].mirror,
                        policy |-> db["source"].policy, admin |-> db["source"].admin,
                        content |-> db["source"].content]
    BY <1>1 DEF Database
  <2>2. PICK r : r = [db["source"] EXCEPT !.admin = "roled"]
    OBVIOUS
  <2>3. r = [version |-> db["source"].version, mirror |-> db["source"].mirror,
             policy |-> db["source"].policy, admin |-> "roled", content |-> Source]
    BY <2>1, <2>2 DEF Source
  <2>4. [r EXCEPT !.content = c] = row
    BY <1>8, <2>3
  <2>5. [r EXCEPT !.content.owners = {Here}] = row
    BY <1>2, <2>3, <2>4
  <2>6. db' = [db EXCEPT !["source"] = [r EXCEPT !.content.owners = {Here}]]
    BY <2>2 DEF Setup
  <2> QED
    BY <2>5, <2>6
<1>5. Source.file = "live" => object
  BY DEF BackupInv, SourceInv
<1>6. UNCHANGED <<provider, lock, open, fresh, unmarked, disturbed, storage, object, making, archives, directory, task,
                  verdicts, imports>>
  BY DEF Setup
<1> QED
  BY <1>1, <1>3, <1>4, <1>5, <1>6, <1>7, SourceStep DEF Source, BackupInv, BackupTypes

(* What requests write. *)
LEMMA WriteKeeps ==
    ASSUME BackupInv, NEW p \in Servers, Write(p)
    PROVE  BackupInv'
<1>1. /\ db["source"] \in Database /\ Source \in Content /\ Serving(p) /\ db["source"].admin # "none"
      /\ object \in BOOLEAN /\ (Source.file = "live" => object)
      /\ UNCHANGED <<provider, lock, open, fresh, unmarked, disturbed, storage, making, archives, directory, task,
                     verdicts, imports>>
  BY BackupAssumption DEF Write, BackupInv, StartupInv, StartupTypes, BackupTypes, SourceInv, Source, Database
<1>2. ASSUME NEW c \in Content, SetSource(c), object' \in BOOLEAN, c.owners = Source.owners,
             Source.file # "none" => c.file # "none", Source.file = "deleted" => c.file = "deleted",
             c.file = "live" => object'
      PROVE  BackupInv'
  <2>1. PICK row : row = [db["source"] EXCEPT !.content = c]
    OBVIOUS
  <2>2. /\ row \in Database /\ row.admin = db["source"].admin /\ row.version = db["source"].version
        /\ row.mirror = db["source"].mirror /\ row.policy = db["source"].policy /\ row.content = c
    BY <1>1, <2>1 DEF Database
  <2>3. db' = [db EXCEPT !["source"] = row]
    BY <1>2, <2>1, BackupAssumption DEF SetSource, BackupInv, StartupInv, StartupTypes
  <2>4. Source.owners # {}
    BY <1>1 DEF BackupInv, SourceInv
  <2> QED
    BY <1>1, <1>2, <2>2, <2>3, <2>4, SourceStep
<1>3. ASSUME UNCHANGED db, object' \in BOOLEAN, Source.file = "live" => object'
      PROVE  BackupInv'
  <2>1. SetSource(Source)
    BY <1>1, <1>3, BackupAssumption DEF SetSource, Source, BackupInv, StartupInv, StartupTypes, Database
  <2> QED
    BY <1>1, <1>2, <1>3, <2>1
<1>4. ASSUME NEW r \in Rows \ Source.rows, SetSource([Source EXCEPT !.rows = @ \cup {r}]), UNCHANGED object
      PROVE  BackupInv'
  <2>1. PICK c : c = [Source EXCEPT !.rows = Source.rows \cup {r}]
    OBVIOUS
  <2>2. c \in Content /\ c.file = Source.file /\ c.owners = Source.owners
    BY <1>1, <2>1 DEF Content, AllRows
  <2> QED
    BY <1>1, <1>2, <1>4, <2>1, <2>2
<1>5. ASSUME NEW f \in {"live", "deleted"}, SetSource([Source EXCEPT !.file = f]), UNCHANGED object,
             f = "live" => object /\ Source.file = "none"
      PROVE  BackupInv'
  <2>1. PICK c : c = [Source EXCEPT !.file = f]
    OBVIOUS
  <2>2. c \in Content /\ c.file = f /\ c.owners = Source.owners
    BY <1>1, <2>1 DEF Content
  <2> QED
    BY <1>1, <1>2, <1>5, <2>1, <2>2
<1> QED
  BY <1>1, <1>3, <1>4, <1>5 DEF Write

(* No row is taken for None, and the idle backup. *)
LEMMA Kinds ==
    /\ None \notin Database /\ None \notin Bundle /\ None \notin Staging
    /\ NoBackup \in Making /\ NoBackup.pc = "idle"
    /\ NoTask \in Task /\ NoTask.pc = "idle" /\ NoTask.kind = "none"
<1>1. ASSUME NEW r, DOMAIN r # {"none"} PROVE r # None
  BY <1>1 DEF None
<1>2. /\ \A r \in Database : DOMAIN r # {"none"}
      /\ \A r \in Bundle : DOMAIN r # {"none"}
      /\ \A r \in Staging : DOMAIN r # {"none"}
  BY DEF Database, Bundle, Staging
<1> QED
  BY <1>1, <1>2 DEF NoBackup, Making, NoTask, Task

(* Nothing happens to the databases. *)
LEMMA StartupStill ==
    ASSUME StartupInv, UNCHANGED startupVars
    PROVE  StartupInv'
BY DEF startupVars, StartupInv, StartupTypes, OpensInv, OpenSound, FreshInv, FreshSound, Opening, MirrorAgrees

(* A step of the backup alone. *)
LEMMA MakingStep ==
    ASSUME BackupInv, UNCHANGED BackupVars, making' \in Making, MakingInv',
           archives' \subseteq Archive, ArchivesInv'
    PROVE  BackupInv'
<1>1. StartupInv'
  BY StartupStill DEF BackupVars, BackupInv
<1>2. /\ SourceKept /\ TargetKept /\ SourceInv' /\ BackupTypes' /\ MigrationVerdict'
      /\ UNCHANGED <<imports, directory, task, open>>
  BY DEF BackupVars, startupVars, BackupInv, SourceKept, TargetKept, SourceInv, Source, BackupTypes,
         MigrationVerdict, Administers, RolesLost, Alone
<1>3. \A o \in Operators : task'[o] = task[o] /\ (At(o, "opened") => At(o, "opened")')
  BY <1>2 DEF At
<1>4. RestInv'
  BY <1>2, <1>3, RestStep
<1> QED
  BY <1>1, <1>4 DEF BackupInv, RestInv

(* The export of the source at the newest schema. *)
LEMMA Exported ==
    ASSUME BackupInv, db["source"].version = Current
    PROVE  BundleSound(Export(db["source"]))
<1>1. db["source"] \in Database /\ Source \in Content
  BY BackupAssumption DEF BackupInv, StartupInv, StartupTypes, Source, Database
<1>2. PICK c : c = [Source EXCEPT !.cluster = FALSE]
  OBVIOUS
<1>3. c \in Content /\ ~c.cluster /\ c.owners = Source.owners
  BY <1>1, <1>2 DEF Content
<1>4. ASSUME Source = Empty PROVE c = Empty /\ ~Source.cluster
  <2>1. ~Source.cluster
    BY <1>4 DEF Empty
  <2>2. c = Source
    <3>1. Source = [f \in {"owners", "rows", "session", "invitation", "cluster", "notice", "file"} |-> Source[f]]
      BY <1>1 DEF Content
    <3>2. c = [f \in {"owners", "rows", "session", "invitation", "cluster", "notice", "file"} |->
                  IF f = "cluster" THEN FALSE ELSE Source[f]]
      BY <1>2, <3>1
    <3>3. Source["cluster"] = FALSE
      BY <1>4 DEF Empty
    <3> QED
      BY <3>1, <3>2, <3>3
  <2> QED
    BY <1>4, <2>1, <2>2
<1>5. Export(db["source"]) = [version |-> db["source"].version, policy |-> db["source"].policy,
                              admin |-> db["source"].admin, content |-> c, notice |-> Source.cluster]
  BY <1>2 DEF Export, Source
<1>6. Export(db["source"]) \in Bundle
  BY <1>1, <1>3, <1>5 DEF Bundle, Database, Content
<1>7. (db["source"].admin = "none" <=> Source.owners = {}) /\ (db["source"].admin = "none" => Source = Empty)
  BY DEF BackupInv, SourceInv
<1> QED
  BY <1>3, <1>4, <1>5, <1>6, <1>7 DEF BundleSound

(* Another deployment's bundle. *)
LEMMA ForeignSound ==
    ASSUME NEW b \in Foreign
    PROVE  BundleSound(b)
BY ForeignAssumption, StartupAssumption DEF BundleSound, Bundle, Admins

(* A backup begins with a copy of the database. *)
LEMMA BackupSnapshotKeeps ==
    ASSUME BackupInv, NEW p \in Servers, BackupSnapshot(p)
    PROVE  BackupInv'
<1>1. db["source"] \in Database /\ db["source"].version = Current
  BY SourceCurrent, BackupAssumption DEF BackupSnapshot, BackupInv, StartupInv, StartupTypes
<1>2. PICK s \in Database \cup {None} : s = IF provider["source"] = "sqlite" THEN db["source"] ELSE None
  BY <1>1
<1>3. making' = [NoBackup EXCEPT !.pc = "snapshot", !.snapshot = s] /\ UNCHANGED <<BackupVars, archives>>
  BY <1>2 DEF BackupSnapshot
<1>4. making' \in Making /\ making'.pc = "snapshot" /\ making'.snapshot = s
  BY <1>3 DEF NoBackup, Making
<1>5. SnapshotSound(s)
  BY <1>2 DEF SnapshotSound, BackupInv, SourceInv, Source
<1>6. SourceKept /\ UNCHANGED db
  BY <1>3 DEF SourceKept, Source, BackupVars, startupVars
<1>7. MakingInv'
  BY <1>1, <1>4, <1>5, <1>6, SoundStays DEF MakingInv, SourceKept
<1>8. archives' \subseteq Archive /\ ArchivesInv'
  BY <1>3, <1>6, SoundStays DEF BackupInv, ArchivesInv, BackupTypes
<1> QED
  BY <1>3, <1>4, <1>7, <1>8, MakingStep

(* The portable export, the list of the objects, their contents, and the    *)
(* publication.                                                             *)
LEMMA BackupExportKeeps ==
    ASSUME BackupInv, BackupExport
    PROVE  BackupInv'
<1>1. /\ making.pc = "snapshot" /\ UNCHANGED <<BackupVars, archives>> /\ making \in Making /\ MakingInv
      /\ SourceKept
  BY DEF BackupExport, BackupInv, BackupTypes, SourceKept, BackupVars, startupVars, Source
<1>2. archives' \subseteq Archive /\ ArchivesInv'
  BY <1>1, SoundStays DEF BackupInv, ArchivesInv, BackupTypes
<1>3. CASE making' = NoBackup
  BY <1>1, <1>2, <1>3, Kinds, MakingStep DEF MakingInv
<1>4. CASE making' = [making EXCEPT !.pc = "export", !.portable = Export(db["source"])]
  <2>1. PICK b : b = Export(db["source"])
    OBVIOUS
  <2>2. BundleSound(b) /\ b \in Bundle
    BY <1>1, <2>1, Exported DEF MakingInv, BundleSound
  <2>3. making' \in Making /\ making'.pc = "export" /\ making'.snapshot = making.snapshot /\ making'.portable = b
    BY <1>1, <1>4, <2>1, <2>2 DEF Making
  <2>4. SnapshotSound(making.snapshot)' /\ BundleSound(b)' /\ db'["source"].version = Current
    <3>1. PICK s : s = making.snapshot /\ SnapshotSound(s) /\ db["source"].version = Current
      BY <1>1 DEF MakingInv
    <3>2. SnapshotSound(s)' /\ making'.snapshot = s
      BY <1>1, <2>3, <3>1, SoundStays
    <3> QED
      BY <1>1, <2>2, <3>1, <3>2, SoundStays DEF SourceKept, SnapshotSound
  <2>5. MakingInv'
    BY <2>3, <2>4 DEF MakingInv
  <2> QED
    BY <1>1, <1>2, <2>3, <2>5, MakingStep
<1> QED
  BY <1>3, <1>4 DEF BackupExport

(* The backup lists the objects of local storage.                           *)
LEMMA BackupListKeeps ==
    ASSUME BackupInv, BackupList
    PROVE  BackupInv'
<1>1. /\ making.pc = "export" /\ UNCHANGED <<BackupVars, archives>> /\ making \in Making /\ MakingInv
      /\ SourceKept /\ object \in BOOLEAN
      /\ making' = [making EXCEPT !.pc = "list", !.listed = object /\ storage = "local"]
  BY DEF BackupList, BackupInv, BackupTypes, SourceKept, BackupVars, startupVars, Source
<1>2. archives' \subseteq Archive /\ ArchivesInv'
  BY <1>1, SoundStays DEF BackupInv, ArchivesInv, BackupTypes
<1>3. /\ making' \in Making /\ making'.pc = "list" /\ making'.snapshot = making.snapshot
      /\ making'.portable = making.portable /\ making'.listed = (object /\ storage = "local")
  BY <1>1 DEF Making
<1>4. PICK s, b : /\ s = making.snapshot /\ b = making.portable /\ SnapshotSound(s) /\ BundleSound(b)
                  /\ db["source"].version = Current
  BY <1>1 DEF MakingInv
<1>5. HoldsFile(s, object /\ storage = "local")
  <2>1. Source.file \in {"none", "live", "deleted"} /\ (Source.file = "live" => object)
    BY BackupAssumption DEF BackupInv, SourceInv, StartupInv, StartupTypes, Database, Content, Source
  <2> QED
    BY <1>4, <2>1 DEF HoldsFile, SnapshotSound
<1>6. PICK o : o = (object /\ storage = "local") /\ HoldsFile(s, o)
  BY <1>5
<1>7. SnapshotSound(s)' /\ BundleSound(b)' /\ HoldsFile(s, o)' /\ db'["source"].version = Current
  BY <1>1, <1>4, <1>6, SoundStays DEF SourceKept
<1>8. MakingInv'
  BY <1>3, <1>4, <1>6, <1>7 DEF MakingInv
<1> QED
  BY <1>1, <1>2, <1>3, <1>8, MakingStep

(* The backup copies the object, or ends because it has gone.               *)
LEMMA BackupObjectsKeeps ==
    ASSUME BackupInv, BackupObjects
    PROVE  BackupInv'
<1>1. /\ making.pc = "list" /\ UNCHANGED <<BackupVars, archives>> /\ making \in Making /\ MakingInv /\ SourceKept
  BY DEF BackupObjects, BackupInv, BackupTypes, SourceKept, BackupVars, startupVars, Source
<1>2. archives' \subseteq Archive /\ ArchivesInv'
  BY <1>1, SoundStays DEF BackupInv, ArchivesInv, BackupTypes
<1>3. CASE making' = NoBackup
  BY <1>1, <1>2, <1>3, Kinds, MakingStep DEF MakingInv
<1>4. CASE making' = [making EXCEPT !.pc = "publish", !.object = making.listed]
  <2>1. /\ making' \in Making /\ making'.pc = "publish" /\ making'.snapshot = making.snapshot
        /\ making'.portable = making.portable /\ making'.object = making.listed
    BY <1>1, <1>4 DEF Making
  <2>2. PICK s, b, o : /\ s = making.snapshot /\ b = making.portable /\ o = making.listed
                       /\ SnapshotSound(s) /\ BundleSound(b) /\ HoldsFile(s, o)
                       /\ db["source"].version = Current
    BY <1>1 DEF MakingInv
  <2>3. SnapshotSound(s)' /\ BundleSound(b)' /\ HoldsFile(s, o)' /\ db'["source"].version = Current
    BY <1>1, <2>2, SoundStays DEF SourceKept
  <2>4. MakingInv'
    BY <2>1, <2>2, <2>3 DEF MakingInv
  <2> QED
    BY <1>1, <1>2, <2>1, <2>4, MakingStep
<1> QED
  BY <1>3, <1>4 DEF BackupObjects

(* The backup is renamed into place.                                        *)
LEMMA BackupPublishKeeps ==
    ASSUME BackupInv, BackupPublish
    PROVE  BackupInv'
<1>1. PICK a : a = [snapshot |-> making.snapshot, portable |-> making.portable, object |-> making.object]
  OBVIOUS
<1>2. /\ making.pc = "publish" /\ UNCHANGED BackupVars /\ making \in Making /\ MakingInv /\ SourceKept
      /\ archives' = archives \cup {a} /\ making' = NoBackup
  BY <1>1 DEF BackupPublish, BackupInv, BackupTypes, SourceKept, BackupVars, startupVars, Source
<1>3. a \in Archive
  BY <1>1, <1>2 DEF Making, Archive
<1>4. SnapshotSound(a.snapshot)' /\ BundleSound(a.portable)' /\ HoldsFile(a.snapshot, a.object)'
  BY <1>1, <1>2, SoundStays DEF MakingInv
<1>5. archives' \subseteq Archive /\ ArchivesInv'
  BY <1>2, <1>3, <1>4, SoundStays DEF BackupInv, ArchivesInv, BackupTypes
<1> QED
  BY <1>2, <1>5, Kinds, MakingStep DEF MakingInv

(* Two contents that agree on every table are the same. *)
LEMMA SameContent ==
    ASSUME NEW c \in Content, NEW d \in Content, c.owners = d.owners, c.rows = d.rows, c.session = d.session,
           c.invitation = d.invitation, c.cluster = d.cluster, c.notice = d.notice, c.file = d.file
    PROVE  c = d
<1> DEFINE F == {"owners", "rows", "session", "invitation", "cluster", "notice", "file"}
<1>1. c = [f \in F |-> c[f]] /\ d = [f \in F |-> d[f]]
  BY DEF Content
<1> QED
  BY <1>1

(* The contents of a new database, field by field.                          *)
LEMMA EmptyContent == Empty \in Content /\ Empty.session = "none" /\ Empty.invitation = "none"
                      /\ Empty.file = "none" /\ Empty.owners = {} /\ Empty.rows = {} /\ Empty.cluster = FALSE /\ Empty.notice = FALSE
BY DEF Empty, Content

(* What RestorePolicy and Beside make of contents. *)
LEMMA RestorePolicyRow ==
    ASSUME NEW c \in Content, NEW n \in BOOLEAN
    PROVE  /\ RestorePolicy(c, n) \in Content
           /\ RestorePolicy(c, n).rows = c.rows /\ RestorePolicy(c, n).file = c.file
           /\ RestorePolicy(c, n).cluster = c.cluster /\ RestorePolicy(c, n).owners = c.owners
           /\ RestorePolicy(c, n).session = IF c.session = "live" THEN "revoked" ELSE c.session
           /\ RestorePolicy(c, n).invitation = IF c.invitation = "outstanding" THEN "revoked" ELSE c.invitation
           /\ RestorePolicy(c, n).notice = (c.notice \/ n)
<1>1. PICK s \in {"none", "live", "revoked"} : s = IF c.session = "live" THEN "revoked" ELSE c.session
  BY DEF Content
<1>2. PICK i \in {"none", "outstanding", "revoked"} :
          i = IF c.invitation = "outstanding" THEN "revoked" ELSE c.invitation
  BY DEF Content
<1>3. PICK m \in BOOLEAN : m = (c.notice \/ n)
  BY DEF Content
<1>4. RestorePolicy(c, n) = [c EXCEPT !.session = s, !.invitation = i, !.notice = m]
  BY <1>1, <1>2, <1>3 DEF RestorePolicy
<1>5. PICK d : d = [c EXCEPT !.session = s]
  OBVIOUS
<1>6. PICK e : e = [d EXCEPT !.invitation = i]
  OBVIOUS
<1>7. PICK f : f = [e EXCEPT !.notice = m]
  OBVIOUS
<1>8. /\ d \in Content /\ d.session = s /\ d.owners = c.owners /\ d.rows = c.rows /\ d.file = c.file /\ d.cluster = c.cluster
  BY <1>5 DEF Content
<1>9. /\ e \in Content /\ e.session = s /\ e.owners = c.owners /\ e.rows = c.rows /\ e.file = c.file /\ e.cluster = c.cluster
      /\ e.invitation = i
  BY <1>6, <1>8 DEF Content
<1>10. /\ f \in Content /\ f.session = s /\ f.owners = c.owners /\ f.rows = c.rows /\ f.file = c.file /\ f.cluster = c.cluster
       /\ f.invitation = i /\ f.notice = m
  BY <1>7, <1>9 DEF Content
<1>11. RestorePolicy(c, n) = f
  BY <1>4, <1>5, <1>6, <1>7 DEF Content
<1> QED
  BY <1>1, <1>2, <1>3, <1>10, <1>11

(* Rows inserted beside those of an empty database, or none at all, are the *)
(* rows themselves.                                                         *)
LEMMA BesideRow ==
    ASSUME NEW c \in Content, NEW d \in Content
    PROVE  /\ Beside(c, d) \in Content /\ Beside(Empty, c) = c /\ Beside(c, Empty) = c
           /\ Beside(c, d).owners = c.owners \cup d.owners /\ Beside(c, d).rows = c.rows \cup d.rows
<1>1. ASSUME NEW a \in Content, NEW b \in Content PROVE Beside(a, b) \in Content
  <2>1. /\ a.owners \cup b.owners \in SUBSET Deployments /\ a.rows \cup b.rows \in SUBSET AllRows
        /\ (IF b.session = "none" THEN a.session ELSE b.session) \in {"none", "live", "revoked"}
        /\ (IF b.invitation = "none" THEN a.invitation ELSE b.invitation) \in {"none", "outstanding", "revoked"}
        /\ (a.cluster \/ b.cluster) \in BOOLEAN /\ (a.notice \/ b.notice) \in BOOLEAN
        /\ (IF b.file = "none" THEN a.file ELSE b.file) \in {"none", "live", "deleted"}
    BY DEF Content
  <2> QED
    BY <2>1 DEF Beside, Content
<1>2. Beside(Empty, c) = c
  <2>1. PICK b \in Content : b = Beside(Empty, c)
    BY <1>1, EmptyContent
  <2>2. /\ b.owners = c.owners /\ b.rows = c.rows /\ b.session = c.session /\ b.invitation = c.invitation /\ b.file = c.file
    BY <2>1, EmptyContent DEF Beside, Content
  <2>3. b.cluster = c.cluster /\ b.notice = c.notice
    BY <2>1, EmptyContent DEF Beside, Content
  <2> QED
    BY <2>1, <2>2, <2>3, SameContent
<1>3. Beside(c, Empty) = c
  <2>1. PICK b \in Content : b = Beside(c, Empty)
    BY <1>1, EmptyContent
  <2>2. /\ b.owners = c.owners /\ b.rows = c.rows /\ b.session = c.session /\ b.invitation = c.invitation /\ b.file = c.file
    BY <2>1, EmptyContent DEF Beside, Content
  <2>3. b.cluster = c.cluster /\ b.notice = c.notice
    BY <2>1, EmptyContent DEF Beside, Content
  <2> QED
    BY <2>1, <2>2, <2>3, SameContent
<1>4. Beside(c, d).owners = c.owners \cup d.owners /\ Beside(c, d).rows = c.rows \cup d.rows
  BY DEF Beside
<1> QED
  BY <1>1, <1>2, <1>3, <1>4

(* Restoring twice changes nothing more, and restoring nothing nothing. *)
LEMMA RestoredTwice ==
    ASSUME NEW c \in Content, NEW n \in BOOLEAN
    PROVE  /\ RestorePolicy(RestorePolicy(c, n), FALSE) = RestorePolicy(c, n)
           /\ RestorePolicy(Empty, FALSE) = Empty
<1>1. PICK d \in Content : d = RestorePolicy(c, n)
  BY RestorePolicyRow
<1>2. PICK e \in Content : e = RestorePolicy(d, FALSE)
  BY RestorePolicyRow
<1>3. /\ e.owners = d.owners /\ e.rows = d.rows /\ e.session = d.session /\ e.invitation = d.invitation /\ e.file = d.file
      /\ e.cluster = d.cluster
  <2>1. d.session # "live" /\ d.invitation # "outstanding"
    BY <1>1, RestorePolicyRow
  <2>2. /\ e.owners = d.owners /\ e.rows = d.rows /\ e.file = d.file /\ e.cluster = d.cluster
        /\ e.session = IF d.session = "live" THEN "revoked" ELSE d.session
        /\ e.invitation = IF d.invitation = "outstanding" THEN "revoked" ELSE d.invitation
    BY <1>2, RestorePolicyRow
  <2> QED
    BY <2>1, <2>2
<1>4. e.notice = d.notice
  BY <1>2, RestorePolicyRow DEF Content
<1>5. e = d
  BY <1>3, <1>4, SameContent
<1>6. PICK z \in Content : z = RestorePolicy(Empty, FALSE)
  BY RestorePolicyRow, EmptyContent
<1>7. /\ z.owners = {} /\ z.rows = {} /\ z.session = "none" /\ z.invitation = "none" /\ z.file = "none" /\ z.cluster = FALSE
  BY <1>6, RestorePolicyRow, EmptyContent
<1>8. z.notice = FALSE
  BY <1>6, RestorePolicyRow, EmptyContent
<1>9. z = Empty
  BY <1>7, <1>8, SameContent, EmptyContent
<1> QED
  BY <1>1, <1>2, <1>5, <1>6, <1>9

(* What an import and an upgrade make of a database. *)
LEMMA ImportedRow ==
    ASSUME NEW rec \in Database, NEW b \in Bundle
    PROVE  /\ Imported(rec, b) \in Database
           /\ Imported(rec, b).version = rec.version /\ Imported(rec, b).mirror = rec.mirror
           /\ Imported(rec, b).policy = IF b.version >= PolicyVersion THEN b.policy ELSE "open"
           /\ Imported(rec, b).admin = importRoles(rec.admin, b)
           /\ Imported(rec, b).content = RestorePolicy(Beside(rec.content, b.content), b.notice)
<1>1. PICK c \in Content : c = RestorePolicy(Beside(rec.content, b.content), b.notice)
  BY BesideRow, RestorePolicyRow DEF Database, Bundle
<1>2. PICK pol \in Policies : pol = IF b.version >= PolicyVersion THEN b.policy ELSE "open"
  BY DEF Bundle, Policies
<1>3. PICK adm \in Admins : adm = importRoles(rec.admin, b)
  BY DEF Bundle, Database, importRoles, Admins
<1>4. Imported(rec, b) = [rec EXCEPT !.policy = pol, !.admin = adm, !.content = c]
  BY <1>1, <1>2, <1>3 DEF Imported
<1>5. rec = [version |-> rec.version, mirror |-> rec.mirror, policy |-> rec.policy, admin |-> rec.admin,
             content |-> rec.content]
  BY DEF Database
<1>6. Imported(rec, b) = [version |-> rec.version, mirror |-> rec.mirror, policy |-> pol, admin |-> adm,
                          content |-> c]
  BY <1>4, <1>5
<1> QED
  BY <1>1, <1>2, <1>3, <1>6 DEF Database

(* What an upgrade of a copy to the newest release makes of a row.          *)
LEMMA UpgradedRow ==
    ASSUME NEW rec \in Database
    PROVE  /\ Upgraded(rec, Current) \in Database /\ Upgraded(rec, Current).version = Current
           /\ Upgraded(rec, Current).content = rec.content /\ Upgraded(rec, Current).mirror = Current
           /\ rec.admin = "none" => Upgraded(rec, Current).admin = "none"
           /\ (rec.version >= RolesVersion => rec.admin # "unroled") => Upgraded(rec, Current).admin # "unroled"
<1>1. rec.version \in Nat /\ rec.version <= Current /\ Current \in 0 .. Current /\ Current \in Nat
  BY StartupAssumption DEF Database
<1>2. PICK r \in Database : r = Migrated(rec, Current, rec.version)
  BY <1>1, MigratedRow
<1>3. /\ r.version = Current /\ r.content = rec.content
      /\ r.admin = IF rec.version < RolesVersion /\ RolesVersion <= Current /\ rec.admin = "unroled"
                   THEN "roled" ELSE rec.admin
  BY <1>1, <1>2, MigratedRow
<1>4. Upgraded(rec, Current) = [r EXCEPT !.mirror = Current]
  BY <1>1, <1>2 DEF Upgraded
<1>5. PICK u : u = [r EXCEPT !.mirror = Current]
  OBVIOUS
<1>6. /\ u \in Database /\ u.version = r.version /\ u.content = r.content /\ u.admin = r.admin
      /\ u.mirror = Current
  BY <1>1, <1>5 DEF Database
<1>7. RolesVersion \in Nat /\ RolesVersion <= Current
  BY StartupAssumption
<1> QED
  BY <1>1, <1>3, <1>4, <1>5, <1>6, <1>7

(* A new database is one.                                                   *)
LEMMA NewRow == NewDatabase \in Database
BY StartupAssumption, NothingAssumption, EmptyContent DEF NewDatabase, Database, Policies, Admins

(* A step of operator p that leaves both databases alone. *)
LEMMA TaskStep ==
    ASSUME BackupInv, NEW p \in Operators, NEW t \in Task, SetTask(p, t), StartupInv', UNCHANGED db,
           UNCHANGED <<storage, object, making, archives, imports>>, TaskSound(p, t)',
           \A o \in Operators : o # p => (At(o, "opened") => At(o, "opened")'),
           UNCHANGED directory \/ (directory \in Staging /\ StagingSound(directory))', MigrationVerdict'
    PROVE  BackupInv'
<1>1. task' \in [Operators -> Task] /\ task'[p] = t /\ \A o \in Operators : o # p => task'[o] = task[o]
  BY DEF SetTask, BackupInv, BackupTypes
<1>2. BackupTypes' /\ SourceKept /\ TargetKept /\ SourceInv'
  BY <1>1 DEF BackupInv, BackupTypes, SourceKept, TargetKept, SourceInv, Source
<1>3. TaskSound(p, task[p])'
  BY <1>1 DEF TaskSound
<1>4. \A o \in Operators : \/ task'[o] = task[o] /\ (At(o, "opened") => At(o, "opened")')
                           \/ TaskSound(o, task[o])'
  BY <1>1, <1>3
<1>5. UNCHANGED directory \/ (directory # None => StagingSound(directory))'
  OBVIOUS
<1>6. RestInv'
  BY <1>2, <1>4, <1>5, RestStep
<1> QED
  BY <1>6 DEF BackupInv, RestInv

(* An archive is staged for a new data directory, and published there. *)
LEMMA RestoreStageKeeps ==
    ASSUME BackupInv, NEW p \in Operators, NEW a \in archives, RestoreStage(p, a)
    PROVE  BackupInv'
<1>1. /\ a \in Archive /\ SnapshotSound(a.snapshot) /\ BundleSound(a.portable) /\ HoldsFile(a.snapshot, a.object)
      /\ UNCHANGED <<startupVars, Unfinished, directory, imports>>
  BY DEF BackupInv, BackupTypes, ArchivesInv, RestoreStage
<1>2. PICK s : s = IF a.snapshot # None
                   THEN [db |-> Upgraded(a.snapshot, Current), object |-> a.object, from |-> "snapshot"]
                   ELSE [db |-> Imported(Upgraded(NewDatabase, Current), a.portable),
                         object |-> FALSE, from |-> "portable"]
  OBVIOUS
<1>3. s \in Staging /\ StagingSound(s)
  <2>1. CASE a.snapshot # None
    <3>1. PICK u \in Database : /\ u = Upgraded(a.snapshot, Current) /\ u.version = Current /\ u.admin # "unroled"
                                /\ u.content = a.snapshot.content
      BY <1>1, <2>1, UpgradedRow DEF Archive, SnapshotSound
    <3>2. s = [db |-> u, object |-> a.object, from |-> "snapshot"]
      BY <1>2, <2>1, <3>1
    <3> QED
      BY <1>1, <2>1, <3>1, <3>2 DEF Staging, StagingSound, HoldsFile, Archive
  <2>2. CASE a.snapshot = None
    <3>1. PICK u \in Database : u = Upgraded(NewDatabase, Current) /\ u.version = Current
      BY UpgradedRow, NewRow
    <3>2. PICK i \in Database : i = Imported(u, a.portable) /\ i.version = Current
      BY <1>1, <3>1, ImportedRow DEF BundleSound
    <3>3. s = [db |-> i, object |-> FALSE, from |-> "portable"]
      BY <1>2, <2>2, <3>1, <3>2
    <3> QED
      BY <3>2, <3>3 DEF Staging, StagingSound
  <2> QED
    BY <2>1, <2>2
<1>4. PICK t : t = [kind |-> "restore", pc |-> "publish", bundle |-> a.portable, staging |-> s] /\ SetTask(p, t)
  BY <1>2 DEF RestoreStage
<1>5. t \in Task /\ t.pc = "publish" /\ t.staging = s
  BY <1>1, <1>3, <1>4 DEF Task, BundleSound
<1>6. UNCHANGED <<db, open, storage, object, making, archives, verdicts>>
  BY <1>1 DEF startupVars, Unfinished
<1>7. StagingSound(s)'
  BY <1>3, <1>6 DEF StagingSound, HoldsFile, Source
<1>8. TaskSound(p, t)'
  BY <1>3, <1>5, <1>7 DEF TaskSound
<1>9. StartupInv' /\ MigrationVerdict'
  BY <1>1, <1>6, StartupStill DEF BackupInv, MigrationVerdict, Administers, RolesLost, Alone
<1> QED
  BY <1>1, <1>4, <1>5, <1>6, <1>8, <1>9, TaskStep DEF At

(* A staged directory becomes the restored one, unless there is one.        *)
LEMMA RestorePublishKeeps ==
    ASSUME BackupInv, NEW p \in Operators, RestorePublish(p)
    PROVE  BackupInv'
<1>1. /\ UNCHANGED <<startupVars, Unfinished, imports>> /\ SetTask(p, NoTask) /\ TaskSound(p, task[p])
      /\ task[p].pc = "publish" /\ directory' = IF directory = None THEN task[p].staging ELSE directory
  BY DEF BackupInv, TasksInv, RestorePublish, TaskIs
<1>2. UNCHANGED <<db, open, storage, object, making, archives, verdicts>>
  BY <1>1 DEF startupVars, Unfinished
<1>3. UNCHANGED directory \/ (directory \in Staging /\ StagingSound(directory))'
  <2>1. CASE directory = None
    BY <1>1, <1>2, <2>1 DEF TaskSound, StagingSound, HoldsFile, Source
  <2>2. CASE directory # None
    BY <1>1, <2>2
  <2> QED
    BY <2>1, <2>2
<1>4. TaskSound(p, NoTask)'
  BY Kinds DEF TaskSound
<1>5. StartupInv' /\ MigrationVerdict'
  BY <1>1, <1>2, StartupStill DEF BackupInv, MigrationVerdict, Administers, RolesLost, Alone
<1> QED
  BY <1>1, <1>2, <1>3, <1>4, <1>5, Kinds, TaskStep DEF At

(* A restore or a migration begins to open the target. *)
LEMMA OperatorBegins ==
    ASSUME BackupInv, NEW p \in Operators, NEW b, BundleSound(b), NEW kind \in {"logical", "migrate"},
           SetTask(p, [NoTask EXCEPT !.kind = kind, !.pc = "open", !.bundle = b]),
           Begin(p, "target", Current), UNCHANGED <<Unfinished, directory, imports>>
    PROVE  BackupInv'
<1>1. p \in Procs /\ p \notin Servers /\ "target" \in Databases
  BY BackupAssumption
<1>2. StartupInv'
  BY <1>1, BeginKeeps DEF BackupInv, Home, ReleasesOf
<1>3. PICK t : t = [NoTask EXCEPT !.kind = kind, !.pc = "open", !.bundle = b]
  OBVIOUS
<1>4. t \in Task /\ t.pc = "open" /\ t.kind = kind /\ t.bundle = b
  BY <1>3 DEF NoTask, Task, BundleSound
<1>5. UNCHANGED <<db, storage, object, making, archives, verdicts>>
  BY DEF Begin, Unfinished
<1>6. BundleSound(b)'
  BY <1>5 DEF BundleSound
<1>7. TaskSound(p, t)'
  BY <1>4, <1>6 DEF TaskSound
<1>8. \A o \in Operators : o # p => (At(o, "opened") => At(o, "opened")')
  BY <1>1, BackupAssumption DEF Begin, MoveTo, At, BackupInv, StartupInv, StartupTypes
<1>9. MigrationVerdict'
  BY <1>5 DEF BackupInv, MigrationVerdict, Administers, RolesLost, Alone
<1> QED
  BY <1>2, <1>3, <1>4, <1>5, <1>7, <1>8, <1>9, TaskStep

(* A restore into PostgreSQL begins to open the target.                     *)
LEMMA RestoreLogicalKeeps ==
    ASSUME BackupInv, NEW p \in Operators, NEW b \in Foreign \cup {a.portable : a \in archives},
           RestoreLogical(p, b)
    PROVE  BackupInv'
<1>1. BundleSound(b)
  BY ForeignSound DEF BackupInv, ArchivesInv
<1> QED
  BY <1>1, OperatorBegins DEF RestoreLogical

(* A migration exports the source and begins to open the target.            *)
LEMMA MigrateExportKeeps ==
    ASSUME BackupInv, NEW p \in Operators, MigrateExport(p)
    PROVE  BackupInv'
<1>1. PICK b : /\ BundleSound(b) /\ SetTask(p, [NoTask EXCEPT !.kind = "migrate", !.pc = "open", !.bundle = b])
               /\ Begin(p, "target", Current) /\ UNCHANGED <<Unfinished, directory, imports>>
  BY Exported, ForeignSound DEF MigrateExport
<1> QED
  BY <1>1, OperatorBegins

(* An operator's process closes the target after its work. *)
LEMMA OperatorCloses ==
    ASSUME BackupInv, NEW p \in Operators, At(p, "opened"), MoveTo(p, Closed) /\ Unlock(p),
           UNCHANGED <<provider, db, fresh, unmarked, disturbed>>
    PROVE  /\ StartupInv'
           /\ \A o \in Operators : o # p => (At(o, "opened") => At(o, "opened")')
<1>1. p \in Procs
  BY BackupAssumption
<1>2. StartupInv'
  BY <1>1, OutsideStep DEF At, BackupInv, StartupInv, StartupTypes
<1> QED
  BY <1>1, <1>2, BackupAssumption DEF MoveTo, At, BackupInv, StartupInv, StartupTypes

(* Import's check of the destination. *)
LEMMA ImportCheckKeeps ==
    ASSUME BackupInv, NEW p \in Operators, ImportCheck(p)
    PROVE  BackupInv'
<1>1. /\ At(p, "opened") /\ task[p].pc = "open" /\ TaskSound(p, task[p]) /\ task[p] \in Task
      /\ UNCHANGED <<provider, db, fresh, unmarked, disturbed, storage, object, making, archives, verdicts, directory,
                     imports>>
  BY DEF ImportCheck, Unfinished, BackupInv, TasksInv, BackupTypes
<1>2. MigrationVerdict'
  BY <1>1 DEF BackupInv, MigrationVerdict, Administers, RolesLost, Alone
<1>3. CASE SetTask(p, NoTask) /\ MoveTo(p, Closed) /\ Unlock(p)
  <2>1. TaskSound(p, NoTask)'
    BY Kinds DEF TaskSound
  <2> QED
    BY <1>1, <1>2, <1>3, <2>1, OperatorCloses, Kinds, TaskStep
<1>4. CASE SetTask(p, [task[p] EXCEPT !.pc = "import"]) /\ UNCHANGED <<open, lock>>
  <2>1. PICK t : t = [task[p] EXCEPT !.pc = "import"]
    OBVIOUS
  <2>2. t \in Task /\ t.pc = "import" /\ t.bundle = task[p].bundle /\ t.kind = task[p].kind
    BY <1>1, <2>1 DEF Task
  <2>3. PICK b : b = t.bundle /\ BundleSound(b) /\ t.kind # "restore"
    BY <1>1, <2>2 DEF TaskSound
  <2>4. BundleSound(b)' /\ At(p, "opened")'
    BY <1>1, <1>4, <2>3 DEF BundleSound, At
  <2>5. TaskSound(p, t)'
    BY <2>2, <2>3, <2>4 DEF TaskSound
  <2>6. StartupInv'
    BY <1>1, <1>4, StartupStill DEF startupVars, BackupInv
  <2>7. \A o \in Operators : o # p => (At(o, "opened") => At(o, "opened")')
    BY <1>4 DEF At
  <2> QED
    BY <1>1, <1>2, <1>4, <2>1, <2>2, <2>5, <2>6, <2>7, TaskStep
<1> QED
  BY <1>3, <1>4 DEF ImportCheck

(* An import that fails leaves the target as it was. *)
LEMMA ImportFails ==
    ASSUME BackupInv, NEW p \in Operators, At(p, "opened"), SetTask(p, NoTask), MoveTo(p, Closed) /\ Unlock(p),
           UNCHANGED <<provider, db, fresh, unmarked, disturbed, storage, object, making, archives, directory, imports>>,
           MigrationVerdict'
    PROVE  BackupInv'
<1>1. TaskSound(p, NoTask)'
  BY Kinds DEF TaskSound
<1> QED
  BY <1>1, OperatorCloses, Kinds, TaskStep

(* An import that succeeds: nobody in the bundle was in the target, so that *)
(* it is the first of its deployment, or brings nothing.                    *)
LEMMA ImportSucceeds ==
    ASSUME BackupInv, NEW p \in Operators, task[p].pc = "import", ~Collides(db["target"], task[p].bundle),
           db' = [db EXCEPT !["target"] = Imported(@, task[p].bundle)],
           imports' = imports \cup {[by |-> p, bundle |-> task[p].bundle]}, fresh' = fresh \ {"target"},
           SetTask(p, IF task[p].kind = "migrate" THEN [task[p] EXCEPT !.pc = "verify"] ELSE NoTask),
           IF task[p].kind = "migrate" THEN UNCHANGED <<open, lock>> ELSE MoveTo(p, Closed) /\ Unlock(p),
           UNCHANGED <<provider, unmarked, disturbed, storage, object, making, archives, verdicts, directory>>
    PROVE  BackupInv'
<1>1. PICK b \in Bundle : /\ b = task[p].bundle /\ BundleSound(b) /\ At(p, "opened") /\ task[p] \in Task
                          /\ task[p].kind # "restore"
  BY DEF BackupInv, TasksInv, TaskSound, BundleSound, BackupTypes
<1>2. db["target"] \in Database /\ "target" \in Databases /\ "source" \in Databases
  BY BackupAssumption DEF BackupInv, StartupInv, StartupTypes
<1>3. PICK row \in Database : row = Imported(db["target"], b)
  BY <1>2, ImportedRow
<1>4. /\ row.version = db["target"].version /\ row.mirror = db["target"].mirror /\ row.policy = b.policy
      /\ row.content = RestorePolicy(Beside(db["target"].content, b.content), b.notice)
      /\ (db["target"].admin = "none" => row.admin = b.admin)
      /\ (db["target"].admin # "none" => row.admin = "unroled")
  BY <1>1, <1>2, <1>3, ImportedRow, StartupAssumption DEF BundleSound, importRoles
<1>5. db' = [db EXCEPT !["target"] = row]
  BY <1>1, <1>3
<1>6. db' \in [Databases -> Database] /\ db'["target"] = row /\ \A d \in Databases : d # "target" => db'[d] = db[d]
  BY <1>2, <1>5 DEF BackupInv, StartupInv, StartupTypes
<1>7. StartupInv'
  <2>1. p \in Procs
    BY BackupAssumption
  <2>2. \A d \in Databases : /\ db'[d].version = db[d].version /\ db'[d].mirror = db[d].mirror
                             /\ d \in fresh' => db'[d].policy = db[d].policy
    BY <1>4, <1>6
  <2> QED
    BY <1>1, <1>6, <2>1, <2>2, OutsideStep DEF At, BackupInv
<1>8. SourceKept /\ SourceInv'
  BY <1>2, <1>6 DEF SourceKept, SourceInv, Source, BackupInv
<1>9. b.content.owners \cap db["target"].content.owners = {}
  BY <1>1 DEF Collides
<1>10. b.admin = "none" => b.content = Empty /\ b.notice = FALSE /\ b.content.owners = {}
  BY <1>1 DEF BundleSound, Bundle
<1>11. row.content.owners = db["target"].content.owners \cup b.content.owners
       /\ row.content.rows = db["target"].content.rows \cup b.content.rows
  BY <1>1, <1>2, <1>4, BesideRow, RestorePolicyRow DEF Database, Bundle
<1>12. b.admin = "none" => row.content = RestorePolicy(db["target"].content, FALSE)
  BY <1>2, <1>4, <1>10, BesideRow DEF Database
<1>27. PICK n : n = [by |-> p, bundle |-> b]
  OBVIOUS
<1>25. n = [by |-> p, bundle |-> b] /\ imports' = imports \cup {n} /\ n.bundle = b
  BY <1>1, <1>27
<1>26. db["target"].version = Current
  BY <1>1, TargetCurrent DEF BackupInv
<1>13. TargetInv'
  <2>1. row.admin = "none" <=> row.content.owners = {}
    BY <1>1, <1>4, <1>11 DEF BackupInv, TargetInv, BundleSound
  <2>2. ASSUME row.content.owners = {} PROVE row.content = Empty
    <3>1. b.admin = "none" /\ db["target"].content = Empty
      BY <1>1, <1>11, <2>2 DEF BackupInv, TargetInv, BundleSound
    <3> QED
      BY <1>12, <3>1, RestoredTwice, EmptyContent
  <2>3. ASSUME NEW i \in imports' PROVE ImportSound(i)'
    BY <1>6, <1>11, <1>25 DEF BackupInv, TargetInv, ImportSound
  <2>4. ASSUME NEW w \in row.content.owners PROVE \E i \in imports' : w \in i.bundle.content.owners
    BY <1>11, <1>25 DEF BackupInv, TargetInv
  <2>5. row.version = Current /\ \E i \in imports' : row.policy = i.bundle.policy
    BY <1>4, <1>25, <1>26
  <2> QED
    BY <1>6, <2>1, <2>2, <2>3, <2>4, <2>5 DEF TargetInv
<1>14. ImportedOnce'
  <2>1. ASSUME NEW i \in imports', NEW j \in imports', i # j
        PROVE  i.bundle.content.owners \cap j.bundle.content.owners = {}
    <3>1. (i \in imports /\ j = n) \/ (j \in imports /\ i = n) \/ (i \in imports /\ j \in imports)
      BY <1>25, <2>1
    <3>2. \A k \in imports : k.bundle.content.owners \cap b.content.owners = {}
      BY <1>9 DEF BackupInv, TargetInv, ImportSound
    <3> QED
      BY <1>25, <2>1, <3>1, <3>2 DEF BackupInv, ImportedOnce
  <2> QED
    BY <2>1 DEF ImportedOnce
<1>15. \A o \in Operators : o # p => (At(o, "opened") => At(o, "opened")')
  BY BackupAssumption DEF MoveTo, At, BackupInv, StartupInv, StartupTypes
<1>16. /\ task' = [task EXCEPT ![p] = IF task[p].kind = "migrate" THEN [task[p] EXCEPT !.pc = "verify"] ELSE NoTask]
       /\ \A o \in Operators : o # p => task'[o] = task[o]
  BY DEF SetTask, BackupInv, BackupTypes
<1>17. PICK t \in Task : /\ task'[p] = t /\ (t = NoTask \/ (/\ t.pc = "verify" /\ t.bundle = b /\ t.kind = "migrate"
                                                           /\ UNCHANGED open))
  <2>1. PICK u : u = [task[p] EXCEPT !.pc = "verify"]
    OBVIOUS
  <2>2. u \in Task /\ u.pc = "verify" /\ u.bundle = b /\ u.kind = task[p].kind
    BY <1>1, <2>1 DEF Task
  <2>3. task'[p] = IF task[p].kind = "migrate" THEN u ELSE NoTask
    BY <1>16, <2>1 DEF BackupInv, BackupTypes
  <2> QED
    BY <2>2, <2>3, Kinds
<1>18. BundleSound(b)' /\ Delivered(b)'
  <2>1. ASSUME b.content.owners # {}, Unshared(b)' PROVE Holds(b)'
    <3>1. db["target"].content.owners = {}
      <4>1. ASSUME NEW w \in db["target"].content.owners PROVE FALSE
        <5>1. PICK i \in imports : w \in i.bundle.content.owners
          BY <4>1 DEF BackupInv, TargetInv
        <5>2. i.bundle.content.owners = b.content.owners
          BY <1>25, <2>1, <5>1 DEF Unshared
        <5> QED
          BY <1>9, <4>1, <5>1, <5>2
      <4> QED
        BY <4>1
    <3>2. db["target"].content = Empty /\ db["target"].admin = "none"
      BY <3>1 DEF BackupInv, TargetInv
    <3>3. row.content = RestorePolicy(b.content, b.notice) /\ row.admin = b.admin
      BY <1>4, <3>2, BesideRow DEF Bundle
    <3> QED
      BY <1>6, <3>3 DEF Holds, Administers
  <2> QED
    BY <1>1, <2>1, <1>8, SoundStays DEF Delivered
<1>19. TaskSound(p, task[p])'
  <2>1. CASE t = NoTask
    BY <1>17, <2>1, Kinds DEF TaskSound
  <2>2. CASE t.pc = "verify" /\ t.bundle = b /\ t.kind = "migrate" /\ UNCHANGED open
    <3>1. At(p, "opened")'
      BY <1>1, <2>2 DEF At
    <3> QED
      BY <1>17, <1>18, <1>25, <2>2, <3>1 DEF TaskSound, Delivered, Unshared, Holds
  <2> QED
    BY <1>17, <2>1, <2>2
<1>20. ASSUME NEW o \in Operators, o # p, task[o].pc = "verify", Delivered(task[o].bundle)
       PROVE  Delivered(task[o].bundle)'
  <2>1. PICK c : /\ c = task[o].bundle /\ task'[o] = task[o] /\ BundleSound(c) /\ c \in Bundle
                 /\ [by |-> o, bundle |-> c] \in imports
    BY <1>16, <1>20 DEF BackupInv, TasksInv, TaskSound, BundleSound
  <2>2. ASSUME c.content.owners # {}, Unshared(c)' PROVE Holds(c)'
    <3>1. Unshared(c) /\ b.content.owners \in {{}, c.content.owners}
      BY <1>25, <2>2 DEF Unshared
    <3>2. Holds(c)
      BY <1>20, <2>1, <2>2, <3>1 DEF Delivered
    <3>3. PICK i \in imports : i.bundle = c
      BY <2>1
    <3>4. c.content.owners \subseteq db["target"].content.owners
      BY <3>3 DEF BackupInv, TargetInv, ImportSound
    <3>5. b.content.owners = {} /\ b.admin = "none"
      BY <1>1, <1>9, <2>2, <3>1, <3>4 DEF BundleSound
    <3>6. db["target"].content = RestorePolicy(c.content, c.notice) /\ db["target"].admin # "none"
      BY <2>2, <3>2, <3>4 DEF Holds, BackupInv, TargetInv
    <3>9. c.content \in Content /\ c.notice \in BOOLEAN
      BY <2>1 DEF Bundle
    <3>10. row.content = RestorePolicy(RestorePolicy(c.content, c.notice), FALSE)
      BY <1>12, <3>5, <3>6
    <3>7. row.content = RestorePolicy(c.content, c.notice)
      BY <3>9, <3>10, RestoredTwice
    <3>8. row.admin = "unroled" /\ RolesLost'
      BY <1>4, <1>25, <3>5, <3>6 DEF RolesLost
    <3> QED
      BY <1>6, <3>7, <3>8 DEF Holds, Administers
  <2> QED
    BY <2>1, <2>2 DEF Delivered, Unshared, Holds
<1>21. ASSUME NEW o \in Operators PROVE TaskSound(o, task[o])'
  <2>1. CASE o = p
    BY <1>19, <2>1
  <2>2. CASE o # p
    <3>1. task[o].pc \in {"import", "verify"} => At(o, "opened")'
      BY <1>15, <2>2 DEF BackupInv, TasksInv, TaskSound
    <3> QED
      BY <1>8, <1>16, <1>20, <1>25, <2>2, <3>1, TaskStays
  <2> QED
    BY <2>1, <2>2
<1>22. TasksInv'
  BY <1>8, <1>21, SoundStays DEF TasksInv, BackupInv
<1>23. BackupTypes'
  BY <1>16, <1>17 DEF BackupInv, BackupTypes
<1>24. MakingInv' /\ ArchivesInv' /\ MigrationVerdict'
  <2>1. MakingInv'
    BY <1>8, SoundStays DEF BackupInv, MakingInv, SourceKept
  <2>2. ArchivesInv'
    BY <1>8, SoundStays DEF BackupInv, ArchivesInv
  <2> QED
    BY <2>1, <2>2 DEF BackupInv, MigrationVerdict, Administers, RolesLost, Alone
<1> QED
  BY <1>7, <1>8, <1>13, <1>14, <1>22, <1>23, <1>24 DEF BackupInv

(* The import commits, or fails and leaves the target as it was.            *)
LEMMA ImportCommitKeeps ==
    ASSUME BackupInv, NEW p \in Operators, ImportCommit(p)
    PROVE  BackupInv'
<1>1. /\ task[p].pc = "import" /\ At(p, "opened")
      /\ UNCHANGED <<provider, unmarked, disturbed, storage, object, making, archives, verdicts, directory>>
  BY DEF ImportCommit, Unfinished, BackupInv, TasksInv, TaskSound
<1>2. UNCHANGED imports => MigrationVerdict'
  BY <1>1 DEF BackupInv, MigrationVerdict, Administers, RolesLost, Alone
<1>3. CASE SetTask(p, NoTask) /\ MoveTo(p, Closed) /\ Unlock(p) /\ UNCHANGED <<db, imports, fresh>>
  BY <1>1, <1>2, <1>3, ImportFails
<1>4. CASE /\ ~Collides(db["target"], task[p].bundle)
           /\ db' = [db EXCEPT !["target"] = Imported(@, task[p].bundle)]
           /\ imports' = imports \cup {[by |-> p, bundle |-> task[p].bundle]} /\ fresh' = fresh \ {"target"}
           /\ SetTask(p, IF task[p].kind = "migrate" THEN [task[p] EXCEPT !.pc = "verify"] ELSE NoTask)
           /\ IF task[p].kind = "migrate" THEN UNCHANGED <<open, lock>> ELSE MoveTo(p, Closed) /\ Unlock(p)
  BY <1>1, <1>4, ImportSucceeds
<1> QED
  BY <1>3, <1>4 DEF ImportCommit

(* What a digest says of contents. *)
LEMMA DigestFields ==
    ASSUME NEW a, NEW b, SemanticDigest(a) = SemanticDigest(b)
    PROVE  a.content.owners = b.content.owners /\ a.content.rows = b.content.rows
BY DEF SemanticDigest

(* The digests agree when nothing is revoked or noted on the way in. *)
LEMMA DigestAgrees ==
    ASSUME BackupInv, NEW b \in Bundle, Holds(b), db["target"].policy = b.policy, ~b.notice,
           b.content.invitation # "outstanding"
    PROVE  SemanticDigest(Export(db["target"])) = SemanticDigest(b)
<1>1. db["target"] \in Database /\ db["target"].content \in Content /\ b.content \in Content /\ b.notice = FALSE
  BY BackupAssumption DEF BackupInv, StartupInv, StartupTypes, Database, Bundle
<1>2. PICK d \in Content : d = b.content
  BY <1>1
<1>3. PICK c \in Content :
          /\ c = db["target"].content
          /\ c.owners = d.owners /\ c.rows = d.rows /\ c.file = d.file
          /\ c.session = IF d.session = "live" THEN "revoked" ELSE d.session
          /\ c.invitation = IF d.invitation = "outstanding" THEN "revoked" ELSE d.invitation
          /\ c.notice = d.notice
  <2>1. PICK c \in Content : c = RestorePolicy(d, FALSE)
    BY RestorePolicyRow
  <2>2. /\ c.owners = d.owners /\ c.rows = d.rows /\ c.file = d.file
        /\ c.session = IF d.session = "live" THEN "revoked" ELSE d.session
        /\ c.invitation = IF d.invitation = "outstanding" THEN "revoked" ELSE d.invitation
    BY <2>1, RestorePolicyRow
  <2>3. c.notice = d.notice
    BY <2>1, RestorePolicyRow DEF Content
  <2>4. db["target"].content = c
    BY <1>1, <1>2, <2>1 DEF Holds
  <2> QED
    BY <2>2, <2>3, <2>4
<1>4. /\ c.invitation = d.invitation /\ c.notice = d.notice
  BY <1>2, <1>3 DEF Content
<1>5. PICK x : x = [c EXCEPT !.cluster = FALSE]
  OBVIOUS
<1>6. /\ x.owners = c.owners /\ x.rows = c.rows /\ x.file = c.file /\ x.session = c.session
      /\ x.invitation = c.invitation /\ x.notice = c.notice
  BY <1>3, <1>5 DEF Content
<1>7. PICK e : e = Export(db["target"])
  OBVIOUS
<1>8. e.policy = b.policy /\ e.content = x
  BY <1>3, <1>5, <1>7 DEF Export
<1>9. (e.content.session # "none") = (b.content.session # "none")
  BY <1>2, <1>3, <1>6, <1>8
<1> QED
  BY <1>2, <1>3, <1>4, <1>6, <1>7, <1>8, <1>9 DEF SemanticDigest

(* The export of the target has its rows and administrators. *)
LEMMA ExportedTarget ==
    ASSUME BackupInv
    PROVE  /\ Export(db["target"]).content.owners = db["target"].content.owners
           /\ Export(db["target"]).content.rows = db["target"].content.rows
<1>1. db["target"].content \in Content
  BY BackupAssumption DEF BackupInv, StartupInv, StartupTypes, Database
<1>2. PICK c \in Content : c = db["target"].content
  BY <1>1
<1>3. [c EXCEPT !.cluster = FALSE].owners = c.owners /\ [c EXCEPT !.cluster = FALSE].rows = c.rows
  BY <1>2 DEF Content
<1> QED
  BY <1>2, <1>3 DEF Export

(* A migration compares the digests, or fails to. *)
LEMMA MigrateVerifyKeeps ==
    ASSUME BackupInv, NEW p \in Operators, MigrateVerify(p)
    PROVE  BackupInv'
<1>1. /\ task[p].pc = "verify" /\ TaskSound(p, task[p])
      /\ SetTask(p, NoTask) /\ MoveTo(p, Closed) /\ Unlock(p)
      /\ UNCHANGED <<provider, db, fresh, unmarked, disturbed, storage, object, making, archives, directory, imports>>
  BY DEF MigrateVerify, TaskIs, BackupInv, TasksInv
<1>2. PICK b \in Bundle : /\ b = task[p].bundle /\ At(p, "opened") /\ Delivered(b)
                          /\ [by |-> p, bundle |-> b] \in imports
  BY <1>1 DEF TaskSound, BundleSound
<1>3. PICK i \in imports : i.bundle = b
  BY <1>2
<1>4. PICK outcome : /\ verdicts' = verdicts \cup {[bundle |-> b, target |-> db["target"], outcome |-> outcome]}
                     /\ outcome = "ok" => SemanticDigest(Export(db["target"])) = SemanticDigest(b)
                     /\ outcome = "mismatch" => SemanticDigest(Export(db["target"])) # SemanticDigest(b)
  BY <1>2 DEF MigrateVerify
<1>10. PICK v : v = [bundle |-> b, target |-> db["target"], outcome |-> outcome]
  OBVIOUS
<1>5. verdicts' = verdicts \cup {v} /\ v.bundle = b /\ v.target = db["target"] /\ v.outcome = outcome
  BY <1>4, <1>10
<1>6. /\ b.content.owners \subseteq db["target"].content.owners
      /\ b.content.rows \subseteq db["target"].content.rows
  BY <1>3 DEF BackupInv, TargetInv, ImportSound
<1>7. ASSUME outcome = "ok", b.content.owners # {}
      PROVE  /\ b.content.rows = db["target"].content.rows /\ b.content.owners = db["target"].content.owners
             /\ Administers(db["target"], b)
  <2>1. b.content.rows = db["target"].content.rows /\ b.content.owners = db["target"].content.owners
    BY <1>4, <1>7, DigestFields, ExportedTarget
  <2>2. Unshared(b)
    <3>1. ASSUME NEW j \in imports PROVE j.bundle.content.owners \in {{}, b.content.owners}
      <4>1. CASE j = i
        BY <1>3, <4>1
      <4>2. CASE j # i
        <5>1. j.bundle.content.owners \cap b.content.owners = {}
          BY <1>3, <3>1, <4>2 DEF BackupInv, ImportedOnce
        <5>2. j.bundle.content.owners \subseteq b.content.owners
          BY <2>1, <3>1 DEF BackupInv, TargetInv, ImportSound
        <5> QED
          BY <5>1, <5>2
      <4> QED
        BY <4>1, <4>2
    <3> QED
      BY <3>1 DEF Unshared
  <2> QED
    BY <1>2, <1>7, <2>1, <2>2 DEF Delivered, Holds
<1>8. ASSUME outcome = "mismatch", b.content.owners # {}, ~b.notice, b.content.invitation # "outstanding", Alone(b)
      PROVE  FALSE
  <2>1. Holds(b)
    BY <1>2, <1>8 DEF Alone, Unshared, Delivered
  <2>2. db["target"].policy = b.policy
    BY <1>3, <1>8 DEF Alone, BackupInv, TargetInv
  <2> QED
    BY <1>4, <1>8, <2>1, <2>2, DigestAgrees
<1>9. MigrationVerdict'
  <2>1. ASSUME NEW w \in verdicts', w.bundle.content.owners # {}
        PROVE  /\ w.bundle.content.rows \subseteq w.target.content.rows
               /\ w.bundle.content.owners \subseteq w.target.content.owners
               /\ w.outcome = "ok" => /\ w.bundle.content.rows = w.target.content.rows
                                      /\ w.bundle.content.owners = w.target.content.owners
                                      /\ Administers(w.target, w.bundle)
               /\ w.outcome = "mismatch" => \/ w.bundle.notice \/ w.bundle.content.invitation = "outstanding"
                                            \/ ~Alone(w.bundle)
    <3>1. CASE w \in verdicts
      BY <2>1, <3>1 DEF BackupInv, MigrationVerdict
    <3>2. CASE w = v
      BY <1>5, <1>6, <1>7, <1>8, <2>1, <3>2
    <3> QED
      BY <1>5, <2>1, <3>1, <3>2
  <2> QED
    BY <1>1, <2>1 DEF MigrationVerdict, Administers, RolesLost, Alone
<1> QED
  BY <1>1, <1>2, <1>9, ImportFails

(* A server stops. *)
LEMMA StopKeeps ==
    ASSUME BackupInv, NEW p \in Servers, Stop(p)
    PROVE  BackupInv'
<1>1. p \in Procs /\ p \notin Operators /\ End(p)
  BY BackupAssumption DEF Stop
<1>2. StartupInv'
  BY <1>1, EndKeeps DEF BackupInv
<1>3. making' = making \/ making' = NoBackup
  BY DEF Stop
<1>4. SourceKept /\ TargetKept /\ SourceInv' /\ BackupTypes' /\ MigrationVerdict'
  BY <1>1, <1>3, Kinds DEF End, Stop, SourceKept, TargetKept, SourceInv, Source, BackupInv, BackupTypes,
                           MigrationVerdict, Administers, RolesLost, Alone
<1>5. UNCHANGED making \/ MakingInv'
  BY <1>3, Kinds DEF MakingInv
<1>6. ASSUME NEW o \in Operators, At(o, "opened") PROVE At(o, "opened")'
  BY <1>1, <1>6, BackupAssumption DEF End, MoveTo, At, BackupInv, StartupInv, StartupTypes
<1>7. RestInv'
  BY <1>4, <1>5, <1>6, RestStep DEF Stop
<1> QED
  BY <1>2, <1>7 DEF BackupInv, RestInv

(* An operator's command is killed, or gives up. *)
LEMMA KillKeeps ==
    ASSUME BackupInv, NEW p \in Operators, Kill(p) \/ GiveUp(p)
    PROVE  BackupInv'
<1>1. /\ p \in Procs /\ SetTask(p, NoTask) /\ (End(p) \/ UNCHANGED startupVars)
      /\ UNCHANGED <<storage, object, making, archives, directory, verdicts, imports>>
  BY BackupAssumption DEF Kill, GiveUp
<1>2. UNCHANGED db /\ StartupInv'
  BY <1>1, EndKeeps, StartupStill DEF End, startupVars, BackupInv
<1>3. \A o \in Operators : o # p => (At(o, "opened") => At(o, "opened")')
  BY <1>1, BackupAssumption DEF End, MoveTo, startupVars, At, BackupInv, StartupInv, StartupTypes
<1>4. TaskSound(p, NoTask)' /\ MigrationVerdict'
  BY <1>1, Kinds DEF TaskSound, BackupInv, MigrationVerdict, Administers, RolesLost, Alone
<1> QED
  BY <1>1, <1>2, <1>3, <1>4, Kinds, TaskStep

(* Every step preserves the invariant. *)
LEMMA NextKeeps ==
    ASSUME BackupInv, [Next]_vars
    PROVE  BackupInv'
<1>1. CASE UNCHANGED vars
  <2>1. UNCHANGED startupVars /\ UNCHANGED backupVars
    BY <1>1 DEF vars
  <2>2. UNCHANGED <<BackupVars, archives, making>>
    BY <2>1 DEF BackupVars, backupVars, startupVars, budgets
  <2>3. SourceKept
    BY <2>1 DEF SourceKept, Source, startupVars, backupVars
  <2>4. MakingInv' /\ ArchivesInv' /\ making' \in Making /\ archives' \subseteq Archive
    BY <2>2, <2>3, SoundStays DEF MakingInv, ArchivesInv, BackupInv, BackupTypes, SourceKept
  <2> QED
    BY <2>2, <2>4, MakingStep
<1>2. ASSUME NEW p \in Procs, StartupStep(p), UNCHANGED backupVars PROVE BackupInv'
  BY <1>2, StartupStepKeeps
<1>3. ASSUME NEW p \in Servers, Server(p) PROVE BackupInv'
  BY <1>3, StartKeeps, SetupKeeps, WriteKeeps, BackupSnapshotKeeps, StopKeeps DEF Server
<1>4. ASSUME NEW p \in Operators, Operator(p) PROVE BackupInv'
  BY <1>4, RestoreStageKeeps, RestoreLogicalKeeps, RestorePublishKeeps, MigrateExportKeeps, ImportCheckKeeps,
     ImportCommitKeeps, MigrateVerifyKeeps, KillKeeps DEF Operator
<1> QED
  BY <1>1, <1>2, <1>3, <1>4, BackupExportKeeps, BackupListKeeps, BackupObjectsKeeps, BackupPublishKeeps
  DEF Next, Idle

-----------------------------------------------------------------------------
(* A deployment that the model starts with: a new database, or one in use.  *)
LEMMA InUseRow ==
    ASSUME NEW v \in Releases, NEW m \in 0 .. Current, NEW c \in Contents
    PROVE  /\ InUse(v, m, c) \in Database /\ InUse(v, m, c).version = v /\ InUse(v, m, c).mirror = m
           /\ v \in Nat /\ v > 0
           /\ InUse(v, m, c).content.owners = {Here}
           /\ InUse(v, m, c).admin # "none" /\ (v >= RolesVersion => InUse(v, m, c).admin # "unroled")
<1>1. v \in 0 .. Current /\ v \in Nat /\ v > 0 /\ RolesVersion \in Nat /\ PolicyVersion \in Nat
  BY StartupAssumption
<1>2. c \in Content /\ c.owners = {Here}
  <2>1. PICK s : s = SignedIn
    OBVIOUS
  <2>6. s \in Content /\ s.owners = {Here}
    <3>1. s = [owners |-> {Here}, rows |-> {}, session |-> "live", invitation |-> "none", cluster |-> FALSE,
               notice |-> FALSE, file |-> "none"]
      BY <2>1 DEF SignedIn, Empty
    <3>2. {Here} \in SUBSET Deployments
      BY DEF Deployments
    <3> QED
      BY <3>1, <3>2 DEF Content
  <2>2. [s EXCEPT !.file = "live"] \in Content /\ [s EXCEPT !.file = "live"].owners = s.owners
    BY <2>6 DEF Content
  <2>3. PICK t : t = [s EXCEPT !.invitation = "outstanding"]
    OBVIOUS
  <2>7. t \in Content /\ t.owners = s.owners
    BY <2>3, <2>6 DEF Content
  <2>4. [t EXCEPT !.cluster = TRUE] \in Content /\ [t EXCEPT !.cluster = TRUE].owners = t.owners
    BY <2>7 DEF Content
  <2>5. [s EXCEPT !.invitation = "outstanding", !.cluster = TRUE] = [t EXCEPT !.cluster = TRUE]
    BY <2>3, <2>6 DEF Content
  <2> QED
    BY <2>1, <2>2, <2>4, <2>5, <2>6, <2>7 DEF Contents
<1> QED
  BY <1>1, <1>2 DEF InUse, Database, Policies, Admins

(* The invariant holds at the start. *)
LEMMA InitSound ==
    ASSUME Init
    PROVE  BackupInv
<1>1. PICK source \in Sources, target \in Targets : Found(source, target)
  BY DEF Init
<1>2. /\ provider \in [Databases -> {"sqlite", "postgres"}]
      /\ Current \in Nat /\ PolicyVersion \in Nat /\ PolicyVersion > 0
  BY BackupAssumption, StartupAssumption DEF Init
<1>3. NewDatabase \in Database /\ NewDatabase.version = 0 /\ NewDatabase.mirror = 0 /\ NewDatabase.admin = "none"
      /\ NewDatabase.content = Empty
  BY NewRow, NothingAssumption DEF NewDatabase
<1>4. /\ source \in Database /\ (source.version = 0 => source.mirror = 0)
      /\ (source.admin = "none" => source.content = Empty)
      /\ (source.admin = "none" <=> source.content.owners = {})
      /\ (source.version >= RolesVersion => source.admin # "unroled")
  BY <1>1, <1>3, InUseRow, EmptyContent DEF Sources, Found
<1>5. PICK new : new = IF provider["target"] = "sqlite" THEN target ELSE [target EXCEPT !.mirror = 0]
  OBVIOUS
<1>6. /\ target \in Database /\ target.content = Empty /\ target.admin = "none"
      /\ target.mirror = target.version
  BY <1>2, <1>3, UpgradedRow DEF Targets
<1>7. /\ new \in Database /\ new.content = Empty /\ new.admin = "none"
      /\ (provider["target"] = "sqlite" => new.mirror = new.version)
      /\ (new.version = 0 => new.mirror = 0)
  BY <1>2, <1>5, <1>6 DEF Database
<1>8. /\ db \in [Databases -> Database] /\ db["source"] = source /\ db["target"] = new
  BY <1>1, <1>4, <1>5, <1>7, BackupAssumption DEF Found
<1>9. \A d \in Databases : /\ provider[d] = "sqlite" => db[d].mirror = db[d].version \/ db[d].mirror = 0
                           /\ db[d].version = 0 => db[d].mirror = 0
  BY <1>1, <1>4, <1>7, <1>8, BackupAssumption DEF Found
<1>10. StartupTypes
  <2>1. Closed \in Opener
    BY StartupAssumption DEF Closed, Opener
  <2> QED
    BY <1>2, <1>8, <2>1 DEF Init, StartupTypes
<1>11. MirrorAgrees
  BY <1>9 DEF Init, MirrorAgrees
<1>12. \A p \in Procs : open[p].pc = "idle"
  BY DEF Init, Closed
<1>13. StartupInv
  <2>1. OpensInv
    BY <1>12 DEF OpensInv, OpenSound
  <2>2. FreshInv
    <3> SUFFICES ASSUME NEW d \in fresh PROVE FreshSound(d)
      BY DEF FreshInv
    <3>1. Opening(d) = {} /\ db[d].version = 0
      BY <1>12 DEF Opening, Init
    <3> QED
      BY <1>2, <3>1 DEF FreshSound
  <2> QED
    BY <1>10, <1>11, <2>1, <2>2 DEF StartupInv
<1>14. BackupTypes
  BY Kinds DEF Init, BackupTypes
<1>15. SourceInv
  BY <1>4, <1>8 DEF Init, SourceInv, Source
<1>16. MakingInv /\ ArchivesInv /\ TasksInv
  BY Kinds DEF Init, MakingInv, ArchivesInv, TasksInv, TaskSound
<1>17. TargetInv /\ ImportedOnce /\ MigrationVerdict
  BY <1>7, <1>8, EmptyContent DEF Init, TargetInv, ImportedOnce, MigrationVerdict
<1> QED
  BY <1>13, <1>14, <1>15, <1>16, <1>17 DEF BackupInv

-----------------------------------------------------------------------------
(* The inductive invariant holds throughout: what each opener has read,     *)
(* what each backup, archive, staged directory and operator's task stands   *)
(* for, and what is in the target.                                          *)
THEOREM BackupInvAlways == Spec => []BackupInv
<1>1. Init => BackupInv
  BY InitSound
<1>2. BackupInv /\ [Next]_vars => BackupInv'
  BY NextKeeps
<1> QED
  BY <1>1, <1>2, PTL DEF Spec

(* The types of the run's invariants follow from the rows. *)
LEMMA TypesHold ==
    ASSUME BackupInv
    PROVE  StartupTypeOK /\ TypeOK
<1>1. StartupTypes /\ BackupTypes
  BY DEF BackupInv, StartupInv
<1>2. ASSUME NEW d \in Databases
      PROVE  /\ db[d].version \in 0 .. Current /\ db[d].mirror \in 0 .. Current
             /\ db[d].policy \in Policies /\ db[d].admin \in Admins /\ db[d].content \in Content
  <2>1. db[d] \in Database
    BY <1>1, <1>2 DEF StartupTypes
  <2> QED
    BY <2>1 DEF Database
<1>3. StartupTypeOK
  BY <1>1, <1>2 DEF StartupTypes, Opener, StartupTypeOK
<1>4. making.pc \in {"idle", "snapshot", "export", "list", "publish"}
  BY <1>1 DEF BackupTypes, Making
<1>5. ASSUME NEW p \in Operators PROVE task[p].kind \in {"none", "restore", "logical", "migrate"}
  <2>1. task[p] \in Task
    BY <1>1, <1>5 DEF BackupTypes
  <2> QED
    BY <2>1 DEF Task
<1> QED
  BY <1>2, <1>3, <1>4, <1>5 DEF TypeOK

(* No crash, no race and no mixture of releases spoils the opening of a     *)
(* database: a new one that one opener set up starts closed, PostgreSQL     *)
(* refuses only releases older than the database, and a SQLite mirror       *)
(* agrees with the history (initialize, sqliteVersion, applyMigration).     *)
THEOREM StartupSoundAlways == Spec => []StartupSound
<1>1. ASSUME BackupInv PROVE StartupSound
  <2>1. StartupTypeOK /\ MirrorAgrees /\ FreshInv /\ OpensInv
    BY <1>1, TypesHold DEF BackupInv, StartupInv
  <2>2. NewStartsClosed
    BY <2>1 DEF FreshInv, FreshSound, NewStartsClosed
  <2>3. TogetherTheyStart
    BY <2>1 DEF OpensInv, OpenSound, TogetherTheyStart, At, Mine
  <2> QED
    BY <2>1, <2>2, <2>3 DEF StartupSound
<1> QED
  BY <1>1, BackupInvAlways, PTL

(* Every published archive holds the files of the live rows of its          *)
(* snapshot, and a directory restored from a snapshot is at the newest      *)
(* schema with administrators that can manage it, however the server wrote  *)
(* and deleted while the archive was made (backup.create, Restore).         *)
THEOREM ArchivesWholeAlways == Spec => []ArchivesWhole
<1>1. ASSUME BackupInv PROVE ArchivesWhole
  <2>1. TypeOK /\ ArchivesInv /\ TasksInv /\ directory \in Staging \cup {None}
    BY <1>1, TypesHold DEF BackupInv, BackupTypes
  <2>2. ArchiveHoldsFiles
    BY <2>1 DEF ArchivesInv, HoldsFile, ArchiveHoldsFiles
  <2>3. RestoredUsable
    <3> SUFFICES ASSUME directory # None
                 PROVE  /\ directory.db.version = Current
                        /\ directory.from = "snapshot" => directory.db.admin # "unroled"
                        /\ storage = "local" /\ directory.from = "snapshot" /\ directory.db.content.file = "live"
                              /\ ~directory.object => Source.file = "deleted"
      BY DEF RestoredUsable
    <3>1. StagingSound(directory) /\ directory.db # None
      BY <2>1, Kinds DEF TasksInv, Staging
    <3> QED
      BY <3>1 DEF StagingSound, HoldsFile
  <2> QED
    BY <2>1, <2>2, <2>3 DEF ArchivesWhole
<1> QED
  BY <1>1, BackupInvAlways, PTL

(* A deployment is imported into the target once, in whatever order         *)
(* restores and migrations checked it and committed: all but the first fail *)
(* on its rows.  Different deployments may be merged                        *)
(* (ValidateEmptyDestination before the transaction of Import, insertRows). *)
THEOREM ImportedOnceAlways == Spec => []ImportedOnce
<1>1. BackupInv => ImportedOnce
  BY DEF BackupInv
<1> QED
  BY <1>1, BackupInvAlways, PTL

(* Whatever a migration reports, its rows and administrators are in the     *)
(* target; a success means that nobody else's are, and a difference has one *)
(* of the named causes (Migrate's digest and its errors after the import).  *)
THEOREM MigrationVerdictAlways == Spec => []MigrationVerdict
<1>1. BackupInv => MigrationVerdict
  BY DEF BackupInv
<1> QED
  BY <1>1, BackupInvAlways, PTL
=============================================================================

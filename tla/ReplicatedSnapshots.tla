------------------------- MODULE ReplicatedSnapshots -------------------------
(***************************************************************************)
(* Snapshots of the replicated state machine (FSM.Snapshot, Persist and    *)
(* Restore in internal/replicated/fsm.go).  raft calls Snapshot on its     *)
(* apply goroutine, but Persist reads the database table by table on       *)
(* another one while entries go on being applied: a snapshot is fuzzy.     *)
(* raft restores the newest snapshot when a process starts and installs a  *)
(* leader's snapshot on a replica that lags behind the compacted log, and  *)
(* in both cases continues after the snapshot's last raft index.           *)
(***************************************************************************)
EXTENDS ReplicatedFSM

CONSTANT MaxSnapshots      \* bound on the snapshots taken

ASSUME SnapshotAssumption == MaxSnapshots \in Nat

VARIABLES
    snaps,     \* newest stored snapshot envelope of each replica, or None
    taking,    \* the Persist in progress on each replica, or None
    taken,     \* snapshots taken so far
    have       \* entries each replica has in its own raft log

svars == <<vars, snaps, taking, taken, have>>

SInit ==
    /\ Init
    /\ snaps  = [r \in Replicas |-> None]
    /\ taking = [r \in Replicas |-> None]
    /\ taken  = 0
    /\ have   = [r \in Replicas |-> 0]

-----------------------------------------------------------------------------
(* Taking a snapshot *)

(* The entries up to the newest snapshot are dropped from the raft log. *)
Compacted(r) == IF snaps[r] = None THEN 0 ELSE snaps[r].last

(* FSM.Snapshot copies the applied index and map; the tables are read later. *)
Snapshot(r) ==
    /\ taking[r] = None
    /\ mem[r].next > 0
    /\ mem[r].next > Compacted(r)
    /\ taken < MaxSnapshots
    /\ taken' = taken + 1
    /\ taking' = [taking EXCEPT ![r] =
         [phase |-> "names", names |-> {}, def |-> None,
          env |-> [last |-> mem[r].next, index |-> mem[r].index,
                   applied |-> mem[r].applied, colls |-> {}, rows |-> {},
                   events |-> {}, audit |-> {}, jobs |-> {}, hooks |-> {}]]]
    /\ UNCHANGED <<vars, snaps, have>>

In(r, phase) == taking[r] # None /\ taking[r].phase = phase
Cancel(r)    == taking' = [taking EXCEPT ![r] = None]

PersistNames(r) ==
    /\ In(r, "names")
    /\ taking' = [taking EXCEPT ![r].phase = "definition",
                                ![r].names = {c.name : c \in db[r].tables.colls}]
    /\ UNCHANGED <<vars, snaps, taken, have>>

(* The definition of the next collection; a name that is gone cancels. *)
PersistDefinition(r) ==
    /\ In(r, "definition")
    /\ \E name \in taking[r].names :
         LET now == Named(db[r].tables, name)
         IN  \/ /\ now = {}
                /\ Cancel(r)
             \/ \E c \in now :
                  taking' = [taking EXCEPT ![r].phase = "records",
                                           ![r].names = @ \ {name}, ![r].def = c]
    /\ UNCHANGED <<vars, snaps, taken, have>>

(* Its records, by the columns of that definition; a missing table or column *)
(* cancels.                                                                 *)
PersistRecords(r) ==
    LET def == taking[r].def
        now == WithId(db[r].tables, def.id)
        readable == \E c \in now : def.shape # "empty" => c.shape # "empty"
        read(w) == IF def.shape = "empty" THEN [w EXCEPT !.val = None] ELSE w
    IN  /\ In(r, "records")
        /\ \/ /\ ~readable
              /\ Cancel(r)
           \/ /\ readable
              /\ taking' = [taking EXCEPT ![r].phase = "definition", ![r].def = None,
                   ![r].env.colls = @ \cup {def},
                   ![r].env.rows = @ \cup {read(w) : w \in RowsOf(db[r].tables, def.id)}]
        /\ UNCHANGED <<vars, snaps, taken, have>>

PersistEvents(r) ==
    /\ In(r, "definition")
    /\ taking[r].names = {}
    /\ taking' = [taking EXCEPT ![r].phase = "audit",
                                ![r].env.events = db[r].tables.events]
    /\ UNCHANGED <<vars, snaps, taken, have>>

PersistAudit(r) ==
    /\ In(r, "audit")
    /\ taking' = [taking EXCEPT ![r].phase = "jobs",
                                ![r].env.audit = db[r].tables.audit]
    /\ UNCHANGED <<vars, snaps, taken, have>>

PersistJobs(r) ==
    /\ In(r, "jobs")
    /\ taking' = [taking EXCEPT ![r].phase = "hooks",
                                ![r].env.jobs = db[r].tables.jobs]
    /\ UNCHANGED <<vars, snaps, taken, have>>

(* Webhooks and functions, then the envelope is written and the sink closed. *)
PersistHooks(r) ==
    /\ In(r, "hooks")
    /\ snaps' = [snaps EXCEPT ![r] =
                   [taking[r].env EXCEPT !.hooks = db[r].tables.hooks]]
    /\ Cancel(r)
    /\ UNCHANGED <<vars, taken, have>>

Persist(r) ==
    \/ PersistNames(r)
    \/ PersistDefinition(r)
    \/ PersistRecords(r)
    \/ PersistEvents(r)
    \/ PersistAudit(r)
    \/ PersistJobs(r)
    \/ PersistHooks(r)

-----------------------------------------------------------------------------
(* Restoring one *)

(* Every collection and record is written through the appliers of the log;  *)
(* a record carries its version and no idempotency key.                     *)
RestoreDefinition(c, acc) ==
    IF acc.status = "ok" THEN applyCollection(acc.tables, c) ELSE acc

RestoreRecord(w, acc) ==
    IF acc.status = "ok"
    THEN putRecord(acc.tables, [coll |-> w.coll, rec |-> w.rec, ver |-> w.ver,
                                val |-> w.val, key |-> None])
    ELSE acc

RestoreTablesNoAudit(t, env) ==
    LET cleared == [t EXCEPT !.colls = {}, !.rows = {}, !.idem = {}]
        defined == FoldSet(RestoreDefinition, Ok(cleared), env.colls)
        filled  == FoldSet(RestoreRecord, defined, env.rows)
    IN  [status |-> filled.status,
         tables |-> [colls |-> filled.tables.colls, rows |-> filled.tables.rows,
                     idem |-> filled.tables.idem, events |-> env.events,
                     audit |-> t.audit, jobs |-> env.jobs, hooks |-> env.hooks]]

RestoreTables(t, env) ==
    LET cleared == [t EXCEPT !.colls = {}, !.rows = {}, !.idem = {}]
        defined == FoldSet(RestoreDefinition, Ok(cleared), env.colls)
        filled  == FoldSet(RestoreRecord, defined, env.rows)
    IN  [status |-> filled.status,
         tables |-> [colls |-> filled.tables.colls, rows |-> filled.tables.rows,
                     idem |-> filled.tables.idem, events |-> env.events,
                     audit |-> env.audit, jobs |-> env.jobs, hooks |-> env.hooks]]

(* A snapshot behind the durable index only seeds the memory of ids. *)
Seeded(m, env) ==
    [m EXCEPT !.applied = @ \cup {o \in env.applied : ~Known(m.applied, o.id)},
              !.next = env.last]

(* FSM.Restore on a replica with database d and memory m: either case, or   *)
(* an error that rolls the transaction back.                                *)
Behind(m, env) == env.index <= m.persisted

Restorable(m, d, env) == Behind(m, env) \/ RestoreTables(d.tables, env).status = "ok"

RestoredDb(m, d, env) ==
    IF Behind(m, env) THEN d
    ELSE [tables |-> RestoreTables(d.tables, env).tables, idx |-> env.index,
          ops |-> {o \in d.ops : ~Known(env.applied, o.id)} \cup env.applied]

RestoredMem(m, env) ==
    IF Behind(m, env) THEN Seeded(m, env)
    ELSE [next |-> env.last, applied |-> env.applied, index |-> env.index,
          persisted |-> env.index, failed |-> m.failed]

(* raft sends a snapshot for entries the replica lacks and the sender has    *)
(* compacted, stores it, and has the state machine restore it.              *)
InstallSnapshot(r, s) ==
    /\ snaps[s] # None
    /\ have[r] < snaps[s].last
    /\ Restorable(mem[r], db[r], snaps[s])
    /\ db'  = [db EXCEPT ![r] = RestoredDb(mem[r], @, snaps[s])]
    /\ mem' = [mem EXCEPT ![r] = RestoredMem(@, snaps[s])]
    /\ snaps' = [snaps EXCEPT ![r] = snaps[s]]
    /\ have' = [have EXCEPT ![r] = snaps[s].last]
    /\ UNCHANGED <<log, inflight, faults, canon, taking, taken>>

(* If it cannot, the replica stays where it was, with the snapshot stored.  *)
InstallFails(r, s) ==
    /\ snaps[s] # None
    /\ have[r] < snaps[s].last
    /\ ~Restorable(mem[r], db[r], snaps[s])
    /\ snaps' = [snaps EXCEPT ![r] = snaps[s]]
    /\ UNCHANGED <<vars, taking, taken, have>>

(* A crash, NewFSM and raft's start from its newest snapshot.  A node whose *)
(* snapshot cannot be restored does not start: like a fenced one it serves  *)
(* nothing.                                                                 *)
SRestart(r) ==
    LET boot == Boot(db[r])
        env  == snaps[r]
    IN  /\ \/ /\ env = None
              /\ mem' = [mem EXCEPT ![r] = boot]
              /\ UNCHANGED db
           \/ /\ env # None
              /\ Restorable(boot, db[r], env)
              /\ mem' = [mem EXCEPT ![r] = RestoredMem(boot, env)]
              /\ db'  = [db EXCEPT ![r] = RestoredDb(boot, @, env)]
           \/ /\ env # None
              /\ ~Restorable(boot, db[r], env)
              /\ mem' = [mem EXCEPT ![r] = [boot EXCEPT !.failed = TRUE]]
              /\ UNCHANGED db
        /\ Cancel(r)
        /\ UNCHANGED <<log, inflight, faults, canon, snaps, taken, have>>

(* raft appends the next committed entry to the replica's own log, from a   *)
(* replica that has not compacted it.                                       *)
Replicate(r) ==
    /\ have[r] < Len(log)
    /\ \E s \in Replicas \ {r} : Compacted(s) <= have[r]
    /\ have' = [have EXCEPT ![r] = @ + 1]
    /\ UNCHANGED <<vars, snaps, taking, taken>>

Logged ==
    \/ \E r \in Replicas, op \in Ops : Propose(r, op)
    \/ \E op \in inflight : Lose(op)
    \/ \E op \in inflight, at \in Times : Commit(op, at)
    \/ \E r \in Replicas : Apply(r)

SNext ==
    \/ /\ Logged
       /\ \A r \in Replicas : mem'[r].next <= have[r]
       /\ UNCHANGED <<snaps, taking, taken, have>>
    \/ \E r \in Replicas : Replicate(r)
    \/ \E r \in Replicas : Snapshot(r)
    \/ \E r \in Replicas : Persist(r)
    \/ \E r, s \in Replicas : InstallSnapshot(r, s)
    \/ \E r, s \in Replicas : InstallFails(r, s)
    \/ \E r \in Replicas : SRestart(r)

SSpec == SInit /\ [][SNext]_svars

-----------------------------------------------------------------------------
(* Correctness *)

(* The replica is healthy, has replayed past its durable index and holds     *)
(* the whole log.                                                           *)
UpToDate(r) == Past(r) /\ mem[r].next = Len(log)

(* A replica that was restored from a snapshot, fuzzy as it is, and has      *)
(* caught up holds the collections, records, events and audit facts the log  *)
(* defines (Persist, Restore, the dedup keys; the contract's "a restored or  *)
(* joining node reconstructs identical state").  A create, update or drop    *)
(* read into the snapshot too early is recognised or repeated harmlessly; a  *)
(* delete read too early is not, when a create was refused before it.        *)
RestoredConverges ==
    \A r \in Replicas : UpToDate(r) =>
        LET t == db[r].tables
            c == canon[Len(log)].tables
        IN  /\ t.colls = c.colls
            /\ t.rows = c.rows
            /\ t.events = c.events
            /\ t.audit = c.audit

(* An event sequence number means the same event on every replica at every   *)
(* moment, also on one that is catching up from a snapshot (emitEvent).      *)
CursorPortable ==
    \A r, s \in Replicas :
        \A e \in db[r].tables.events, f \in db[s].tables.events :
            e.seq = f.seq => e = f

(* No two rows of the table share a dedup key. *)
OnePerKey(table) == \A v, w \in table : v.key = w.key => v = w

(* Whatever positions of the log a snapshot mixes, and whatever is replayed   *)
(* over it, a replica's events and audit facts stay numbered without a gap    *)
(* and no record of an operation has two events, two facts or two jobs for    *)
(* one target (emitEvent, emitAudit, enqueueJobs, Restore).                  *)
ConsequencesOnce ==
    \A r \in Replicas :
        LET t == db[r].tables
        IN  /\ CursorDense(t)
            /\ {a.id : a \in t.audit} = 1..Cardinality(t.audit)
            /\ OnePerKey(t.events) /\ OnePerKey(t.audit) /\ OnePerKey(t.jobs)

-----------------------------------------------------------------------------
(* The inductive invariant behind ConsequencesOnce *)

(* The consequences that tables, or the envelope of a snapshot, carry. *)
Carries(u) ==
    /\ IsFiniteSet(u.events) /\ CursorDense(u) /\ OnePerKey(u.events)
    /\ IsFiniteSet(u.audit) /\ OnePerKey(u.audit)
    /\ {a.id : a \in u.audit} = 1..Cardinality(u.audit)
    /\ JobsInv(u) /\ OnePerKey(u.jobs)

EnvelopeInv(env) ==
    /\ DOMAIN env = {"last", "index", "applied", "colls", "rows", "events",
                     "audit", "jobs", "hooks"}
    /\ env.last \in Nat
    /\ Carries(env)

SnapshotInv ==
    /\ log \in Seq([op : Ops, at : Times])
    /\ inflight \subseteq Ops
    /\ DOMAIN db = Replicas /\ DOMAIN mem = Replicas
    /\ DOMAIN taking = Replicas /\ DOMAIN snaps = Replicas
    /\ \A r \in Replicas :
         /\ DOMAIN db[r] = {"tables", "idx", "ops"}
         /\ DOMAIN db[r].tables = DOMAIN EmptyTables
         /\ Carries(db[r].tables)
         /\ DOMAIN mem[r] = {"next", "applied", "index", "persisted", "failed"}
         /\ mem[r].next \in Nat
         /\ snaps[r] # None => EnvelopeInv(snaps[r])
         /\ taking[r] # None =>
               /\ DOMAIN taking[r] = {"phase", "names", "def", "env"}
               /\ EnvelopeInv(taking[r].env)

=============================================================================

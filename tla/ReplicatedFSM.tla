---------------------------- MODULE ReplicatedFSM ----------------------------
(***************************************************************************)
(* The replicated state machine of a Trestle cluster                       *)
(* (internal/replicated/fsm.go, controller.go): every replica applies the  *)
(* committed raft log to its own SQLite database, one transaction per      *)
(* entry, and may crash and replay the whole log at any time.  Raft itself *)
(* (gantry-core, hashicorp/raft) is external: it is the totally ordered    *)
(* log of committed entries that it hands to FSM.Apply.                    *)
(*                                                                         *)
(* Request handlers on any replica check their own, possibly lagging,      *)
(* tables before they propose; between the check and the commit other      *)
(* operations may commit.                                                  *)
(***************************************************************************)
EXTENDS ConsensusTables

CONSTANTS Replicas,    \* the voters of the cluster
          Ops,         \* operations the callers may ask for
          ClientIds,   \* operation ids derived from a caller's Idempotency-Key
          Times,       \* committed timestamps a leader's clock may stamp
          MaxLog,      \* bound on the length of the log
          MaxInflight, \* bound on concurrent proposals
          MaxFaults    \* bound on database errors during an apply

ASSUME FSMAssumption ==
    MaxLog \in Nat /\ MaxFaults \in Nat /\ MaxInflight \in Nat

(* The callers of Propose: every operation is of a kind materialize knows,   *)
(* and only creates are batched (batchCreate sends version 1).              *)
ASSUME OpsAssumption ==
    \A o \in Ops :
        /\ o.kind \in OpKinds
        /\ o.kind = "record.put" =>
             /\ o.puts \in Seq({o.puts[i] : i \in DOMAIN o.puts})
             /\ Len(o.puts) > 1 => \A i \in 1..Len(o.puts) : o.puts[i].ver = 1

VARIABLES
    log,        \* committed entries, [op, at]
    inflight,   \* operations proposed and not yet committed
    db,         \* durable: [tables, idx, ops], idx and ops in the meta table
    mem,        \* volatile FSM: [next, applied, index, persisted, failed]
    faults,     \* database errors so far
    canon       \* auxiliary: the state the log defines, per log position

vars == <<log, inflight, db, mem, faults, canon>>

(* applied holds the operation itself where the code holds its digest: two *)
(* operations have the same digest iff they are the same operation.        *)
Known(ops, id) == \E o \in ops : o.id = id

BootNoIndex(d) == [next |-> 0, applied |-> d.ops, index |-> d.idx,
                   persisted |-> 0, failed |-> FALSE]

Boot(d) == [next |-> 0, applied |-> d.ops, index |-> d.idx,
            persisted |-> d.idx, failed |-> FALSE]

EmptyDb == [tables |-> EmptyTables, idx |-> 0, ops |-> {}]

(***************************************************************************)
(* canon[i] is the state after the first i entries for a replica that      *)
(* never restarts and whose database never fails: what the log means.      *)
(***************************************************************************)
CanonStep(c, e) ==
    LET res == materialize(c.tables, e.op, e.at)
    IN  IF c.dead \/ Known(c.ops, e.op.id) \/ res.status = "conflict" THEN c
        ELSE IF res.status = "ok"
        THEN [tables |-> res.tables, ops |-> c.ops \cup {e.op}, dead |-> FALSE]
        ELSE [tables |-> c.tables, ops |-> c.ops, dead |-> TRUE]

Init ==
    /\ log = <<>>
    /\ inflight = {}
    /\ db = [r \in Replicas |-> EmptyDb]
    /\ mem = [r \in Replicas |-> Boot(EmptyDb)]
    /\ faults = 0
    /\ canon = [i \in {0} |-> [tables |-> EmptyTables, ops |-> {}, dead |-> FALSE]]

-----------------------------------------------------------------------------
(* Proposals *)

Proposed == inflight \cup {log[i].op : i \in 1..Len(log)}

(* The checks a handler makes against the local tables before it proposes. *)
AdmitCollection(t, def) ==
    \/ /\ Named(t, def.name) = {}                  \* create, a new random id
       /\ \A o \in Proposed : o.kind = "collection.put" => o.def.id # def.id
    \/ /\ WithId(t, def.id) # {}                   \* update or rename
       /\ \A c \in Named(t, def.name) : c.id = def.id

(* A keyed create is replayed from the idempotency row instead; an update   *)
(* fetches the record first.                                               *)
AdmitPut(t, p) ==
    /\ WithId(t, p.coll) # {}
    /\ IF p.ver = 1
       THEN \A i \in t.idem : i.coll = p.coll /\ i.key = p.key
                                => RowAt(t, p.coll, i.rec) = {}
       ELSE RowAt(t, p.coll, p.rec) # {}

(* A definition is created under a new id; enable and disable read it first. *)
(* Nothing calls DeleteWebhook yet: its caller is taken to know the id.      *)
AdmitHook(t, op) ==
    \/ \E h \in t.hooks : h.id = op.target
    \/ /\ op.kind = "hook.put"
       /\ \A o \in Proposed : o.kind = "hook.put" => o.target # op.target

Admits(r, op) ==
    LET t == db[r].tables
    IN  CASE op.kind = "collection.put" -> AdmitCollection(t, op.def)
          [] op.kind = "record.put" ->
                \A i \in 1..Len(op.puts) : AdmitPut(t, op.puts[i])
          [] op.kind = "record.delete" -> WithId(t, op.put.coll) # {}
          [] op.kind \in {"hook.put", "hook.delete"} -> AdmitHook(t, op)
          [] op.kind = "job.release" -> \E j \in t.jobs : j.status = "running"
          [] op.kind \in {"job.cancel", "job.retry"} ->
                JobAt(t, op.job) # {}           \* a job the console lists
          [] op.kind = "job.claim" ->
                \E j \in JobAt(t, op.job) : j.status = "pending"
          [] op.kind = "job.complete" ->
                \* the worker's ClaimJob returned, and it completes once
                /\ Known(db[r].ops, op.claim)
                /\ \A o \in Proposed : o.kind = "job.complete" => o.claim # op.claim
          [] OTHER -> TRUE

(* Controller.Propose: a node- and process-scoped id is new, one derived    *)
(* from a caller's key is whatever the caller sent.                        *)
Propose(r, op) ==
    /\ ~mem[r].failed
    /\ op.id \in ClientIds \/ ~Known(Proposed, op.id)
    /\ Admits(r, op)
    /\ Cardinality(inflight) < MaxInflight
    /\ inflight' = inflight \cup {op}
    /\ UNCHANGED <<log, db, mem, faults, canon>>

(* The proposal is lost before it commits; the caller sees an error. *)
Lose(op) ==
    /\ inflight' = inflight \ {op}
    /\ UNCHANGED <<log, db, mem, faults, canon>>

(* Raft commits a proposal; the leader stamps it with its own clock. *)
Commit(op, at) ==
    LET e == [op |-> op, at |-> at]
    IN  /\ Len(log) < MaxLog
        /\ inflight' = inflight \ {op}
        /\ log' = Append(log, e)
        /\ canon' = [i \in 0..(Len(log) + 1) |->
                       IF i <= Len(log) THEN canon[i]
                       ELSE CanonStep(canon[Len(log)], e)]
        /\ UNCHANGED <<db, mem, faults>>

-----------------------------------------------------------------------------
(* FSM.Apply of the next committed entry, one action per return *)

HasNext(r) == mem[r].next < Len(log)
Index(r)   == mem[r].next + 1
Entry(r)   == log[Index(r)]

Fresh(r) == /\ ~mem[r].failed
            /\ ~Known(mem[r].applied, Entry(r).op.id)

ResultLocalClock(r) == materialize(db[r].tables, Entry(r).op, Entry(r).at + mem[r].next)

Result(r) == materialize(db[r].tables, Entry(r).op, Entry(r).at)

(* Raft counts the entry as applied whatever FSM.Apply returned. *)
Skip(r) == mem' = [mem EXCEPT ![r].next = Index(r)]

(* The replica is fenced: the failure is returned for every later entry. *)
ApplyFenced(r) ==
    /\ HasNext(r)
    /\ mem[r].failed
    /\ Skip(r)
    /\ UNCHANGED <<log, inflight, db, faults, canon>>

(* "operation id reused with different payload" *)
ApplyReused(r) ==
    /\ HasNext(r)
    /\ ~mem[r].failed
    /\ Known(mem[r].applied, Entry(r).op.id)
    /\ Entry(r).op \notin mem[r].applied
    /\ Skip(r)
    /\ UNCHANGED <<log, inflight, db, faults, canon>>

(* Durable dedup.  The errors of the two meta writes are ignored. *)
ApplyDuplicate(r) ==
    /\ HasNext(r)
    /\ ~mem[r].failed
    /\ Entry(r).op \in mem[r].applied
    /\ mem' = [mem EXCEPT ![r].next = Index(r), ![r].index = Index(r)]
    /\ \/ /\ Index(r) > mem[r].persisted
          /\ db' = [db EXCEPT ![r].idx = Index(r)]
          /\ UNCHANGED faults
       \/ /\ Index(r) <= mem[r].persisted
          /\ UNCHANGED <<db, faults>>
       \/ /\ Index(r) > mem[r].persisted
          /\ faults < MaxFaults
          /\ faults' = faults + 1
          /\ UNCHANGED db
    /\ UNCHANGED <<log, inflight, canon>>

(* Replay at or below the durable index: only the id is remembered. *)
ApplyReplay(r) ==
    /\ HasNext(r)
    /\ Fresh(r)
    /\ Index(r) <= mem[r].persisted
    /\ mem' = [mem EXCEPT ![r].next = Index(r), ![r].index = Index(r),
                          ![r].applied = @ \cup {Entry(r).op}]
    /\ UNCHANGED <<log, inflight, db, faults, canon>>

(* The transaction commits: product rows, consequences, index and digest. *)
MaterializedIndexAhead(r) ==
    [tables |-> Result(r).tables, idx |-> Index(r) + 1, ops |-> db[r].ops \cup {Entry(r).op}]
MaterializedNoIndex(r) ==
    [tables |-> Result(r).tables, idx |-> db[r].idx, ops |-> db[r].ops \cup {Entry(r).op}]

Materialized(r) ==
    [tables |-> Result(r).tables, idx |-> Index(r), ops |-> db[r].ops \cup {Entry(r).op}]

ApplyMaterialize(r) ==
    /\ HasNext(r)
    /\ Fresh(r)
    /\ Index(r) > mem[r].persisted
    /\ Result(r).status = "ok"
    /\ db' = [db EXCEPT ![r] = Materialized(r)]
    /\ mem' = [mem EXCEPT ![r].next = Index(r), ![r].index = Index(r),
                          ![r].applied = @ \cup {Entry(r).op}]
    /\ UNCHANGED <<log, inflight, faults, canon>>

(* A semantic conflict is returned to the caller and leaves no trace. *)
ApplyConflict(r) ==
    /\ HasNext(r)
    /\ Fresh(r)
    /\ Index(r) > mem[r].persisted
    /\ Result(r).status = "conflict"
    /\ Skip(r)
    /\ UNCHANGED <<log, inflight, db, faults, canon>>

(* Any other error of the transaction fences the replica. *)
ApplyFatal(r) ==
    /\ HasNext(r)
    /\ Fresh(r)
    /\ Index(r) > mem[r].persisted
    /\ Result(r).status = "fatal"
    /\ mem' = [mem EXCEPT ![r].next = Index(r), ![r].failed = TRUE]
    /\ UNCHANGED <<log, inflight, db, faults, canon>>

(* So does a database error (BeginTx, a statement, Commit). *)
ApplyError(r) ==
    /\ HasNext(r)
    /\ Fresh(r)
    /\ Index(r) > mem[r].persisted
    /\ faults < MaxFaults
    /\ faults' = faults + 1
    /\ mem' = [mem EXCEPT ![r].next = Index(r), ![r].failed = TRUE]
    /\ UNCHANGED <<log, inflight, db, canon>>

Apply(r) ==
    \/ ApplyFenced(r)
    \/ ApplyReused(r)
    \/ ApplyDuplicate(r)
    \/ ApplyReplay(r)
    \/ ApplyMaterialize(r)
    \/ ApplyConflict(r)
    \/ ApplyFatal(r)
    \/ ApplyError(r)

(* A crash and NewFSM: the memory is rebuilt from the meta table and raft   *)
(* replays the log from its first entry.                                   *)
Restart(r) ==
    /\ mem' = [mem EXCEPT ![r] = Boot(db[r])]
    /\ UNCHANGED <<log, inflight, db, faults, canon>>

Next ==
    \/ \E r \in Replicas, op \in Ops : Propose(r, op)
    \/ \E op \in inflight : Lose(op)
    \/ \E op \in inflight, at \in Times : Commit(op, at)
    \/ \E r \in Replicas : Apply(r)
    \/ \E r \in Replicas : Restart(r)

Spec == Init /\ [][Next]_vars

-----------------------------------------------------------------------------
(* Correctness *)

(* Types of the protocol state; the contents of the tables are opaque.      *)
TypeOK ==
    /\ log \in Seq([op : Ops, at : Times])
    /\ inflight \subseteq Ops
    /\ DOMAIN db = Replicas
    /\ \A r \in Replicas :
         /\ DOMAIN db[r] = {"tables", "idx", "ops"}
         /\ db[r].idx \in 0..Len(log)
         /\ db[r].ops \subseteq Ops
    /\ mem \in [Replicas -> [next : 0..Len(log), applied : SUBSET Ops,
                             index : 0..Len(log), persisted : 0..Len(log),
                             failed : BOOLEAN]]
    /\ faults \in 0..MaxFaults
    /\ DOMAIN canon = 0..Len(log)

(* No operation id is committed again after an entry with that id was      *)
(* rejected.  Ids made by the controller satisfy it, ids derived from a     *)
(* caller's Idempotency-Key need not.                                      *)
NoReuseAfterReject ==
    \A i, j \in 1..Len(log) :
        i < j /\ log[i].op.id = log[j].op.id => Known(canon[i].ops, log[i].op.id)

(* What is on disk is exactly the state the log defines at the durable      *)
(* index, whatever crashes, replays and database errors came before: the    *)
(* "or not at all" of the apply transaction (FSM, NewFSM).                 *)
DurablePrefix ==
    NoReuseAfterReject =>
        \A r \in Replicas :
            /\ db[r].tables = canon[db[r].idx].tables
            /\ db[r].ops = canon[db[r].idx].ops

(* A replica that is not fenced and has replayed past its durable index     *)
(* serves the state the log defines at its raft position (FSM.Apply).       *)
Past(r) == ~mem[r].failed /\ mem[r].next >= mem[r].persisted

CaughtUp ==
    NoReuseAfterReject =>
        \A r \in Replicas : Past(r) =>
            /\ db[r].tables = canon[mem[r].next].tables
            /\ ~canon[mem[r].next].dead

(* Two healthy replicas at the same raft position hold the same tables,     *)
(* with no condition on the operation ids.                                 *)
Agreement ==
    \A r, s \in Replicas :
        Past(r) /\ Past(s) /\ mem[r].next = mem[s].next
            => db[r].tables = db[s].tables

RecordKeys(op) ==
    CASE op.kind = "record.put"    -> {<<op.id, i>> : i \in 1..Len(op.puts)}
      [] op.kind = "record.delete" -> {<<op.id, 1>>}
      [] OTHER -> {}

KeysOf(ops)  == UNION {RecordKeys(o) : o \in ops}
FactsOf(ops) == KeysOf({o \in ops : o.kind = "record.put"})

(* The events, audit facts and jobs of t are those of these dedup keys. *)
ConsequencesOf(t, keys, facts) ==
    /\ {e.key : e \in t.events} = keys
    /\ Cardinality(t.events) = Cardinality(keys)
    /\ {a.key : a \in t.audit} = facts
    /\ \A j \in t.jobs : j.key[1] \in keys

(* The durable consequences of a record operation exist iff the operation   *)
(* is durably applied: one event per record of a batch, one audit fact per  *)
(* put, none for a delete, and no job obligation of another operation       *)
(* (applyRecordPut, applyRecordDelete inside the materialize transaction).  *)
ConsequencesMatchOps ==
    \A r \in Replicas :
        ConsequencesOf(db[r].tables, KeysOf(db[r].ops), FactsOf(db[r].ops))

(* The targets that are owed the delivery of event e. *)
Owed(t, e) == {j.target : j \in {i \in t.jobs : i.key[1] = e.key}}

BatchOwed(t) ==
    \A e, f \in t.events :
        e.key[1] = f.key[1] /\ e.topic = f.topic => Owed(t, e) = Owed(t, f)

(* The records of one batch owe a delivery to the same targets: no record's  *)
(* obligation is taken for that of its neighbour (enqueueJobs and the        *)
(* ordinal in the job's idempotency key).                                   *)
BatchObligations == \A r \in Replicas : BatchOwed(db[r].tables)

CursorDense(t) == {e.seq : e \in t.events} = 1..Cardinality(t.events)

(* The event cursor has no gap and no duplicate on any replica, so an SSE   *)
(* Last-Event-ID from one node continues on another (emitEvent).           *)
EventCursor ==
    \A r \in Replicas :
        /\ CursorDense(db[r].tables)
        /\ NoReuseAfterReject =>
             \A s \in Replicas : db[r].idx <= db[s].idx
                => db[r].tables.events \subseteq db[s].tables.events

KeysLive(t) ==
    \A i \in t.idem :
        /\ RowAt(t, i.coll, i.rec) # {}
        /\ WithId(t, i.coll) # {}
        /\ \A k \in t.idem : k.coll = i.coll /\ k.key = i.key => k = i

(* An idempotency row always points at a live record of a live collection,  *)
(* so a keyed create can be replayed (putRecord, deleteRecord and the       *)
(* cascade of deleteCollection).                                           *)
IdempotencyRowsLive == \A r \in Replicas : KeysLive(db[r].tables)

Version(t, coll, rec) ==
    IF RowAt(t, coll, rec) = {} THEN 0
    ELSE (CHOOSE w \in RowAt(t, coll, rec) : TRUE).ver

(* A record of a replica is created at version 1, moves up by exactly one   *)
(* per update and otherwise disappears; a replay never moves it (putRecord, *)
(* FSM.Apply).                                                             *)
VersionStep ==
    [][\A r \in Replicas :
         \A w \in db[r].tables.rows \cup db'[r].tables.rows :
            LET old == Version(db[r].tables, w.coll, w.rec)
                new == Version(db'[r].tables, w.coll, w.rec)
            IN  new \in {0, old} \/ (new = old + 1 /\ mem[r].next >= db[r].idx)]_vars

(* A job obligation is never lost on any replica: not by a replay, not by    *)
(* the deletion of its record, its collection or its webhook, and not by a   *)
(* cancel (the contract's "the durable obligation is never lost").          *)
ObligationsKept ==
    [][\A r \in Replicas :
         \A j \in db[r].tables.jobs : JobAt(db'[r].tables, j.key) # {}]_vars

-----------------------------------------------------------------------------
(* The inductive invariant behind DurablePrefix and CaughtUp *)

(* canon is what CanonStep computes from the log; the operations it has     *)
(* applied only grow and all come from the log, and a dead state is final.  *)
CanonInv ==
    /\ canon[0] = [tables |-> EmptyTables, ops |-> {}, dead |-> FALSE]
    /\ \A i \in 1..Len(log) : canon[i] = CanonStep(canon[i - 1], log[i])
    /\ \A i, j \in 0..Len(log) : i <= j => canon[i].ops \subseteq canon[j].ops

(* Where a replica's two indices stand, and what it remembers: everything   *)
(* durably applied, and besides only operations replayed at or below the    *)
(* index it booted with.                                                   *)
MemoryInv(r) ==
    /\ mem[r].persisted <= db[r].idx
    /\ mem[r].next < mem[r].persisted => db[r].idx = mem[r].persisted
    /\ mem[r].next >= mem[r].persisted => db[r].idx <= mem[r].next
    /\ db[r].ops \subseteq mem[r].applied
    /\ \A o \in mem[r].applied \ db[r].ops :
          \E i \in 1..Len(log) :
              i <= mem[r].next /\ i <= mem[r].persisted /\ log[i].op = o

(* The durable state is canonical at the durable index, and at the raft     *)
(* position too once a healthy replica is past its boot index.             *)
CanonicalAt(r, i) ==
    /\ db[r].tables = canon[i].tables
    /\ db[r].ops = canon[i].ops
    /\ ~canon[i].dead

ReplicaInv(r) ==
    /\ CanonicalAt(r, db[r].idx)
    /\ Past(r) => CanonicalAt(r, mem[r].next)

(* What FSM.Apply maintains: DurablePrefix and CaughtUp, strengthened. *)
IndInv ==
    /\ TypeOK
    /\ CanonInv
    /\ \A r \in Replicas : MemoryInv(r)
    /\ NoReuseAfterReject => \A r \in Replicas : ReplicaInv(r)

-----------------------------------------------------------------------------
(* The inductive invariant behind the tables: what materialize keeps *)

(* A live collection has one row per record, at a version of at least 1. *)
RowsInv(t) ==
    /\ \A w \in t.rows :
          /\ w = [coll |-> w.coll, rec |-> w.rec, ver |-> w.ver, val |-> w.val]
          /\ w.ver \in Nat \ {0}
          /\ WithId(t, w.coll) # {}
    /\ \A v, w \in t.rows : v.coll = w.coll /\ v.rec = w.rec => v = w

JobsInv(t) ==
    \A j \in t.jobs : DOMAIN j = {"key", "target", "status", "attempts", "avail", "lease"}

(* Tables whose consequences are those of the record keys and facts given. *)
TablesOf(t, keys, facts) ==
    /\ DOMAIN t = DOMAIN EmptyTables
    /\ RowsInv(t)
    /\ KeysLive(t)
    /\ IsFiniteSet(t.events)
    /\ CursorDense(t)
    /\ ConsequencesOf(t, keys, facts)
    /\ JobsInv(t)

TablesInv(t, ops) == TablesOf(t, KeysOf(ops), FactsOf(ops)) /\ BatchOwed(t)

(* Every replica's tables and every canonical state fit the operations they  *)
(* record, and the events of the log only grow.                             *)
LedgerInv ==
    /\ \A r \in Replicas : TablesInv(db[r].tables, db[r].ops)
    /\ \A i \in 0..Len(log) : TablesInv(canon[i].tables, canon[i].ops)
    /\ \A i, j \in 0..Len(log) :
          i <= j => canon[i].tables.events \subseteq canon[j].tables.events

=============================================================================

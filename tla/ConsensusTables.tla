--------------------------- MODULE ConsensusTables ---------------------------
(***************************************************************************)
(* The consensus-owned tables of one replica and what one committed        *)
(* operation does to them: FSM.materialize and the appliers it calls       *)
(* (internal/replicated/fsm.go).  Everything here is a pure function of    *)
(* the tables, the operation and the committed timestamp; the replicas     *)
(* that call it are in ReplicatedFSM.                                      *)
(*                                                                         *)
(* A table is a set of rows.  A transaction either commits the tables it   *)
(* computed ("ok"), is rolled back and reported to the caller as a         *)
(* semantic conflict ("conflict"), or is rolled back with any other error  *)
(* ("fatal"), which fences the replica.                                    *)
(***************************************************************************)
EXTENDS Integers, FiniteSets, Sequences, FiniteSetsExt

CONSTANTS MaxAttempts,   \* max_attempts column default of _trestle_jobs
          LeaseTime,     \* the 30 s lease of a claimed job, in clock units
          None           \* SQL NULL

ASSUME TablesAssumption ==
    /\ MaxAttempts \in Nat \ {0}
    /\ LeaseTime \in Nat \ {0}

Topics == {"record.created", "record.updated", "record.deleted"}

(* What the schema of a collection means to an insert: no field at all, an *)
(* ordinary field, or a UNIQUE field.                                      *)
Shapes == {"empty", "plain", "unique"}

JobStatus == {"pending", "running", "succeeded", "dead", "cancelled"}

EmptyTables ==
    [colls  |-> {},   \* [id, name, shape]
     rows   |-> {},   \* [coll, rec, ver, val], the physical record tables
     idem   |-> {},   \* [coll, key, rec]
     events |-> {},   \* [seq, topic, coll, rec, key]
     audit  |-> {},   \* [id, rec, key]
     jobs   |-> {},   \* [key, target, status, attempts, avail, lease]
     hooks  |-> {}]   \* [id, topics], enabled webhooks and functions

Ok(t)       == [status |-> "ok", tables |-> t]
Conflict(t) == [status |-> "conflict", tables |-> t]
Fatal(t)    == [status |-> "fatal", tables |-> t]

-----------------------------------------------------------------------------
(* Collections *)

Named(t, name)    == {c \in t.colls : c.name = name}
WithId(t, id)     == {c \in t.colls : c.id = id}
RowsOf(t, coll)   == {w \in t.rows : w.coll = coll}
RowAt(t, coll, rec) == {w \in t.rows : w.coll = coll /\ w.rec = rec}

(* Two rows of the collection share a non-NULL value of its field. *)
HasDuplicates(t, coll) ==
    \E v, w \in RowsOf(t, coll) : v # w /\ v.val = w.val /\ v.val # None

(* RebuildPhysicalTx copies the compatible columns into a new table: a     *)
(* dropped field loses its values, a new UNIQUE constraint over duplicate  *)
(* values makes the copy fail.                                             *)
RebuildPhysicalTx(t, def) ==
    IF def.shape = "unique" /\ HasDuplicates(t, def.id)
    THEN Fatal(t)
    ELSE Ok([t EXCEPT !.rows =
               {IF w.coll = def.id /\ def.shape = "empty"
                THEN [w EXCEPT !.val = None] ELSE w : w \in @}])

applyCollection(t, def) ==
    LET same == Named(t, def.name)
    IN  CASE same = {} /\ WithId(t, def.id) # {} -> Fatal(t) \* PRIMARY KEY
          [] same = {} /\ WithId(t, def.id) = {} ->
                Ok([t EXCEPT !.colls = @ \cup {def}])
          [] \E c \in same : c.id # def.id -> Conflict(t)
          [] OTHER ->
                RebuildPhysicalTx([t EXCEPT !.colls = (@ \ same) \cup {def}], def)

deleteCollectionNoCascade(t, name) ==
    LET gone == {c.id : c \in Named(t, name)}
    IN  Ok([t EXCEPT !.colls = {c \in @ : c.id \notin gone},
                     !.rows  = {w \in @ : w.coll \notin gone}])

(* DROP TABLE and DELETE; the foreign keys of the idempotency rows cascade. *)
deleteCollection(t, name) ==
    LET gone == {c.id : c \in Named(t, name)}
    IN  Ok([t EXCEPT !.colls = {c \in @ : c.id \notin gone},
                     !.rows  = {w \in @ : w.coll \notin gone},
                     !.idem  = {i \in @ : i.coll \notin gone}])

-----------------------------------------------------------------------------
(* Records *)

(* The INSERT or UPDATE of row w violates the UNIQUE field of its collection. *)
ViolatesUnique(t, w) ==
    /\ \E c \in WithId(t, w.coll) : c.shape = "unique"
    /\ w.val # None
    /\ \E v \in RowsOf(t, w.coll) : v.rec # w.rec /\ v.val = w.val

KeyTaken(t, p) == \E i \in t.idem : i.coll = p.coll /\ i.key = p.key

(* A create is version 1, an update one more than the row it replaces. *)
VersionConflictOnUpdate(old, p) == \E w \in old : p.ver # w.ver + 1

VersionConflict(old, p) ==
    \/ old = {} /\ p.ver # 1
    \/ \E w \in old : p.ver # w.ver + 1

(* A payload p is [coll, rec, ver, val, key]; key is None without an        *)
(* Idempotency-Key.                                                        *)
putRecord(t, p) ==
    LET old == RowAt(t, p.coll, p.rec)
        new == [coll |-> p.coll, rec |-> p.rec, ver |-> p.ver, val |-> p.val]
    IN  CASE \A c \in WithId(t, p.coll) : c.shape = "empty" -> Fatal(t)
          [] VersionConflict(old, p) -> Conflict(t)
          [] ViolatesUnique(t, new) -> Fatal(t)
          [] old = {} /\ p.key # None /\ KeyTaken(t, p) -> Conflict(t)
          [] OTHER ->
               Ok([t EXCEPT !.rows = (@ \ old) \cup {new},
                            !.idem = IF old = {} /\ p.key # None
                                     THEN @ \cup {[coll |-> p.coll, key |-> p.key,
                                                   rec |-> p.rec]}
                                     ELSE @])

(* The idempotency rows left when the record of p is deleted. *)
KeysAfter(t, p) == {i \in t.idem : i.coll # p.coll \/ i.rec # p.rec}

deleteRecord(t, p) ==
    LET old == RowAt(t, p.coll, p.rec)
    IN  CASE WithId(t, p.coll) = {} -> Fatal(t)   \* no such physical table
          [] \E w \in old : w.ver # p.ver -> Conflict(t)
          [] old = {} -> Ok(t)
          [] OTHER -> Ok([t EXCEPT !.rows = @ \ old, !.idem = KeysAfter(t, p)])

-----------------------------------------------------------------------------
(* Durable consequences: event, audit fact and matched job obligations *)

NextSeqRepeats(used) == IF used = {} THEN 1 ELSE Max(used)

NextSeq(used) == IF used = {} THEN 1 ELSE Max(used) + 1

(* INSERT ... ON CONFLICT(dedup_key) DO NOTHING *)
InsertOnce(table, row) ==
    IF \E x \in table : x.key = row.key THEN table ELSE table \cup {row}

emitEventAgain(t, topic, name, rec, key) ==
    [t EXCEPT !.events = @ \cup {
        [seq |-> NextSeq({e.seq : e \in @}), topic |-> topic,
         coll |-> name, rec |-> rec, key |-> key]}]

emitEvent(t, topic, name, rec, key) ==
    [t EXCEPT !.events = InsertOnce(@,
        [seq |-> NextSeq({e.seq : e \in @}), topic |-> topic,
         coll |-> name, rec |-> rec, key |-> key])]

emitAuditAgain(t, rec, key) ==
    [t EXCEPT !.audit = @ \cup {
        [id |-> NextSeq({a.id : a \in @}), rec |-> rec, key |-> key]}]

emitAudit(t, rec, key) ==
    [t EXCEPT !.audit = InsertOnce(@,
        [id |-> NextSeq({a.id : a \in @}), rec |-> rec, key |-> key])]

(* One pending obligation per enabled definition whose topics match. *)
enqueueJobsPerOperation(t, topic, key, occurred) ==
    LET job(h) == [key |-> <<key, h.id>>, target |-> h.id, status |-> "pending",
                   attempts |-> 0, avail |-> occurred, lease |-> None]
        fresh == {h \in t.hooks :
                    /\ topic \in h.topics
                    /\ \A j \in t.jobs : j.key[1][1] # key[1] \/ j.target # h.id}
    IN  [t EXCEPT !.jobs = @ \cup {job(h) : h \in fresh}]

enqueueJobs(t, topic, key, occurred) ==
    LET job(h) == [key |-> <<key, h.id>>, target |-> h.id, status |-> "pending",
                   attempts |-> 0, avail |-> occurred, lease |-> None]
        fresh == {h \in t.hooks :
                    /\ topic \in h.topics
                    /\ \A j \in t.jobs : j.key # <<key, h.id>>}
    IN  [t EXCEPT !.jobs = @ \cup {job(h) : h \in fresh}]

emitRecordConsequences(t, topic, p, key, occurred) ==
    LET name    == (CHOOSE c \in WithId(t, p.coll) : TRUE).name
        evented == emitEvent(t, topic, name, p.rec, key)
        audited == IF topic = "record.deleted" THEN evented
                   ELSE emitAudit(evented, p.rec, key)
    IN  enqueueJobs(audited, topic, key, occurred)

PutTopic(p) == IF p.ver = 1 THEN "record.created" ELSE "record.updated"

(* A single put is the batch of one; the ordinal is part of every dedup key. *)
applyRecordPut(t, p, key, occurred) ==
    LET put == putRecord(t, p)
    IN  IF put.status = "ok"
        THEN Ok(emitRecordConsequences(put.tables, PutTopic(p), p, key, occurred))
        ELSE put

(* The batch is one transaction: after an error nothing of it is left. *)
applyRecordBatchPrefix(t, op) ==
    LET done[i \in 0..Len(op.puts)] ==
          IF i = 0 THEN t
          ELSE LET put == applyRecordPut(done[i - 1], op.puts[i],
                                         <<op.id, i>>, op.occurred)
               IN  IF put.status = "ok" THEN put.tables ELSE done[i - 1]
    IN  Ok(done[Len(op.puts)])

applyRecordBatch(t, op) ==
    LET done[i \in 0..Len(op.puts)] ==
          IF i = 0 THEN Ok(t)
          ELSE IF done[i - 1].status = "ok"
               THEN applyRecordPut(done[i - 1].tables, op.puts[i],
                                   <<op.id, i>>, op.occurred)
               ELSE done[i - 1]
        last == done[Len(op.puts)]
    IN  [last EXCEPT !.tables = IF last.status = "ok" THEN @ ELSE t]

applyRecordDelete(t, op) ==
    LET del == deleteRecord(t, op.put)
    IN  IF del.status = "ok"
        THEN Ok(emitRecordConsequences(del.tables, "record.deleted", op.put,
                                       <<op.id, 1>>, op.occurred))
        ELSE del

-----------------------------------------------------------------------------
(* Automation definitions.  A disabled definition matches no topic. *)

applyHookPut(t, op) ==
    Ok([t EXCEPT !.hooks = {h \in @ : h.id # op.target}
                             \cup {[id |-> op.target, topics |-> op.topics]}])

deleteHookAndJobs(t, op) ==
    Ok([t EXCEPT !.hooks = {h \in @ : h.id # op.target},
                 !.jobs  = {j \in @ : j.target # op.target}])

deleteHook(t, op) == Ok([t EXCEPT !.hooks = {h \in @ : h.id # op.target}])

-----------------------------------------------------------------------------
(* Job lifecycle; now is the committed timestamp of the operation *)

JobAt(t, key) == {j \in t.jobs : j.key = key}

UpdateJobs(t, chosen, new(_)) ==
    Ok([t EXCEPT !.jobs = (@ \ chosen) \cup {new(j) : j \in chosen}])

Claimed(j, now) == [j EXCEPT !.status = "running", !.attempts = @ + 1,
                             !.lease = now + LeaseTime]

applyJobClaim(t, key, now) ==
    IF \E j \in JobAt(t, key) : j.status # "pending" \/ j.avail > now
    THEN Conflict(t)
    ELSE UpdateJobs(t, JobAt(t, key), LAMBDA j : Claimed(j, now))

Backoff(attempts) == 2 ^ (IF attempts < 8 THEN attempts ELSE 8)

Succeeded(j) == [j EXCEPT !.status = "succeeded", !.lease = None]

Failed(j, now) ==
    [j EXCEPT !.status = IF j.attempts >= MaxAttempts THEN "dead" ELSE "pending",
              !.avail = now + Backoff(j.attempts), !.lease = None]

(* The UPDATE is by id alone, whatever the status has become meanwhile. *)
applyJobComplete(t, key, ok, now) ==
    UpdateJobs(t, JobAt(t, key),
               LAMBDA j : IF ok THEN Succeeded(j) ELSE Failed(j, now))

applyJobReleaseStale(t, now) ==
    UpdateJobs(t, {j \in t.jobs : j.status = "running" /\ j.lease < now},
               LAMBDA j : [j EXCEPT !.status = "pending", !.lease = None])

applyJobCancel(t, key) ==
    UpdateJobs(t, {j \in JobAt(t, key) : j.status \in {"pending", "running"}},
               LAMBDA j : [j EXCEPT !.status = "cancelled", !.lease = None])

applyJobRetry(t, key, now) ==
    UpdateJobs(t, {j \in JobAt(t, key) : j.status \in {"dead", "cancelled"}},
               LAMBDA j : [j EXCEPT !.status = "pending", !.attempts = 0,
                                    !.avail = now, !.lease = None])

-----------------------------------------------------------------------------
(* FSM.materialize: the switch over the operation kinds. *)
OpKinds == {"collection.put", "collection.delete", "record.put", "record.delete",
            "hook.put", "hook.delete", "job.claim", "job.complete", "job.release",
            "job.cancel", "job.retry"}

materialize(t, op, now) ==
    CASE op.kind = "collection.put"    -> applyCollection(t, op.def)
      [] op.kind = "collection.delete" -> deleteCollection(t, op.name)
      [] op.kind = "record.put"        -> applyRecordBatch(t, op)
      [] op.kind = "record.delete"     -> applyRecordDelete(t, op)
      [] op.kind = "hook.put"          -> applyHookPut(t, op)
      [] op.kind = "hook.delete"       -> deleteHook(t, op)
      [] op.kind = "job.claim"         -> applyJobClaim(t, op.job, now)
      [] op.kind = "job.complete"      -> applyJobComplete(t, op.job, op.ok, now)
      [] op.kind = "job.release"       -> applyJobReleaseStale(t, now)
      [] op.kind = "job.cancel"        -> applyJobCancel(t, op.job)
      [] op.kind = "job.retry"         -> applyJobRetry(t, op.job, now)
=============================================================================

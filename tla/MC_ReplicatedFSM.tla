--------------------------- MODULE MC_ReplicatedFSM ---------------------------
(* Model-checking instances of ReplicatedFSM: one set of caller operations  *)
(* per question.                                                            *)
EXTENDS ReplicatedFSM, TLC

CONSTANTS c1, c2, n1, n2, a, b, x, y, k, h, r1, r2

Def(id, name, shape) == [id |-> id, name |-> name, shape |-> shape]

CollPut(op, id, name, shape) ==
    [kind |-> "collection.put", id |-> op, def |-> Def(id, name, shape)]
CollDelete(op, name) == [kind |-> "collection.delete", id |-> op, name |-> name]

Pay(rec, ver, val, key) ==
    [coll |-> c1, rec |-> rec, ver |-> ver, val |-> val, key |-> key]
Put(op, puts) == [kind |-> "record.put", id |-> op, puts |-> puts, occurred |-> 1]
Delete(op, rec, ver) ==
    [kind |-> "record.delete", id |-> op, occurred |-> 1,
     put |-> Pay(rec, ver, None, None)]
HookPut(op, topics) == [kind |-> "hook.put", id |-> op, target |-> h, topics |-> topics]
HookDelete(op) == [kind |-> "hook.delete", id |-> op, target |-> h]

Job(op) == <<<<op, 1>>, h>>
JobOp(kind, op, job) == [kind |-> kind, id |-> op, job |-> job]
Complete(op, job, claim, ok) ==
    [kind |-> "job.complete", id |-> op, job |-> job, claim |-> claim, ok |-> ok]
Release(op) == [kind |-> "job.release", id |-> op]

(* Creates, a batch, an update and a delete in one collection, which loses  *)
(* its field meanwhile.                                                     *)
RecordOps ==
    {CollPut("o1", c1, n1, "plain"),
     Put("o2", <<Pay(a, 1, x, None)>>),
     Put("o3", <<Pay(b, 1, y, None), Pay(a, 1, y, None)>>),
     Put("o4", <<Pay(a, 2, y, None)>>),
     Delete("o5", a, 1),
     HookPut("o6", {"record.created"}),
     CollPut("o7", c1, n1, "empty")}

(* Schema changes racing record operations, and keyed creates that share   *)
(* the operation id derived from the key.                                  *)
SchemaOps ==
    {CollPut("o1", c1, n1, "unique"),
     CollPut("o2", c2, n1, "plain"),
     CollDelete("o4", n1),
     Put("k", <<Pay(a, 1, x, k)>>),
     Put("k", <<Pay(b, 1, y, k)>>),
     Delete("o6", a, 1)}

(* Two stories: a behaviour proposes from one of the sets. *)
TableOps == RecordOps \cup SchemaOps
OneStory == Proposed \subseteq RecordOps \/ Proposed \subseteq SchemaOps

(* An obligation, its lifecycle, and its definition changing meanwhile. *)
JobOps ==
    {CollPut("o1", c1, n1, "plain"),
     HookPut("o2", {"record.created"}),
     Put("o3", <<Pay(a, 1, x, None), Pay(b, 1, x, None)>>),
     JobOp("job.claim", "o4", Job("o3")),
     Complete("o5", Job("o3"), "o4", FALSE),
     JobOp("job.cancel", "o6", Job("o3")),
     JobOp("job.retry", "o7", Job("o3")),
     HookPut("o8", {}),
     HookDelete("o9"),
     Release("o10"),
     JobOp("job.claim", "o11", Job("o3"))}

(* A keyed update that is stale when first tried and valid when retried. *)
RetryOps ==
    {CollPut("o1", c1, n1, "plain"),
     Put("o2", <<Pay(a, 1, x, None)>>),
     Put("k", <<Pay(a, 3, x, None)>>),
     Put("o4", <<Pay(a, 2, y, None)>>),
     Put("k", <<Pay(a, 3, y, None)>>)}

ReplicaSymmetry == Permutations({r1, r2})

NoClientIds == {}
OneClientId == {"k"}
OneTime == {1}
TwoTimes == {1, 3}
=============================================================================

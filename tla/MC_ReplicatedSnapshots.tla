------------------------ MODULE MC_ReplicatedSnapshots ------------------------
(* Model-checking instances of ReplicatedSnapshots. *)
EXTENDS ReplicatedSnapshots, TLC

CONSTANTS c1, n1, a, x, y, r1, r2

CollPut(op) ==
    [kind |-> "collection.put", id |-> op,
     def |-> [id |-> c1, name |-> n1, shape |-> "plain"]]
Pay(rec, ver, val, key) ==
    [coll |-> c1, rec |-> rec, ver |-> ver, val |-> val, key |-> key]
Put(op, puts) == [kind |-> "record.put", id |-> op, puts |-> puts, occurred |-> 1]

(* A record created and updated, and the collection dropped, while the      *)
(* snapshot is read.                                                        *)
SnapshotOps ==
    {CollPut("o1"),
     Put("o2", <<Pay(a, 1, x, None)>>),
     Put("o3", <<Pay(a, 2, y, None)>>),
     [kind |-> "collection.delete", id |-> "o4", name |-> n1]}

(* A second create of a record is refused and the record deleted, while the *)
(* snapshot is read.                                                        *)
RecreateOps ==
    {CollPut("o1"),
     Put("o2", <<Pay(a, 1, x, None)>>),
     Put("o3", <<Pay(a, 1, y, None)>>),
     [kind |-> "record.delete", id |-> "o4", occurred |-> 1, put |-> Pay(a, 1, None, None)]}

ReplicaSymmetry == Permutations({r1, r2})

NoClientIds == {}
OneTime == {1}
=============================================================================

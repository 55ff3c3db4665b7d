------------------------- MODULE ReplicatedFSMProofs -------------------------
(***************************************************************************)
(* Proofs about ReplicatedFSM and ReplicatedSnapshots for every set of      *)
(* replicas, every set of operations, every log length and any number of    *)
(* crashes, database errors and snapshots.                                  *)
(*                                                                         *)
(* The theorems up to ReplicasAgree leave materialize opaque: they hold for *)
(* whatever a committed operation does to the tables.  Those after it       *)
(* expand it, one lemma per operation, to say what the tables hold.  The    *)
(* last part does without the history of the operations, which a restored   *)
(* snapshot does not keep.                                                  *)
(***************************************************************************)
EXTENDS ReplicatedSnapshots, FiniteSetTheorems, WellFoundedInduction, TLAPS

(* The state an operation id was first applied in determines CanonStep: an  *)
(* id it knows is a stutter.                                                *)
LEMMA CanonStepKnown ==
    ASSUME NEW c, NEW e, Known(c.ops, e.op.id)
    PROVE  CanonStep(c, e) = c
BY DEF CanonStep

(* A fresh operation whose transaction commits moves the canonical state.   *)
LEMMA CanonStepOk ==
    ASSUME NEW c, NEW e, ~Known(c.ops, e.op.id), ~c.dead,
           materialize(c.tables, e.op, e.at).status = "ok"
    PROVE  CanonStep(c, e) =
             [tables |-> materialize(c.tables, e.op, e.at).tables,
              ops |-> c.ops \cup {e.op}, dead |-> FALSE]
BY DEF CanonStep

(* A semantic conflict leaves it alone.                                     *)
LEMMA CanonStepConflict ==
    ASSUME NEW c, NEW e, ~Known(c.ops, e.op.id), ~c.dead,
           materialize(c.tables, e.op, e.at).status = "conflict"
    PROVE  CanonStep(c, e) = c
BY DEF CanonStep

(* No entry takes an applied operation back.                                *)
LEMMA CanonStepGrows ==
    ASSUME NEW c, NEW e
    PROVE  c.ops \subseteq CanonStep(c, e).ops
BY DEF CanonStep

(* The initial state satisfies the inductive invariant.                     *)
LEMMA InitIndInv == Init => IndInv
<1> SUFFICES ASSUME Init PROVE IndInv
  OBVIOUS
<1> USE FSMAssumption
<1>1. TypeOK
  BY DEF Init, TypeOK, Boot, EmptyDb
<1>2. CanonInv
  BY DEF Init, CanonInv
<1>3. \A r \in Replicas : MemoryInv(r)
  BY DEF Init, MemoryInv, Boot, EmptyDb
<1>4. \A r \in Replicas : ReplicaInv(r)
  BY DEF Init, ReplicaInv, CanonicalAt, Boot, EmptyDb
<1> QED
  BY <1>1, <1>2, <1>3, <1>4 DEF IndInv

-----------------------------------------------------------------------------
(* Every step but a commit leaves the log and the canonical states alone.   *)

(* A step that leaves the log and canon alone keeps CanonInv and the truth  *)
(* of NoReuseAfterReject.                                                   *)
LEMMA LogUnchanged ==
    ASSUME CanonInv, UNCHANGED <<log, canon>>
    PROVE  CanonInv' /\ (NoReuseAfterReject' <=> NoReuseAfterReject)
BY DEF CanonInv, NoReuseAfterReject

(* A committed entry extends the log, keeps the canonical prefix and can    *)
(* only make NoReuseAfterReject false.                                      *)
LEMMA CommitCanon ==
    ASSUME TypeOK, CanonInv, NEW op \in inflight, NEW at \in Times, Commit(op, at)
    PROVE  /\ TypeOK'
           /\ CanonInv'
           /\ NoReuseAfterReject' => NoReuseAfterReject
           /\ \A i \in 0..Len(log) : canon'[i] = canon[i]
           /\ \A i \in 1..Len(log) : log'[i] = log[i]
           /\ Len(log') = Len(log) + 1
<1> DEFINE n == Len(log)
           e == [op |-> op, at |-> at]
<1>1. /\ n \in Nat
      /\ log' = Append(log, e)
      /\ e \in [op : Ops, at : Times]
  BY DEF TypeOK, Commit
<1>2. /\ log' \in Seq([op : Ops, at : Times])
      /\ Len(log') = n + 1
      /\ \A i \in 1..n : log'[i] = log[i]
      /\ log'[n + 1] = e
  BY <1>1 DEF TypeOK
<1>3. /\ DOMAIN canon' = 0..(n + 1)
      /\ \A i \in 0..n : canon'[i] = canon[i]
      /\ canon'[n + 1] = CanonStep(canon[n], e)
  BY <1>1 DEF Commit
<1> HIDE DEF e
<1>4. TypeOK'
  <2>1. inflight' \subseteq Ops
    BY DEF TypeOK, Commit
  <2>2. UNCHANGED <<db, mem, faults>>
    BY DEF Commit
  <2> QED
    BY <1>1, <1>2, <1>3, <2>1, <2>2 DEF TypeOK
<1>5. CanonInv'
  <2>1. canon'[0] = [tables |-> EmptyTables, ops |-> {}, dead |-> FALSE]
    BY <1>1, <1>3 DEF CanonInv
  <2>2. ASSUME NEW i \in 1..Len(log')
        PROVE  canon'[i] = CanonStep(canon'[i - 1], log'[i])
    <3>1. CASE i \in 1..n
      BY <1>1, <1>2, <1>3, <3>1 DEF CanonInv
    <3>2. CASE i = n + 1
      BY <1>1, <1>2, <1>3, <3>2
    <3> QED
      BY <1>1, <1>2, <3>1, <3>2
  <2>3. ASSUME NEW i \in 0..Len(log'), NEW j \in 0..Len(log'), i <= j
        PROVE  canon'[i].ops \subseteq canon'[j].ops
    <3>1. CASE j \in 0..n
      BY <1>1, <1>2, <1>3, <2>3, <3>1 DEF CanonInv
    <3>2. CASE j = n + 1 /\ i = n + 1
      BY <3>2
    <3>3. CASE j = n + 1 /\ i \in 0..n
      <4>1. canon[i].ops \subseteq canon[n].ops
        BY <1>1, <3>3 DEF CanonInv
      <4>2. canon[n].ops \subseteq canon'[n + 1].ops
        BY <1>3, CanonStepGrows
      <4> QED
        BY <1>3, <3>3, <4>1, <4>2
    <3> QED
      BY <1>1, <1>2, <3>1, <3>2, <3>3
  <2> QED
    BY <2>1, <2>2, <2>3 DEF CanonInv
<1>6. ASSUME NoReuseAfterReject' PROVE NoReuseAfterReject
  <2> SUFFICES ASSUME NEW i \in 1..n, NEW j \in 1..n, i < j, log[i].op.id = log[j].op.id
               PROVE  Known(canon[i].ops, log[i].op.id)
    BY DEF NoReuseAfterReject
  <2>1. i \in 1..Len(log') /\ j \in 1..Len(log')
    BY <1>1, <1>2
  <2>2. Known(canon'[i].ops, log'[i].op.id)
    BY <1>2, <1>6, <2>1 DEF NoReuseAfterReject
  <2> QED
    BY <1>1, <1>2, <1>3, <2>2
<1> QED
  BY <1>2, <1>3, <1>4, <1>5, <1>6

-----------------------------------------------------------------------------
(* A replica's memory against the canonical state *)

(* A replica the step does not touch keeps its invariants.                  *)
LEMMA Untouched ==
    ASSUME NEW s \in Replicas, MemoryInv(s), UNCHANGED <<log, canon>>,
           mem'[s] = mem[s], db'[s] = db[s]
    PROVE  MemoryInv(s)' /\ (ReplicaInv(s)' <=> ReplicaInv(s))
BY DEF MemoryInv, ReplicaInv, CanonicalAt, Past

(* Past its boot index, a healthy replica recognises exactly the operation  *)
(* ids the canonical state has applied: the map rebuilt by NewFSM and by    *)
(* the replay of rejected entries adds no other, as long as no rejected id  *)
(* was used again.                                                          *)
LEMMA SameKnown ==
    ASSUME TypeOK, CanonInv, NoReuseAfterReject, NEW r \in Replicas,
           MemoryInv(r), ReplicaInv(r), HasNext(r), Past(r)
    PROVE  Known(mem[r].applied, Entry(r).op.id)
             <=> Known(canon[mem[r].next].ops, Entry(r).op.id)
<1> DEFINE n == mem[r].next
           id == Entry(r).op.id
<1>1. /\ n \in 0..Len(log)
      /\ n + 1 \in 1..Len(log)
      /\ Len(log) \in Nat
      /\ id = log[n + 1].op.id
  BY DEF TypeOK, HasNext, Entry, Index
<1>2. db[r].ops = canon[n].ops
  BY DEF ReplicaInv, CanonicalAt
<1>3. ASSUME Known(canon[n].ops, id) PROVE Known(mem[r].applied, id)
  BY <1>2, <1>3 DEF Known, MemoryInv
<1>4. ASSUME Known(mem[r].applied, id) PROVE Known(canon[n].ops, id)
  <2>1. PICK o \in mem[r].applied : o.id = id
    BY <1>4 DEF Known
  <2>2. CASE o \in db[r].ops
    BY <1>2, <2>1, <2>2 DEF Known
  <2>3. CASE o \notin db[r].ops
    <3>1. PICK i \in 1..Len(log) : i <= n /\ log[i].op = o
      BY <2>3 DEF MemoryInv
    <3>2. Known(canon[i].ops, id)
      <4>1. i < n + 1
        BY <1>1, <3>1
      <4> QED
        BY <1>1, <2>1, <3>1, <4>1 DEF NoReuseAfterReject
    <3>3. canon[i].ops \subseteq canon[n].ops
      BY <1>1, <3>1 DEF CanonInv
    <3> QED
      BY <3>2, <3>3 DEF Known
  <2> QED
    BY <2>2, <2>3
<1> QED
  BY <1>3, <1>4

(* The canonical state of the next position is the step of the current one. *)
LEMMA NextCanon ==
    ASSUME TypeOK, CanonInv, NEW r \in Replicas, HasNext(r)
    PROVE  /\ mem[r].next \in 0..Len(log)
           /\ Index(r) = mem[r].next + 1
           /\ Index(r) \in 1..Len(log)
           /\ canon[Index(r)] = CanonStep(canon[mem[r].next], Entry(r))
<1>1. /\ mem[r].next \in 0..Len(log)
      /\ Len(log) \in Nat
      /\ mem[r].next + 1 \in 1..Len(log)
      /\ (mem[r].next + 1) - 1 = mem[r].next
  BY DEF TypeOK, HasNext
<1> QED
  BY <1>1 DEF CanonInv, Index, Entry

(* An element of a sequence over S is in S.                                 *)
LEMMA SeqElement ==
    ASSUME NEW S, NEW s \in Seq(S), NEW i \in 1..Len(s)
    PROVE  s[i] \in S
OBVIOUS

(* Every entry of the log holds an operation.                               *)
LEMMA EntryType ==
    ASSUME log \in Seq([op : Ops, at : Times]), NEW i \in 1..Len(log)
    PROVE  log[i].op \in Ops
<1>1. log[i] \in [op : Ops, at : Times]
  BY SeqElement
<1> QED
  BY <1>1

(* The types of a replica's volatile state.                                  *)
MemType == [next : 0..Len(log), applied : SUBSET Ops, index : 0..Len(log),
            persisted : 0..Len(log), failed : BOOLEAN]

(* A step of one replica that changes its database, if at all, by the index *)
(* or by a whole transaction keeps the types.                               *)
LEMMA TypeKept ==
    ASSUME TypeOK, NEW r \in Replicas, HasNext(r),
           UNCHANGED <<log, inflight, canon>>,
           mem' \in [Replicas -> MemType],
           \/ db' = db
           \/ db' = [db EXCEPT ![r].idx = Index(r)]
           \/ db' = [db EXCEPT ![r] = Materialized(r)],
           faults' \in 0..MaxFaults
    PROVE  /\ TypeOK'
           /\ \A s \in Replicas \ {r} : db'[s] = db[s]
<1>1. Index(r) \in 1..Len(log)
  BY DEF TypeOK, HasNext, Index
<1>2. Entry(r).op \in Ops
  BY <1>1, EntryType DEF TypeOK, Entry
<1>3. DOMAIN db' = Replicas
  BY DEF TypeOK
<1>4. ASSUME NEW s \in Replicas
      PROVE  /\ DOMAIN db'[s] = {"tables", "idx", "ops"}
             /\ db'[s].idx \in 0..Len(log)
             /\ db'[s].ops \subseteq Ops
             /\ s # r => db'[s] = db[s]
  <2>1. CASE db' = db
    BY <2>1 DEF TypeOK
  <2>2. CASE db' = [db EXCEPT ![r].idx = Index(r)]
    <3>1. db'[s] = IF s = r THEN [db[r] EXCEPT !.idx = Index(r)] ELSE db[s]
      BY <2>2 DEF TypeOK
    <3> QED
      BY <1>1, <3>1 DEF TypeOK
  <2>3. CASE db' = [db EXCEPT ![r] = Materialized(r)]
    BY <1>1, <1>2, <2>3 DEF TypeOK, Materialized
  <2> QED
    BY <2>1, <2>2, <2>3
<1> QED
  BY <1>3, <1>4 DEF TypeOK, MemType

(* A step of one replica preserves the invariant if it does for that replica. *)
LEMMA OneReplica ==
    ASSUME IndInv, NEW r \in Replicas, UNCHANGED <<log, canon>>, TypeOK',
           \A s \in Replicas \ {r} : mem'[s] = mem[s] /\ db'[s] = db[s],
           MemoryInv(r)', NoReuseAfterReject => ReplicaInv(r)'
    PROVE  IndInv'
<1>1. CanonInv' /\ (NoReuseAfterReject' <=> NoReuseAfterReject)
  BY LogUnchanged DEF IndInv
<1>2. \A s \in Replicas : MemoryInv(s)'
  BY Untouched DEF IndInv
<1>3. ASSUME NoReuseAfterReject, NEW s \in Replicas PROVE ReplicaInv(s)'
  BY <1>3, Untouched DEF IndInv
<1> QED
  BY <1>1, <1>2, <1>3 DEF IndInv

-----------------------------------------------------------------------------
(* One lemma per return of FSM.Apply *)

(* What FSM.Apply finds at the next entry.                                  *)
LEMMA Position ==
    ASSUME IndInv, NEW r \in Replicas, HasNext(r)
    PROVE  /\ mem[r].next \in 0..Len(log) /\ Index(r) = mem[r].next + 1
           /\ Index(r) \in 1..Len(log) /\ Entry(r) = log[Index(r)]
           /\ mem[r].persisted \in 0..Len(log) /\ db[r].idx \in 0..Len(log)
           /\ Len(log) \in Nat /\ Entry(r).op \in Ops
           /\ TypeOK /\ Index(r) \in 0..Len(log)
           /\ mem[r].applied \cup {Entry(r).op} \in SUBSET Ops
<1>1. /\ mem[r].next \in 0..Len(log) /\ Index(r) = mem[r].next + 1
      /\ Index(r) \in 1..Len(log) /\ Entry(r) = log[Index(r)]
      /\ mem[r].persisted \in 0..Len(log) /\ db[r].idx \in 0..Len(log)
      /\ Len(log) \in Nat
  BY DEF IndInv, TypeOK, Index, HasNext, Entry
<1>2. Entry(r).op \in Ops /\ mem[r].applied \subseteq Ops /\ TypeOK
  BY <1>1, EntryType DEF IndInv, TypeOK
<1> QED
  BY <1>1, <1>2

(* A step that leaves the database alone and moves the volatile position,   *)
(* possibly fencing the replica, preserves the invariant when the entry is  *)
(* a canonical stutter or the replica is fenced afterwards.                 *)
LEMMA VolatileStep ==
    ASSUME IndInv, NEW r \in Replicas, HasNext(r),
           UNCHANGED <<log, inflight, db, canon>>, faults' \in 0..MaxFaults,
           mem' \in [Replicas -> MemType],
           \A s \in Replicas \ {r} : mem'[s] = mem[s],
           mem'[r].next = Index(r), mem'[r].persisted = mem[r].persisted,
           mem[r].failed => mem'[r].failed,
           \/ mem'[r].applied = mem[r].applied
           \/ /\ Index(r) <= mem[r].persisted
              /\ mem'[r].applied = mem[r].applied \cup {Entry(r).op},
           \/ mem'[r].failed
           \/ Index(r) <= mem[r].persisted
           \/ NoReuseAfterReject => canon[Index(r)] = canon[mem[r].next]
    PROVE  IndInv'
<1>1. /\ mem[r].next \in 0..Len(log) /\ Index(r) = mem[r].next + 1
      /\ Index(r) \in 1..Len(log) /\ Entry(r) = log[Index(r)]
      /\ mem[r].persisted \in 0..Len(log) /\ db[r].idx \in 0..Len(log)
      /\ Len(log) \in Nat
  BY Position
<1>2. TypeOK'
  BY TypeKept DEF IndInv
<1>3. MemoryInv(r)'
  <2>1. MemoryInv(r)
    BY DEF IndInv
  <2>2. /\ mem'[r].persisted <= db'[r].idx
        /\ mem'[r].next < mem'[r].persisted => db'[r].idx = mem'[r].persisted
        /\ mem'[r].next >= mem'[r].persisted => db'[r].idx <= mem'[r].next
        /\ db'[r].ops \subseteq mem'[r].applied
    BY <1>1, <2>1 DEF MemoryInv
  <2>3. ASSUME NEW o \in mem'[r].applied \ db'[r].ops
        PROVE  \E i \in 1..Len(log') :
                   i <= mem'[r].next /\ i <= mem'[r].persisted /\ log'[i].op = o
    <3>1. CASE o \in mem[r].applied
      BY <1>1, <2>1, <2>3, <3>1 DEF MemoryInv
    <3>2. CASE o = Entry(r).op /\ Index(r) <= mem[r].persisted
      BY <1>1, <3>2
    <3> QED
      BY <2>3, <3>1, <3>2
  <2> QED
    BY <2>2, <2>3 DEF MemoryInv
<1>4. ASSUME NoReuseAfterReject PROVE ReplicaInv(r)'
  <2>1. ReplicaInv(r) /\ MemoryInv(r)
    BY <1>4 DEF IndInv
  <2>2. CanonicalAt(r, db[r].idx)'
    BY <2>1 DEF ReplicaInv, CanonicalAt
  <2>3. ASSUME Past(r)' PROVE CanonicalAt(r, mem[r].next)'
    <3>1. ~mem[r].failed /\ ~mem'[r].failed
      BY <2>3 DEF Past
    <3>2. CASE Index(r) <= mem[r].persisted
      <4>1. mem'[r].next = mem[r].persisted /\ db[r].idx = mem[r].persisted
        BY <1>1, <2>1, <2>3, <3>2 DEF Past, MemoryInv
      <4> QED
        BY <2>1, <4>1 DEF ReplicaInv, CanonicalAt
    <3>3. CASE Index(r) > mem[r].persisted
      <4>1. canon[Index(r)] = canon[mem[r].next]
        BY <1>1, <1>4, <3>1, <3>3
      <4>2. CanonicalAt(r, mem[r].next)
        BY <1>1, <2>1, <3>1, <3>3 DEF ReplicaInv, Past
      <4> QED
        BY <4>1, <4>2 DEF CanonicalAt
    <3> QED
      BY <1>1, <3>2, <3>3
  <2> QED
    BY <2>2, <2>3 DEF ReplicaInv
<1> QED
  BY <1>2, <1>3, <1>4, OneReplica

(* What is left in place when only the raft position moves, ...            *)
LEMMA MovedNext ==
    ASSUME TypeOK, NEW r \in Replicas, NEW n \in 0..Len(log),
           mem' = [mem EXCEPT ![r].next = n]
    PROVE  /\ mem' \in [Replicas -> MemType]
           /\ \A s \in Replicas \ {r} : mem'[s] = mem[s]
           /\ mem'[r].next = n /\ mem'[r].persisted = mem[r].persisted
           /\ mem'[r].failed <=> mem[r].failed
           /\ mem'[r].applied = mem[r].applied
<1> DEFINE N == 0..Len(log)
           O == SUBSET Ops
           M == [next : N, applied : O, index : N, persisted : N, failed : BOOLEAN]
<1>1. mem \in [Replicas -> M] /\ n \in N /\ MemType = M
  BY DEF TypeOK, MemType
<1> HIDE DEF N, O
<1>2. mem' \in [Replicas -> M]
  BY <1>1
<1> QED
  BY <1>1, <1>2

(* ... when the replica is fenced, ...                                       *)
LEMMA MovedFailed ==
    ASSUME TypeOK, NEW r \in Replicas, NEW n \in 0..Len(log),
           mem' = [mem EXCEPT ![r].next = n, ![r].failed = TRUE]
    PROVE  /\ mem' \in [Replicas -> MemType]
           /\ \A s \in Replicas \ {r} : mem'[s] = mem[s]
           /\ mem'[r].next = n /\ mem'[r].persisted = mem[r].persisted
           /\ mem'[r].failed
           /\ mem'[r].applied = mem[r].applied
<1> DEFINE N == 0..Len(log)
           O == SUBSET Ops
           M == [next : N, applied : O, index : N, persisted : N, failed : BOOLEAN]
<1>1. mem \in [Replicas -> M] /\ n \in N /\ MemType = M
  BY DEF TypeOK, MemType
<1> HIDE DEF N, O
<1>2. mem' \in [Replicas -> M]
  BY <1>1
<1> QED
  BY <1>1, <1>2

(* ... when the applied index moves too, ...                                 *)
LEMMA MovedIndex ==
    ASSUME TypeOK, NEW r \in Replicas, NEW n \in 0..Len(log),
           mem' = [mem EXCEPT ![r].next = n, ![r].index = n]
    PROVE  /\ mem' \in [Replicas -> MemType]
           /\ \A s \in Replicas \ {r} : mem'[s] = mem[s]
           /\ mem'[r].next = n /\ mem'[r].persisted = mem[r].persisted
           /\ mem'[r].failed <=> mem[r].failed
           /\ mem'[r].applied = mem[r].applied
<1> DEFINE N == 0..Len(log)
           O == SUBSET Ops
           M == [next : N, applied : O, index : N, persisted : N, failed : BOOLEAN]
<1>1. mem \in [Replicas -> M] /\ n \in N /\ MemType = M
  BY DEF TypeOK, MemType
<1> HIDE DEF N, O
<1>2. mem' \in [Replicas -> M]
  BY <1>1
<1> QED
  BY <1>1, <1>2

(* ... and when the operation is remembered.                                 *)
LEMMA MovedApplied ==
    ASSUME IndInv, NEW r \in Replicas, HasNext(r),
           mem' = [mem EXCEPT ![r].next = Index(r), ![r].index = Index(r),
                              ![r].applied = @ \cup {Entry(r).op}]
    PROVE  /\ mem' \in [Replicas -> MemType]
           /\ \A s \in Replicas \ {r} : mem'[s] = mem[s]
           /\ mem'[r].next = Index(r) /\ mem'[r].persisted = mem[r].persisted
           /\ (mem'[r].failed <=> mem[r].failed)
           /\ mem'[r].applied = mem[r].applied \cup {Entry(r).op}
<1> DEFINE N == 0..Len(log)
           O == SUBSET Ops
           M == [next : N, applied : O, index : N, persisted : N, failed : BOOLEAN]
<1>1. /\ mem \in [Replicas -> M] /\ MemType = M /\ Index(r) \in N
      /\ mem[r].applied \cup {Entry(r).op} \in O
  BY Position DEF TypeOK, MemType
<1> HIDE DEF N, O
<1>2. mem' \in [Replicas -> M]
  BY <1>1
<1> QED
  BY <1>1, <1>2

(* A fenced replica only moves its raft position.                           *)
LEMMA FencedStep ==
    ASSUME IndInv, NEW r \in Replicas, ApplyFenced(r)
    PROVE  IndInv'
<1>1. HasNext(r) /\ mem[r].failed /\ mem' = [mem EXCEPT ![r].next = Index(r)]
  BY DEF ApplyFenced, Skip
<1>2. /\ mem' \in [Replicas -> MemType]
      /\ \A s \in Replicas \ {r} : mem'[s] = mem[s]
      /\ mem'[r].next = Index(r) /\ mem'[r].persisted = mem[r].persisted
      /\ (mem'[r].failed <=> mem[r].failed) /\ mem'[r].applied = mem[r].applied
  BY <1>1, Position, MovedNext
<1> QED
  BY <1>1, <1>2, VolatileStep DEF ApplyFenced, IndInv, TypeOK

(* An id the replica recognises past its boot index is one the canonical    *)
(* state has applied, so the entry is a canonical stutter.                  *)
LEMMA RecognisedIsStutter ==
    ASSUME IndInv, NEW r \in Replicas, HasNext(r), ~mem[r].failed,
           Index(r) > mem[r].persisted, Known(mem[r].applied, Entry(r).op.id),
           NoReuseAfterReject
    PROVE  canon[Index(r)] = canon[mem[r].next]
<1>1. Past(r)
  BY Position DEF Past
<1>2. Known(canon[mem[r].next].ops, Entry(r).op.id)
  BY <1>1, SameKnown DEF IndInv
<1> QED
  BY <1>2, NextCanon, CanonStepKnown DEF IndInv

(* A reused id with another payload is refused and changes nothing.         *)
LEMMA ReusedStep ==
    ASSUME IndInv, NEW r \in Replicas, ApplyReused(r)
    PROVE  IndInv'
<1>1. /\ HasNext(r) /\ ~mem[r].failed /\ Known(mem[r].applied, Entry(r).op.id)
      /\ mem' = [mem EXCEPT ![r].next = Index(r)]
  BY DEF ApplyReused, Skip
<1>2. /\ mem' \in [Replicas -> MemType]
      /\ \A s \in Replicas \ {r} : mem'[s] = mem[s]
      /\ mem'[r].next = Index(r) /\ mem'[r].persisted = mem[r].persisted
      /\ (mem'[r].failed <=> mem[r].failed) /\ mem'[r].applied = mem[r].applied
  BY <1>1, Position, MovedNext
<1>3. \/ Index(r) <= mem[r].persisted
      \/ NoReuseAfterReject => canon[Index(r)] = canon[mem[r].next]
  BY <1>1, Position, RecognisedIsStutter
<1> QED
  BY <1>1, <1>2, <1>3, VolatileStep DEF ApplyReused, IndInv, TypeOK

(* A duplicate moves at most the durable index, over a canonical stutter.   *)
LEMMA DuplicateStep ==
    ASSUME IndInv, NEW r \in Replicas, ApplyDuplicate(r)
    PROVE  IndInv'
<1> USE FSMAssumption
<1>1. /\ HasNext(r) /\ ~mem[r].failed /\ Known(mem[r].applied, Entry(r).op.id)
      /\ mem' = [mem EXCEPT ![r].next = Index(r), ![r].index = Index(r)]
      /\ UNCHANGED <<log, inflight, canon>>
  BY DEF ApplyDuplicate, Known
<1>2. /\ mem[r].next \in 0..Len(log) /\ Index(r) = mem[r].next + 1
      /\ Index(r) \in 1..Len(log)
      /\ mem[r].persisted \in 0..Len(log) /\ db[r].idx \in 0..Len(log)
      /\ Len(log) \in Nat
  BY <1>1, Position
<1>3. /\ mem' \in [Replicas -> MemType]
      /\ \A s \in Replicas \ {r} : mem'[s] = mem[s]
      /\ mem'[r].next = Index(r) /\ mem'[r].persisted = mem[r].persisted
      /\ (mem'[r].failed <=> mem[r].failed) /\ mem'[r].applied = mem[r].applied
  BY <1>1, Position, MovedIndex
<1>4. \/ Index(r) <= mem[r].persisted
      \/ NoReuseAfterReject => canon[Index(r)] = canon[mem[r].next]
  BY <1>1, <1>2, RecognisedIsStutter
<1>5. faults' \in 0..MaxFaults
  BY DEF ApplyDuplicate, IndInv, TypeOK
<1>6. CASE db' = db
  BY <1>1, <1>3, <1>4, <1>5, <1>6, VolatileStep
<1>7. CASE Index(r) > mem[r].persisted /\ db' = [db EXCEPT ![r].idx = Index(r)]
  <2>1. TypeOK' /\ \A s \in Replicas \ {r} : db'[s] = db[s]
    BY <1>1, <1>3, <1>5, <1>7, TypeKept DEF IndInv
  <2>2. /\ db'[r].idx = Index(r) /\ db'[r].ops = db[r].ops
        /\ db'[r].tables = db[r].tables
    BY <1>7 DEF IndInv, TypeOK
  <2>3. MemoryInv(r)'
    <3>1. MemoryInv(r)
      BY DEF IndInv
    <3> QED
      BY <1>1, <1>2, <1>3, <1>7, <2>2, <3>1 DEF MemoryInv
  <2>4. ASSUME NoReuseAfterReject PROVE ReplicaInv(r)'
    <3>1. CanonicalAt(r, mem[r].next)
      BY <1>1, <1>2, <1>7, <2>4 DEF IndInv, ReplicaInv, Past
    <3>2. canon[Index(r)] = canon[mem[r].next]
      BY <1>2, <1>4, <1>7, <2>4
    <3> QED
      BY <1>1, <1>3, <2>2, <3>1, <3>2 DEF ReplicaInv, CanonicalAt
  <2> QED
    BY <1>1, <1>3, <2>1, <2>3, <2>4, OneReplica
<1> QED
  BY <1>6, <1>7 DEF ApplyDuplicate

(* A replay at or below the boot index only remembers the operation.        *)
LEMMA ReplayStep ==
    ASSUME IndInv, NEW r \in Replicas, ApplyReplay(r)
    PROVE  IndInv'
<1>1. /\ HasNext(r) /\ Index(r) <= mem[r].persisted
      /\ mem' = [mem EXCEPT ![r].next = Index(r), ![r].index = Index(r),
                            ![r].applied = @ \cup {Entry(r).op}]
  BY DEF ApplyReplay
<1>2. /\ mem' \in [Replicas -> MemType]
      /\ \A s \in Replicas \ {r} : mem'[s] = mem[s]
      /\ mem'[r].next = Index(r) /\ mem'[r].persisted = mem[r].persisted
      /\ (mem'[r].failed <=> mem[r].failed)
      /\ mem'[r].applied = mem[r].applied \cup {Entry(r).op}
  BY <1>1, MovedApplied
<1> QED
  BY <1>1, <1>2, VolatileStep DEF ApplyReplay, IndInv, TypeOK

(* A committed transaction is the canonical step.                           *)
LEMMA MaterializeStep ==
    ASSUME IndInv, NEW r \in Replicas, ApplyMaterialize(r)
    PROVE  IndInv'
<1>1. /\ HasNext(r) /\ ~mem[r].failed /\ ~Known(mem[r].applied, Entry(r).op.id)
      /\ Index(r) > mem[r].persisted
      /\ Result(r).status = "ok"
      /\ db' = [db EXCEPT ![r] = Materialized(r)]
      /\ mem' = [mem EXCEPT ![r].next = Index(r), ![r].index = Index(r),
                            ![r].applied = @ \cup {Entry(r).op}]
      /\ UNCHANGED <<log, inflight, faults, canon>>
  BY DEF ApplyMaterialize, Fresh
<1>2. /\ mem[r].next \in 0..Len(log) /\ Index(r) = mem[r].next + 1
      /\ Index(r) \in 1..Len(log) /\ Entry(r).op \in Ops
      /\ mem[r].persisted \in 0..Len(log) /\ db[r].idx \in 0..Len(log)
      /\ Len(log) \in Nat
  BY <1>1, Position
<1>3. /\ mem' \in [Replicas -> MemType]
      /\ \A s \in Replicas \ {r} : mem'[s] = mem[s]
      /\ mem'[r].next = Index(r) /\ mem'[r].persisted = mem[r].persisted
      /\ (mem'[r].failed <=> mem[r].failed)
      /\ mem'[r].applied = mem[r].applied \cup {Entry(r).op}
  BY <1>1, MovedApplied
<1>4. TypeOK' /\ \A s \in Replicas \ {r} : db'[s] = db[s]
  BY <1>1, <1>3, TypeKept DEF IndInv, TypeOK
<1>5. /\ db'[r].idx = Index(r) /\ db'[r].ops = db[r].ops \cup {Entry(r).op}
      /\ db'[r].tables = Result(r).tables
  BY <1>1 DEF IndInv, TypeOK, Materialized
<1>6. MemoryInv(r)'
  <2>1. MemoryInv(r)
    BY DEF IndInv
  <2> QED
    BY <1>1, <1>2, <1>3, <1>5, <2>1 DEF MemoryInv
<1>7. ASSUME NoReuseAfterReject PROVE ReplicaInv(r)'
  <2>1. Past(r) /\ CanonicalAt(r, mem[r].next)
    BY <1>1, <1>2, <1>7 DEF IndInv, ReplicaInv, Past
  <2>2. ~Known(canon[mem[r].next].ops, Entry(r).op.id)
    BY <1>1, <1>7, <2>1, SameKnown DEF IndInv
  <2>3. Result(r) = materialize(canon[mem[r].next].tables, Entry(r).op, Entry(r).at)
    BY <2>1 DEF Result, CanonicalAt
  <2>4. canon[Index(r)] = [tables |-> Result(r).tables,
                           ops |-> canon[mem[r].next].ops \cup {Entry(r).op},
                           dead |-> FALSE]
    <3>1. canon[Index(r)] = CanonStep(canon[mem[r].next], Entry(r))
      BY <1>1, NextCanon DEF IndInv
    <3>2. ~canon[mem[r].next].dead
      BY <2>1 DEF CanonicalAt
    <3> QED
      BY <1>1, <2>2, <2>3, <3>1, <3>2, CanonStepOk
  <2>5. /\ db'[r].tables = canon'[Index(r)].tables
        /\ db'[r].ops = canon'[Index(r)].ops
        /\ ~canon'[Index(r)].dead
    BY <1>1, <1>5, <2>1, <2>4 DEF CanonicalAt
  <2>6. db'[r].idx = Index(r) /\ mem'[r].next = Index(r)
    BY <1>3, <1>5
  <2> QED
    BY <2>5, <2>6 DEF ReplicaInv, CanonicalAt
<1> QED
  BY <1>1, <1>3, <1>4, <1>6, <1>7, OneReplica

(* A semantic conflict is a canonical stutter.                              *)
LEMMA ConflictStep ==
    ASSUME IndInv, NEW r \in Replicas, ApplyConflict(r)
    PROVE  IndInv'
<1>1. /\ HasNext(r) /\ ~mem[r].failed /\ ~Known(mem[r].applied, Entry(r).op.id)
      /\ Index(r) > mem[r].persisted
      /\ Result(r).status = "conflict"
      /\ mem' = [mem EXCEPT ![r].next = Index(r)]
  BY DEF ApplyConflict, Fresh, Skip
<1>2. /\ mem' \in [Replicas -> MemType]
      /\ \A s \in Replicas \ {r} : mem'[s] = mem[s]
      /\ mem'[r].next = Index(r) /\ mem'[r].persisted = mem[r].persisted
      /\ (mem'[r].failed <=> mem[r].failed) /\ mem'[r].applied = mem[r].applied
  BY <1>1, Position, MovedNext
<1>3. ASSUME NoReuseAfterReject PROVE canon[Index(r)] = canon[mem[r].next]
  <2>1. Past(r)
    BY <1>1, Position DEF Past
  <2>2. CanonicalAt(r, mem[r].next)
    BY <1>3, <2>1 DEF IndInv, ReplicaInv
  <2>3. ~Known(canon[mem[r].next].ops, Entry(r).op.id)
    BY <1>1, <1>3, <2>1, SameKnown DEF IndInv
  <2> QED
    BY <1>1, <2>2, <2>3, NextCanon, CanonStepConflict DEF IndInv, CanonicalAt, Result
<1> QED
  BY <1>1, <1>2, <1>3, VolatileStep DEF ApplyConflict, IndInv, TypeOK

(* A fatal result and a database error both fence the replica.              *)
LEMMA FailStep ==
    ASSUME IndInv, NEW r \in Replicas, ApplyFatal(r) \/ ApplyError(r)
    PROVE  IndInv'
<1>1. /\ HasNext(r)
      /\ mem' = [mem EXCEPT ![r].next = Index(r), ![r].failed = TRUE]
      /\ UNCHANGED <<log, inflight, db, canon>>
  BY DEF ApplyFatal, ApplyError
<1>2. /\ mem' \in [Replicas -> MemType]
      /\ \A s \in Replicas \ {r} : mem'[s] = mem[s]
      /\ mem'[r].next = Index(r) /\ mem'[r].persisted = mem[r].persisted
      /\ mem'[r].failed /\ mem'[r].applied = mem[r].applied
  BY <1>1, Position, MovedFailed
<1>3. faults' \in 0..MaxFaults
  BY FSMAssumption DEF ApplyFatal, ApplyError, IndInv, TypeOK
<1> QED
  BY <1>1, <1>2, <1>3, VolatileStep

-----------------------------------------------------------------------------
(* The other actions *)

(* NewFSM reloads exactly what is durable.                                  *)
LEMMA RestartStep ==
    ASSUME IndInv, NEW r \in Replicas, Restart(r)
    PROVE  IndInv'
<1>1. /\ mem' = [mem EXCEPT ![r] = Boot(db[r])]
      /\ UNCHANGED <<log, inflight, db, faults, canon>>
  BY DEF Restart
<1>2. /\ db[r].idx \in 0..Len(log) /\ db[r].ops \subseteq Ops /\ Len(log) \in Nat
  BY DEF IndInv, TypeOK
<1>3. /\ mem' \in [Replicas -> MemType]
      /\ \A s \in Replicas \ {r} : mem'[s] = mem[s]
      /\ mem'[r].next = 0 /\ mem'[r].persisted = db[r].idx
      /\ mem'[r].applied = db[r].ops
  BY <1>1, <1>2 DEF IndInv, TypeOK, MemType, Boot
<1>4. TypeOK'
  BY <1>1, <1>3 DEF IndInv, TypeOK, MemType
<1>5. MemoryInv(r)'
  BY <1>1, <1>2, <1>3 DEF MemoryInv
<1>6. NoReuseAfterReject => ReplicaInv(r)'
  BY <1>1, <1>2, <1>3 DEF IndInv, ReplicaInv, CanonicalAt, Past
<1> QED
  BY <1>1, <1>3, <1>4, <1>5, <1>6, OneReplica

(* Only raft moves the log: what a commit does to the replicas is nothing.  *)
LEMMA CommitStep ==
    ASSUME IndInv, NEW op \in inflight, NEW at \in Times, Commit(op, at)
    PROVE  IndInv'
<1>1. /\ TypeOK' /\ CanonInv'
      /\ NoReuseAfterReject' => NoReuseAfterReject
      /\ \A i \in 0..Len(log) : canon'[i] = canon[i]
      /\ \A i \in 1..Len(log) : log'[i] = log[i]
      /\ Len(log') = Len(log) + 1
  BY CommitCanon DEF IndInv
<1>2. db' = db /\ mem' = mem /\ Len(log) \in Nat
  BY DEF Commit, IndInv, TypeOK
<1>3. ASSUME NEW r \in Replicas PROVE MemoryInv(r)'
  <2>1. MemoryInv(r)
    BY DEF IndInv
  <2>2. \A i \in 1..Len(log) : i \in 1..Len(log')
    BY <1>1, <1>2
  <2> QED
    BY <1>1, <1>2, <2>1, <2>2 DEF MemoryInv
<1>4. ASSUME NoReuseAfterReject', NEW r \in Replicas PROVE ReplicaInv(r)'
  <2>1. ReplicaInv(r)
    BY <1>1, <1>4 DEF IndInv
  <2>2. db[r].idx \in 0..Len(log) /\ mem[r].next \in 0..Len(log)
    BY DEF IndInv, TypeOK
  <2> QED
    BY <1>1, <1>2, <2>1, <2>2 DEF ReplicaInv, CanonicalAt, Past
<1> QED
  BY <1>1, <1>3, <1>4 DEF IndInv

(* Proposing and losing a proposal touch only the proposals in flight.      *)
LEMMA CallerStep ==
    ASSUME IndInv, inflight' \subseteq Ops, UNCHANGED <<log, db, mem, faults, canon>>
    PROVE  IndInv'
<1>1. TypeOK'
  BY DEF IndInv, TypeOK
<1>2. CanonInv' /\ (NoReuseAfterReject' <=> NoReuseAfterReject)
  BY LogUnchanged DEF IndInv
<1>3. \A r \in Replicas : MemoryInv(r)' /\ (ReplicaInv(r)' <=> ReplicaInv(r))
  BY Untouched DEF IndInv
<1> QED
  BY <1>1, <1>2, <1>3 DEF IndInv

(* IndInv is inductive.                                                     *)
LEMMA NextIndInv == IndInv /\ [Next]_vars => IndInv'
<1> SUFFICES ASSUME IndInv, [Next]_vars PROVE IndInv'
  OBVIOUS
<1>1. ASSUME NEW r \in Replicas, NEW op \in Ops, Propose(r, op) PROVE IndInv'
  BY <1>1, CallerStep DEF Propose, IndInv, TypeOK
<1>2. ASSUME NEW op \in inflight, Lose(op) PROVE IndInv'
  BY <1>2, CallerStep DEF Lose, IndInv, TypeOK
<1>3. ASSUME NEW op \in inflight, NEW at \in Times, Commit(op, at) PROVE IndInv'
  BY <1>3, CommitStep
<1>4. ASSUME NEW r \in Replicas, Apply(r) PROVE IndInv'
  BY <1>4, FencedStep, ReusedStep, DuplicateStep, ReplayStep, MaterializeStep,
     ConflictStep, FailStep DEF Apply
<1>5. ASSUME NEW r \in Replicas, Restart(r) PROVE IndInv'
  BY <1>5, RestartStep
<1>6. CASE UNCHANGED vars
  BY <1>6, CallerStep DEF vars, IndInv, TypeOK
<1> QED
  BY <1>1, <1>2, <1>3, <1>4, <1>5, <1>6 DEF Next

-----------------------------------------------------------------------------
(* The theorems *)

(* The strengthened invariant holds in every reachable state.               *)
THEOREM Inductive == Spec => []IndInv
BY InitIndInv, NextIndInv, PTL DEF Spec

(* Type correctness.                                                        *)
THEOREM TypeCorrect == Spec => []TypeOK
<1>1. IndInv => TypeOK
  BY DEF IndInv
<1> QED
  BY <1>1, Inductive, PTL

(* Whatever crashes, replays, duplicates, conflicts and database errors     *)
(* came before, the durable tables and the durable set of applied           *)
(* operations of every replica are those the log defines at its durable     *)
(* index.                                                                   *)
THEOREM DurableStateIsCanonical == Spec => []DurablePrefix
<1>1. IndInv => DurablePrefix
  BY DEF IndInv, DurablePrefix, ReplicaInv, CanonicalAt
<1> QED
  BY <1>1, Inductive, PTL

(* A healthy replica past its boot index serves the state the log defines   *)
(* at its raft position.                                                    *)
THEOREM HealthyReplicaIsCanonical == Spec => []CaughtUp
<1>1. IndInv => CaughtUp
  BY DEF IndInv, CaughtUp, ReplicaInv, CanonicalAt
<1> QED
  BY <1>1, Inductive, PTL

(* Unless an operation id is committed again after it was rejected, two     *)
(* healthy replicas at the same raft position hold the same tables.         *)
THEOREM ReplicasAgree == Spec => [](NoReuseAfterReject => Agreement)
<1>1. IndInv => (NoReuseAfterReject => Agreement)
  BY DEF IndInv, Agreement, ReplicaInv, CanonicalAt
<1> QED
  BY <1>1, Inductive, PTL

-----------------------------------------------------------------------------
(* What one committed operation does to the tables *)

(* The next number of a dense sequence continues it. *)
LEMMA NextSeqDense ==
    ASSUME NEW n \in Nat
    PROVE  NextSeq(1..n) = n + 1
<1>1. CASE n = 0
  BY <1>1 DEF NextSeq
<1>2. CASE n # 0
  <2>1. n \in 1..n /\ \A y \in 1..n : n >= y
    BY <1>2
  <2>2. Max(1..n) \in 1..n /\ \A y \in 1..n : Max(1..n) >= y
    BY <2>1 DEF Max
  <2>3. Max(1..n) = n
    BY <2>1, <2>2
  <2> QED
    BY <1>2, <2>3 DEF NextSeq
<1> QED
  BY <1>1, <1>2

(* A row with a new dedup key is inserted. *)
LEMMA InsertNew ==
    ASSUME NEW T, NEW row, row.key \notin {x.key : x \in T}
    PROVE  InsertOnce(T, row) = T \cup {row}
BY DEF InsertOnce

(* The event, with the next sequence number, is new: the log of events and   *)
(* the set of keys grow by one.                                             *)
LEMMA EmitEvent ==
    ASSUME NEW t, NEW keys, NEW facts, TablesOf(t, keys, facts),
           NEW topic, NEW name, NEW rec, NEW key, key \notin keys
    PROVE  LET u == emitEvent(t, topic, name, rec, key)
               e == [seq |-> Cardinality(t.events) + 1, topic |-> topic,
                     coll |-> name, rec |-> rec, key |-> key]
           IN  /\ DOMAIN u = DOMAIN t
               /\ u.events = t.events \cup {e}
               /\ u.colls = t.colls /\ u.rows = t.rows /\ u.idem = t.idem
               /\ u.audit = t.audit /\ u.jobs = t.jobs /\ u.hooks = t.hooks
               /\ IsFiniteSet(u.events)
               /\ {x.key : x \in u.events} = keys \cup {key}
               /\ Cardinality(u.events) = Cardinality(keys \cup {key})
               /\ CursorDense(u)
<1> DEFINE n == Cardinality(t.events)
           e == [seq |-> n + 1, topic |-> topic, coll |-> name, rec |-> rec, key |-> key]
           u == emitEvent(t, topic, name, rec, key)
<1>1. /\ DOMAIN t = {"colls", "rows", "idem", "events", "audit", "jobs", "hooks"}
      /\ IsFiniteSet(t.events)
      /\ {x.seq : x \in t.events} = 1..n
      /\ {x.key : x \in t.events} = keys
      /\ n = Cardinality(keys)
  BY DEF TablesOf, ConsequencesOf, CursorDense, EmptyTables
<1>2. n \in Nat
  BY <1>1, FS_CardinalityType
<1>3. NextSeq({x.seq : x \in t.events}) = n + 1
  BY <1>1, <1>2, NextSeqDense
<1>4. e.key \notin {x.key : x \in t.events} /\ e.seq = n + 1 /\ e.key = key
  BY <1>1
<1>5. InsertOnce(t.events, e) = t.events \cup {e}
  <2> HIDE DEF e
  <2> QED
    BY <1>4, InsertNew
<1>6. u = [t EXCEPT !.events = InsertOnce(t.events, e)]
  BY <1>3 DEF emitEvent
<1> HIDE DEF e, u, n
<1>7. /\ DOMAIN u = DOMAIN t
      /\ u.events = t.events \cup {e}
      /\ u.colls = t.colls /\ u.rows = t.rows /\ u.idem = t.idem
      /\ u.audit = t.audit /\ u.jobs = t.jobs /\ u.hooks = t.hooks
  BY <1>1, <1>5, <1>6
<1>8. e \notin t.events
  BY <1>4
<1>9. IsFiniteSet(u.events) /\ Cardinality(u.events) = n + 1
  BY <1>1, <1>7, <1>8, FS_AddElement DEF n
<1>10. {x.key : x \in u.events} = keys \cup {key}
  BY <1>1, <1>4, <1>7
<1>11. IsFiniteSet(keys)
  <2> DEFINE f == [x \in t.events |-> x.key]
  <2>1. f \in Surjection(t.events, keys)
    BY <1>1 DEF Surjection
  <2> QED
    BY <1>1, <2>1, FS_Surjection
<1>12. Cardinality(keys \cup {key}) = n + 1
  BY <1>1, <1>11, FS_AddElement
<1>13. {x.seq : x \in u.events} = 1..(n + 1)
  <2>1. {x.seq : x \in u.events} = (1..n) \cup {n + 1}
    BY <1>1, <1>4, <1>7
  <2>2. (1..n) \cup {n + 1} = 1..(n + 1)
    BY <1>2
  <2> QED
    BY <2>1, <2>2
<1>14. CursorDense(u)
  BY <1>9, <1>13 DEF CursorDense
<1> QED
  BY <1>7, <1>9, <1>10, <1>12, <1>14 DEF e, u, n

(* The audit fact is inserted unless its key is there. *)
LEMMA EmitAudit ==
    ASSUME NEW t, "audit" \in DOMAIN t, NEW rec, NEW key
    PROVE  LET u == emitAudit(t, rec, key)
           IN  /\ DOMAIN u = DOMAIN t
               /\ {a.key : a \in u.audit} = {a.key : a \in t.audit} \cup {key}
               /\ \A f \in DOMAIN t \ {"audit"} : u[f] = t[f]
<1> DEFINE a == [id |-> NextSeq({x.id : x \in t.audit}), rec |-> rec, key |-> key]
           u == emitAudit(t, rec, key)
<1>1. u = [t EXCEPT !.audit = InsertOnce(t.audit, a)]
  BY DEF emitAudit
<1>2. a.key = key
  OBVIOUS
<1> HIDE DEF a
<1>3. {x.key : x \in InsertOnce(t.audit, a)} = {x.key : x \in t.audit} \cup {key}
  BY <1>2 DEF InsertOnce
<1> HIDE DEF u
<1>4. /\ DOMAIN u = DOMAIN t /\ u.audit = InsertOnce(t.audit, a)
      /\ \A f \in DOMAIN t \ {"audit"} : u[f] = t[f]
  BY <1>1
<1> QED
  BY <1>3, <1>4 DEF u

(* The targets of the definitions that are enabled for a topic. *)
Matching(t, topic) == {h.id : h \in {x \in t.hooks : topic \in x.topics}}

(* A key that owes nothing yet gets one pending job for each of them. *)
LEMMA EnqueueJobs ==
    ASSUME NEW t, "jobs" \in DOMAIN t, NEW topic, NEW key, NEW occurred,
           \A j \in t.jobs : j.key[1] # key
    PROVE  LET u == enqueueJobs(t, topic, key, occurred)
           IN  /\ DOMAIN u = DOMAIN t
               /\ \A f \in DOMAIN t \ {"jobs"} : u[f] = t[f]
               /\ t.jobs \subseteq u.jobs
               /\ \A j \in u.jobs \ t.jobs :
                     /\ j.key[1] = key
                     /\ DOMAIN j = {"key", "target", "status", "attempts", "avail", "lease"}
               /\ {j.target : j \in {i \in u.jobs : i.key[1] = key}} = Matching(t, topic)
<1> DEFINE job(h) == [key |-> <<key, h.id>>, target |-> h.id, status |-> "pending",
                      attempts |-> 0, avail |-> occurred, lease |-> None]
           match == {h \in t.hooks : topic \in h.topics}
           new == {job(h) : h \in match}
           u == enqueueJobs(t, topic, key, occurred)
<1>1. ASSUME NEW h \in match, NEW j \in t.jobs PROVE j.key # <<key, h.id>>
  <2>1. j.key[1] # key
    OBVIOUS
  <2>2. <<key, h.id>>[1] = key
    OBVIOUS
  <2> QED
    BY <2>1, <2>2
<1>2. match = {h \in t.hooks : /\ topic \in h.topics
                               /\ \A j \in t.jobs : j.key # <<key, h.id>>}
  BY <1>1
<1>3. u = [t EXCEPT !.jobs = t.jobs \cup new]
  BY <1>2 DEF enqueueJobs
<1>4. ASSUME NEW h
      PROVE  /\ job(h).key[1] = key
             /\ job(h).target = h.id
             /\ DOMAIN job(h) = {"key", "target", "status", "attempts", "avail", "lease"}
  OBVIOUS
<1> HIDE DEF job, u
<1>5. /\ DOMAIN u = DOMAIN t /\ u.jobs = t.jobs \cup new
      /\ \A f \in DOMAIN t \ {"jobs"} : u[f] = t[f]
  BY <1>3
<1>6. \A j \in u.jobs \ t.jobs :
        /\ j.key[1] = key
        /\ DOMAIN j = {"key", "target", "status", "attempts", "avail", "lease"}
  BY <1>4, <1>5
<1>7. {i \in u.jobs : i.key[1] = key} = new
  <2>1. \A j \in new : j.key[1] = key
    BY <1>4
  <2> HIDE DEF new
  <2> QED
    BY <1>5, <2>1
<1>8. {j.target : j \in new} = {h.id : h \in match}
  BY <1>4
<1> QED
  BY <1>5, <1>6, <1>7, <1>8 DEF u, Matching

(* What is owed for the events of operation id is what its hooks match. *)
OwedByHooks(t, id) ==
    \A e \in t.events : e.key[1] = id => Owed(t, e) = Matching(t, e.topic)

(* The consequences of one record under a new key of its operation. *)
LEMMA EmitConsequences ==
    ASSUME NEW t, NEW keys, NEW facts, TablesOf(t, keys, facts), BatchOwed(t),
           NEW topic, NEW p, NEW id, NEW i, NEW occurred, <<id, i>> \notin keys,
           OwedByHooks(t, id)
    PROVE  LET u == emitRecordConsequences(t, topic, p, <<id, i>>, occurred)
           IN  /\ TablesOf(u, keys \cup {<<id, i>>},
                           IF topic = "record.deleted" THEN facts
                           ELSE facts \cup {<<id, i>>})
               /\ BatchOwed(u)
               /\ OwedByHooks(u, id)
               /\ u.rows = t.rows
               /\ t.events \subseteq u.events
               /\ t.jobs \subseteq u.jobs
<1> DEFINE key == <<id, i>>
           name == (CHOOSE c \in WithId(t, p.coll) : TRUE).name
           v == emitEvent(t, topic, name, p.rec, key)
           w == IF topic = "record.deleted" THEN v ELSE emitAudit(v, p.rec, key)
           u == enqueueJobs(w, topic, key, occurred)
           e == [seq |-> Cardinality(t.events) + 1, topic |-> topic,
                 coll |-> name, rec |-> p.rec, key |-> key]
           more == IF topic = "record.deleted" THEN facts ELSE facts \cup {key}
<1>0. u = emitRecordConsequences(t, topic, p, <<id, i>>, occurred)
  BY DEF emitRecordConsequences
<1>1. /\ key[1] = id /\ e.key = key /\ e.topic = topic
      /\ key \notin keys
  OBVIOUS
<1> HIDE DEF key, name
<1>2. /\ DOMAIN v = DOMAIN t
      /\ v.events = t.events \cup {e}
      /\ v.colls = t.colls /\ v.rows = t.rows /\ v.idem = t.idem
      /\ v.audit = t.audit /\ v.jobs = t.jobs /\ v.hooks = t.hooks
      /\ IsFiniteSet(v.events)
      /\ {x.key : x \in v.events} = keys \cup {key}
      /\ Cardinality(v.events) = Cardinality(keys \cup {key})
      /\ CursorDense(v)
  BY <1>1, EmitEvent
<1>3. /\ DOMAIN t = {"colls", "rows", "idem", "events", "audit", "jobs", "hooks"}
      /\ RowsInv(t) /\ KeysLive(t) /\ JobsInv(t)
      /\ {x.key : x \in t.events} = keys
      /\ {a.key : a \in t.audit} = facts
      /\ \A j \in t.jobs : j.key[1] \in keys
  BY DEF TablesOf, ConsequencesOf, EmptyTables
<1> HIDE DEF v, e
<1>4. /\ DOMAIN w = DOMAIN t
      /\ w.events = v.events
      /\ w.colls = t.colls /\ w.rows = t.rows /\ w.idem = t.idem
      /\ w.jobs = t.jobs /\ w.hooks = t.hooks
      /\ {a.key : a \in w.audit} = more
  <2>1. CASE topic = "record.deleted"
    BY <1>2, <1>3, <2>1
  <2>2. CASE topic # "record.deleted"
    <3>1. w = emitAudit(v, p.rec, key)
      BY <2>2
    <3>2. "audit" \in DOMAIN v
      BY <1>2, <1>3
    <3> HIDE DEF w
    <3>3. /\ DOMAIN w = DOMAIN v
          /\ {a.key : a \in w.audit} = {a.key : a \in v.audit} \cup {key}
          /\ \A f \in DOMAIN v \ {"audit"} : w[f] = v[f]
      BY <3>1, <3>2, EmitAudit
    <3> QED
      BY <1>2, <1>3, <2>2, <3>3
  <2> QED
    BY <2>1, <2>2
<1> HIDE DEF w
<1>5. /\ DOMAIN u = DOMAIN w
      /\ \A f \in DOMAIN w \ {"jobs"} : u[f] = w[f]
      /\ w.jobs \subseteq u.jobs
      /\ \A j \in u.jobs \ w.jobs :
            /\ j.key[1] = key
            /\ DOMAIN j = {"key", "target", "status", "attempts", "avail", "lease"}
      /\ {j.target : j \in {x \in u.jobs : x.key[1] = key}} = Matching(w, topic)
  <2>1. "jobs" \in DOMAIN w /\ \A j \in w.jobs : j.key[1] # key
    BY <1>1, <1>3, <1>4
  <2> QED
    BY <2>1, EnqueueJobs
<1> HIDE DEF u
<1>6. /\ DOMAIN u = DOMAIN t
      /\ u.colls = t.colls /\ u.rows = t.rows /\ u.idem = t.idem /\ u.hooks = t.hooks
      /\ u.events = t.events \cup {e}
      /\ {a.key : a \in u.audit} = more
      /\ t.jobs \subseteq u.jobs
  BY <1>2, <1>3, <1>4, <1>5
<1>7. RowsInv(u) /\ KeysLive(u)
  BY <1>3, <1>6 DEF RowsInv, KeysLive, RowAt, WithId
<1>8. JobsInv(u)
  BY <1>3, <1>4, <1>5 DEF JobsInv
<1>9. IsFiniteSet(u.events) /\ CursorDense(u)
  BY <1>2, <1>6 DEF CursorDense
<1>10. ConsequencesOf(u, keys \cup {key}, more)
  <2>1. \A j \in u.jobs : j.key[1] \in keys \cup {key}
    BY <1>3, <1>4, <1>5
  <2> QED
    BY <1>2, <1>6, <2>1 DEF ConsequencesOf
<1>11. TablesOf(u, keys \cup {key}, more)
  BY <1>3, <1>6, <1>7, <1>8, <1>9, <1>10 DEF TablesOf, EmptyTables
<1>12. ASSUME NEW f \in t.events PROVE Owed(u, f) = Owed(t, f)
  <2>1. f.key # key
    BY <1>1, <1>3
  <2>2. {j \in u.jobs : j.key[1] = f.key} = {j \in t.jobs : j.key[1] = f.key}
    BY <1>4, <1>5, <2>1
  <2> QED
    BY <2>2 DEF Owed
<1>13. Owed(u, e) = Matching(u, e.topic)
  <2>1. e.key = key /\ e.topic = topic
    BY <1>1 DEF e
  <2> QED
    BY <1>4, <1>5, <1>6, <2>1 DEF Owed, Matching
<1>14. OwedByHooks(u, id)
  <2> SUFFICES ASSUME NEW f \in u.events, f.key[1] = id
               PROVE  Owed(u, f) = Matching(u, f.topic)
    BY DEF OwedByHooks
  <2>1. CASE f = e
    BY <1>13, <2>1
  <2>2. CASE f \in t.events
    <3>1. Matching(u, f.topic) = Matching(t, f.topic)
      BY <1>6 DEF Matching
    <3> QED
      BY <1>12, <2>2, <3>1 DEF OwedByHooks
  <2> QED
    BY <1>6, <2>1, <2>2
<1>15. BatchOwed(u)
  <2> SUFFICES ASSUME NEW f \in u.events, NEW g \in u.events,
                      f.key[1] = g.key[1], f.topic = g.topic
               PROVE  Owed(u, f) = Owed(u, g)
    BY DEF BatchOwed
  <2>1. CASE f.key[1] = id
    BY <1>14, <2>1 DEF OwedByHooks
  <2>2. CASE f.key[1] # id
    <3>1. f \in t.events /\ g \in t.events
      BY <1>1, <1>6, <2>2 DEF e
    <3> QED
      BY <1>12, <3>1 DEF BatchOwed
  <2> QED
    BY <2>1, <2>2
<1> QED
  BY <1>0, <1>6, <1>11, <1>14, <1>15 DEF key

-----------------------------------------------------------------------------
(* Records *)

(* No record moves by more than one version, and a new one starts at 1. *)
RowsMove(t, u) ==
    \A w \in u.rows :
        \/ RowAt(t, w.coll, w.rec) = {} /\ w.ver = 1
        \/ \E v \in RowAt(t, w.coll, w.rec) : w.ver = v.ver \/ w.ver = v.ver + 1

(* Records were created, and nothing else. *)
Created(t, u) ==
    /\ t.rows \subseteq u.rows
    /\ \A w \in u.rows \ t.rows : RowAt(t, w.coll, w.rec) = {} /\ w.ver = 1

(* A put writes the one row of its record, at the version after the old one, *)
(* and a keyed create its idempotency row.                                  *)
LEMMA PutRecord ==
    ASSUME NEW t, NEW keys, NEW facts, TablesOf(t, keys, facts), NEW p,
           putRecord(t, p).status = "ok"
    PROVE  LET u == putRecord(t, p).tables
           IN  /\ TablesOf(u, keys, facts)
               /\ u.events = t.events /\ u.jobs = t.jobs /\ u.hooks = t.hooks
               /\ RowsMove(t, u)
               /\ p.ver = 1 => Created(t, u)
<1> DEFINE old == RowAt(t, p.coll, p.rec)
           new == [coll |-> p.coll, rec |-> p.rec, ver |-> p.ver, val |-> p.val]
           row == [coll |-> p.coll, key |-> p.key, rec |-> p.rec]
           idem == IF old = {} /\ p.key # None THEN t.idem \cup {row} ELSE t.idem
           u == [t EXCEPT !.rows = (t.rows \ old) \cup {new}, !.idem = idem]
<1>1. /\ ~\A c \in WithId(t, p.coll) : c.shape = "empty"
      /\ ~VersionConflict(old, p)
      /\ ~(old = {} /\ p.key # None /\ KeyTaken(t, p))
      /\ putRecord(t, p).tables = u
  BY DEF putRecord, Fatal, Conflict, Ok
<1>2. /\ DOMAIN t = {"colls", "rows", "idem", "events", "audit", "jobs", "hooks"}
      /\ RowsInv(t) /\ KeysLive(t) /\ JobsInv(t)
      /\ IsFiniteSet(t.events) /\ CursorDense(t) /\ ConsequencesOf(t, keys, facts)
  BY DEF TablesOf, EmptyTables
<1>3. /\ WithId(t, p.coll) # {}
      /\ old = {} => p.ver = 1
      /\ \A w \in old : p.ver = w.ver + 1
      /\ old = {} /\ p.key # None => \A i \in t.idem : ~(i.coll = p.coll /\ i.key = p.key)
  BY <1>1 DEF VersionConflict, KeyTaken
<1>4. /\ DOMAIN u = DOMAIN t
      /\ u.rows = (t.rows \ old) \cup {new}
      /\ u.idem = idem
      /\ u.colls = t.colls /\ u.events = t.events /\ u.audit = t.audit
      /\ u.jobs = t.jobs /\ u.hooks = t.hooks
  BY <1>2
<1>5. /\ new.coll = p.coll /\ new.rec = p.rec /\ new.ver = p.ver
      /\ new = [coll |-> new.coll, rec |-> new.rec, ver |-> new.ver, val |-> new.val]
      /\ row.coll = p.coll /\ row.rec = p.rec /\ row.key = p.key
  OBVIOUS
<1> HIDE DEF u, new, row
<1>6. p.ver \in Nat \ {0}
  <2>1. CASE old = {}
    BY <1>3, <2>1
  <2>2. CASE old # {}
    <3>1. PICK w \in old : TRUE
      BY <2>2
    <3>2. w.ver \in Nat \ {0}
      BY <1>2 DEF RowsInv, RowAt
    <3> QED
      BY <1>3, <3>2
  <2> QED
    BY <2>1, <2>2
<1>7. RowsInv(u)
  <2>1. ASSUME NEW w \in u.rows
        PROVE  /\ w = [coll |-> w.coll, rec |-> w.rec, ver |-> w.ver, val |-> w.val]
               /\ w.ver \in Nat \ {0}
               /\ WithId(u, w.coll) # {}
    <3>1. CASE w = new
      BY <1>3, <1>4, <1>5, <1>6, <3>1 DEF WithId
    <3>2. CASE w \in t.rows
      BY <1>2, <1>4, <3>2 DEF RowsInv, WithId
    <3> QED
      BY <1>4, <3>1, <3>2
  <2>2. ASSUME NEW v \in u.rows, NEW w \in u.rows, v.coll = w.coll, v.rec = w.rec
        PROVE  v = w
    BY <1>2, <1>4, <1>5, <2>2 DEF RowsInv, RowAt
  <2> QED
    BY <2>1, <2>2 DEF RowsInv
<1>8. KeysLive(u)
  <2>1. ASSUME NEW c, NEW rec, RowAt(t, c, rec) # {} PROVE RowAt(u, c, rec) # {}
    <3>1. PICK w \in t.rows : w.coll = c /\ w.rec = rec
      BY <2>1 DEF RowAt
    <3>2. CASE w \in old
      BY <1>4, <1>5, <3>1, <3>2 DEF RowAt
    <3>3. CASE w \notin old
      BY <1>4, <3>1, <3>3 DEF RowAt
    <3> QED
      BY <3>2, <3>3
  <2>2. RowAt(u, row.coll, row.rec) # {} /\ WithId(u, row.coll) # {}
    BY <1>3, <1>4, <1>5 DEF RowAt, WithId
  <2>3. ASSUME NEW i \in u.idem
        PROVE  RowAt(u, i.coll, i.rec) # {} /\ WithId(u, i.coll) # {}
    <3>1. CASE i \in t.idem
      <4>1. RowAt(t, i.coll, i.rec) # {} /\ WithId(t, i.coll) # {}
        BY <1>2, <3>1 DEF KeysLive
      <4> QED
        BY <1>4, <2>1, <4>1 DEF WithId
    <3>2. CASE i = row
      BY <2>2, <3>2
    <3> QED
      BY <1>4, <3>1, <3>2
  <2>4. ASSUME NEW i \in u.idem, NEW k \in u.idem, k.coll = i.coll, k.key = i.key
        PROVE  k = i
    <3>1. CASE i \in t.idem /\ k \in t.idem
      BY <1>2, <2>4, <3>1 DEF KeysLive
    <3>2. CASE i \notin t.idem \/ k \notin t.idem
      BY <1>3, <1>4, <1>5, <2>4, <3>2
    <3> QED
      BY <3>1, <3>2
  <2> QED
    BY <2>3, <2>4 DEF KeysLive
<1>9. TablesOf(u, keys, facts)
  <2>1. JobsInv(u) /\ IsFiniteSet(u.events) /\ CursorDense(u) /\ ConsequencesOf(u, keys, facts)
    BY <1>2, <1>4 DEF JobsInv, CursorDense, ConsequencesOf
  <2> QED
    BY <1>2, <1>4, <1>7, <1>8, <2>1 DEF TablesOf, EmptyTables
<1>10. RowsMove(t, u)
  <2> SUFFICES ASSUME NEW w \in u.rows
               PROVE  \/ RowAt(t, w.coll, w.rec) = {} /\ w.ver = 1
                      \/ \E v \in RowAt(t, w.coll, w.rec) : w.ver = v.ver \/ w.ver = v.ver + 1
    BY DEF RowsMove
  <2>1. CASE w \in t.rows
    BY <2>1 DEF RowAt
  <2>2. CASE w = new /\ old = {}
    BY <1>3, <1>5, <2>2
  <2>3. CASE w = new /\ old # {}
    BY <1>3, <1>5, <2>3
  <2> QED
    BY <1>4, <2>1, <2>2, <2>3
<1>11. ASSUME p.ver = 1 PROVE Created(t, u)
  <2>1. old = {}
    <3> SUFFICES ASSUME NEW w \in old PROVE FALSE
      OBVIOUS
    <3>1. w.ver \in Nat \ {0} /\ p.ver = w.ver + 1
      BY <1>2, <1>3 DEF RowsInv, RowAt
    <3> QED
      BY <1>11, <3>1
  <2> QED
    BY <1>4, <1>5, <1>11, <2>1 DEF Created
<1> QED
  BY <1>1, <1>4, <1>9, <1>10, <1>11

(* What is owed depends on the events, the jobs and the hooks only. *)
LEMMA OwedSame ==
    ASSUME NEW t, NEW v, NEW id, v.events = t.events, v.jobs = t.jobs, v.hooks = t.hooks,
           BatchOwed(t), OwedByHooks(t, id)
    PROVE  BatchOwed(v) /\ OwedByHooks(v, id)
<1>1. \A e : Owed(v, e) = Owed(t, e)
  BY DEF Owed
<1>2. \A topic : Matching(v, topic) = Matching(t, topic)
  BY DEF Matching
<1>3. BatchOwed(v)
  BY <1>1 DEF BatchOwed
<1>4. OwedByHooks(v, id)
  BY <1>1, <1>2 DEF OwedByHooks
<1> QED
  BY <1>3, <1>4

(* Tables in the middle of operation id, whose first keys are written. *)
Midway(t, keys, facts, id) ==
    TablesOf(t, keys, facts) /\ BatchOwed(t) /\ OwedByHooks(t, id)

(* One record of a batch: the put and its consequences. *)
LEMMA RecordPut ==
    ASSUME NEW t, NEW keys, NEW facts, NEW id, Midway(t, keys, facts, id),
           NEW p, NEW i, NEW occurred, <<id, i>> \notin keys,
           applyRecordPut(t, p, <<id, i>>, occurred).status = "ok"
    PROVE  LET u == applyRecordPut(t, p, <<id, i>>, occurred).tables
           IN  /\ Midway(u, keys \cup {<<id, i>>}, facts \cup {<<id, i>>}, id)
               /\ t.events \subseteq u.events
               /\ t.jobs \subseteq u.jobs
               /\ RowsMove(t, u)
               /\ p.ver = 1 => Created(t, u)
<1> DEFINE v == putRecord(t, p).tables
           u == emitRecordConsequences(v, PutTopic(p), p, <<id, i>>, occurred)
<1>1. /\ putRecord(t, p).status = "ok"
      /\ applyRecordPut(t, p, <<id, i>>, occurred).tables = u
  BY DEF applyRecordPut, Ok
<1>2. /\ TablesOf(v, keys, facts)
      /\ v.events = t.events /\ v.jobs = t.jobs /\ v.hooks = t.hooks
      /\ RowsMove(t, v)
      /\ p.ver = 1 => Created(t, v)
  BY <1>1, PutRecord DEF Midway
<1> HIDE DEF v
<1>3. BatchOwed(v) /\ OwedByHooks(v, id)
  BY <1>2, OwedSame DEF Midway
<1>4. PutTopic(p) # "record.deleted"
  BY DEF PutTopic
<1>5. /\ TablesOf(u, keys \cup {<<id, i>>}, facts \cup {<<id, i>>})
      /\ BatchOwed(u)
      /\ OwedByHooks(u, id)
      /\ u.rows = v.rows
      /\ v.events \subseteq u.events
      /\ v.jobs \subseteq u.jobs
  <2>1. PICK topic : topic = PutTopic(p)
    OBVIOUS
  <2> DEFINE x == emitRecordConsequences(v, topic, p, <<id, i>>, occurred)
             more == IF topic = "record.deleted" THEN facts ELSE facts \cup {<<id, i>>}
  <2>2. /\ TablesOf(x, keys \cup {<<id, i>>}, more)
        /\ BatchOwed(x)
        /\ OwedByHooks(x, id)
        /\ x.rows = v.rows
        /\ v.events \subseteq x.events
        /\ v.jobs \subseteq x.jobs
    <3>1. TablesOf(v, keys, facts) /\ <<id, i>> \notin keys
      BY <1>2
    <3> QED
      BY ONLY <1>3, <3>1, EmitConsequences
  <2>3. more = facts \cup {<<id, i>>}
    BY <1>4, <2>1
  <2> QED
    BY <2>1, <2>2, <2>3
<1> HIDE DEF u
<1> QED
  BY <1>1, <1>2, <1>5 DEF Midway, RowsMove, Created

(* A delete removes the row of its record and the keys that led to it. *)
LEMMA DeleteRecord ==
    ASSUME NEW t, NEW keys, NEW facts, TablesOf(t, keys, facts), NEW p,
           deleteRecord(t, p).status = "ok"
    PROVE  LET u == deleteRecord(t, p).tables
           IN  /\ TablesOf(u, keys, facts)
               /\ u.events = t.events /\ u.jobs = t.jobs /\ u.hooks = t.hooks
               /\ u.rows \subseteq t.rows
<1> DEFINE old == RowAt(t, p.coll, p.rec)
           v == [t EXCEPT !.rows = t.rows \ old, !.idem = KeysAfter(t, p)]
           u == deleteRecord(t, p).tables
<1>1. u = t \/ u = v
  BY DEF deleteRecord, Fatal, Conflict, Ok
<1>2. CASE u = t
  BY <1>2
<1>3. CASE u = v
  <2>1. /\ DOMAIN t = {"colls", "rows", "idem", "events", "audit", "jobs", "hooks"}
        /\ RowsInv(t) /\ KeysLive(t) /\ JobsInv(t)
        /\ IsFiniteSet(t.events) /\ CursorDense(t) /\ ConsequencesOf(t, keys, facts)
    BY DEF TablesOf, EmptyTables
  <2>2. /\ DOMAIN v = DOMAIN t
        /\ v.rows = t.rows \ old
        /\ v.idem = KeysAfter(t, p)
        /\ v.colls = t.colls /\ v.events = t.events /\ v.audit = t.audit
        /\ v.jobs = t.jobs /\ v.hooks = t.hooks
    BY <2>1
  <2> HIDE DEF v
  <2>3. RowsInv(v)
    BY <2>1, <2>2 DEF RowsInv, WithId
  <2>4. KeysLive(v)
    <3>1. ASSUME NEW i \in v.idem
          PROVE  RowAt(v, i.coll, i.rec) # {} /\ WithId(v, i.coll) # {}
      <4>1. i \in t.idem /\ (i.coll # p.coll \/ i.rec # p.rec)
        BY <2>2 DEF KeysAfter
      <4>2. RowAt(t, i.coll, i.rec) # {} /\ WithId(t, i.coll) # {}
        BY <2>1, <4>1 DEF KeysLive
      <4> QED
        BY <2>2, <4>1, <4>2 DEF RowAt, WithId
    <3> QED
      BY <2>1, <2>2, <3>1 DEF KeysLive, KeysAfter
  <2>5. JobsInv(v) /\ IsFiniteSet(v.events) /\ CursorDense(v) /\ ConsequencesOf(v, keys, facts)
    BY <2>1, <2>2 DEF JobsInv, CursorDense, ConsequencesOf
  <2>6. TablesOf(v, keys, facts)
    BY <2>1, <2>2, <2>3, <2>4, <2>5 DEF TablesOf, EmptyTables
  <2> HIDE DEF u
  <2>7. v.rows \subseteq t.rows
    BY <2>2
  <2> QED
    BY <1>3, <2>2, <2>6, <2>7 DEF u
<1> QED
  BY <1>1, <1>2, <1>3

(* The delete and its event, which has no audit fact. *)
LEMMA RecordDelete ==
    ASSUME NEW t, NEW keys, NEW facts, NEW op, Midway(t, keys, facts, op.id),
           <<op.id, 1>> \notin keys, applyRecordDelete(t, op).status = "ok"
    PROVE  LET u == applyRecordDelete(t, op).tables
           IN  /\ TablesOf(u, keys \cup {<<op.id, 1>>}, facts) /\ BatchOwed(u)
               /\ t.events \subseteq u.events
               /\ t.jobs \subseteq u.jobs
               /\ u.rows \subseteq t.rows
<1> DEFINE v == deleteRecord(t, op.put).tables
           u == emitRecordConsequences(v, "record.deleted", op.put, <<op.id, 1>>, op.occurred)
<1>1. /\ deleteRecord(t, op.put).status = "ok"
      /\ applyRecordDelete(t, op).tables = u
  BY DEF applyRecordDelete, Ok
<1>2. /\ TablesOf(v, keys, facts)
      /\ v.events = t.events /\ v.jobs = t.jobs /\ v.hooks = t.hooks
      /\ v.rows \subseteq t.rows
  BY <1>1, DeleteRecord DEF Midway
<1> HIDE DEF v
<1>3. BatchOwed(v) /\ OwedByHooks(v, op.id)
  BY <1>2, OwedSame DEF Midway
<1>4. PICK topic, p, id, i, occurred :
        /\ topic = "record.deleted" /\ p = op.put
        /\ id = op.id /\ i = 1 /\ occurred = op.occurred
  OBVIOUS
<1>5. /\ TablesOf(u, keys \cup {<<op.id, 1>>}, facts)
      /\ BatchOwed(u)
      /\ u.rows = v.rows
      /\ v.events \subseteq u.events
      /\ v.jobs \subseteq u.jobs
  <2> DEFINE x == emitRecordConsequences(v, topic, p, <<id, i>>, occurred)
             more == IF topic = "record.deleted" THEN facts ELSE facts \cup {<<id, i>>}
  <2>1. /\ TablesOf(x, keys \cup {<<id, i>>}, more)
        /\ BatchOwed(x)
        /\ OwedByHooks(x, id)
        /\ x.rows = v.rows
        /\ v.events \subseteq x.events
        /\ v.jobs \subseteq x.jobs
    <3>1. TablesOf(v, keys, facts) /\ <<id, i>> \notin keys
      BY <1>2, <1>4
    <3>2. BatchOwed(v) /\ OwedByHooks(v, id)
      BY <1>3, <1>4
    <3> QED
      BY ONLY <3>1, <3>2, EmitConsequences
  <2>2. more = facts
    BY <1>4
  <2>3. x = u /\ <<id, i>> = <<op.id, 1>>
    BY <1>4
  <2> HIDE DEF x, u, more
  <2> QED
    BY <2>1, <2>2, <2>3
<1> HIDE DEF u
<1> QED
  BY <1>1, <1>2, <1>5

-----------------------------------------------------------------------------
(* A batch: the chain of its puts *)

(* A set of numbers with 0 that is closed under successor is all of Nat. *)
LEMMA InductionOnNat ==
    ASSUME NEW A, A \subseteq Nat, 0 \in A, \A n \in A : n + 1 \in A
    PROVE  A = Nat
<1> SUFFICES ASSUME Nat \ A # {} PROVE FALSE
  OBVIOUS
<1> DEFINE rest == Nat \ A
<1>1. PICK m \in rest : \A k \in rest : ~(<<k, m>> \in OpToRel(<, Nat))
  <2>1. rest \subseteq Nat /\ rest # {}
    OBVIOUS
  <2> HIDE DEF rest
  <2> QED
    BY <2>1, WFMin, NatLessThanWellFounded
<1>2. m - 1 \in Nat /\ m - 1 < m /\ (m - 1) + 1 = m
  OBVIOUS
<1>3. m - 1 \in A
  BY <1>1, <1>2 DEF OpToRel
<1> QED
  BY <1>2, <1>3

(* The state of the batch after its i-th put, from the one before. *)
BatchStep(op, prev, i) ==
    IF prev.status = "ok"
    THEN applyRecordPut(prev.tables, op.puts[i], <<op.id, i>>, op.occurred)
    ELSE prev

Chain(g, t, op, n) ==
    g[0] = Ok(t) /\ \A i \in 1..n : g[i] = BatchStep(op, g[i - 1], i)

(* Every prefix of a batch has a chain of states. *)
LEMMA ChainExists ==
    ASSUME NEW t, NEW op
    PROVE  \A n \in Nat : \E g : Chain(g, t, op, n)
<1> DEFINE A == {n \in Nat : \E g : Chain(g, t, op, n)}
<1>1. 0 \in A
  <2> DEFINE g == [i \in {0} |-> Ok(t)]
  <2>1. g[0] = Ok(t)
    OBVIOUS
  <2>2. Chain(g, t, op, 0)
    BY <2>1 DEF Chain
  <2> QED
    BY <2>2
<1>2. ASSUME NEW n \in A PROVE n + 1 \in A
  <2>1. n \in Nat /\ \E g : Chain(g, t, op, n)
    OBVIOUS
  <2>2. PICK g : Chain(g, t, op, n)
    BY <2>1
  <2> DEFINE h == [i \in 0..(n + 1) |-> IF i <= n THEN g[i] ELSE BatchStep(op, g[n], n + 1)]
  <2>3. h[0] = Ok(t)
    BY <2>1, <2>2 DEF Chain
  <2>4. ASSUME NEW i \in 1..(n + 1) PROVE h[i] = BatchStep(op, h[i - 1], i)
    <3>1. i - 1 \in 0..n /\ i \in 0..(n + 1) /\ h[i - 1] = g[i - 1]
      BY <2>1
    <3>2. CASE i <= n
      <4>1. i \in 1..n /\ h[i] = g[i]
        BY <2>1, <3>1, <3>2
      <4> QED
        BY <2>2, <3>1, <4>1 DEF Chain
    <3>3. CASE ~(i <= n)
      <4>1. i = n + 1 /\ i - 1 = n
        BY <2>1, <3>3
      <4>2. h[i] = BatchStep(op, g[n], i)
        BY <3>1, <3>3, <4>1
      <4> QED
        BY <3>1, <4>1, <4>2
    <3> QED
      BY <3>2, <3>3
  <2>5. Chain(h, t, op, n + 1)
    <3> HIDE DEF h
    <3> QED
      BY <2>3, <2>4 DEF Chain
  <2> HIDE DEF h
  <2> QED
    BY <2>1, <2>5
<1>3. A = Nat
  <2> HIDE DEF A
  <2>1. A \subseteq Nat
    BY DEF A
  <2> QED
    BY <1>1, <1>2, <2>1, InductionOnNat
<1> QED
  BY <1>3

(* applyRecordBatch runs that chain and takes its last state, or rolls back. *)
LEMMA BatchAsChain ==
    ASSUME NEW t, NEW op, Len(op.puts) \in Nat
    PROVE  \E g : /\ Chain(g, t, op, Len(op.puts))
                  /\ applyRecordBatch(t, op) =
                       [g[Len(op.puts)] EXCEPT !.tables =
                          IF g[Len(op.puts)].status = "ok" THEN g[Len(op.puts)].tables ELSE t]
<1> DEFINE n == Len(op.puts)
           Eq(g) == g = [i \in 0..n |->
                          IF i = 0 THEN Ok(t)
                          ELSE IF g[i - 1].status = "ok"
                               THEN applyRecordPut(g[i - 1].tables, op.puts[i],
                                                   <<op.id, i>>, op.occurred)
                               ELSE g[i - 1]]
           done == CHOOSE g : Eq(g)
<1>1. PICK f : Chain(f, t, op, n)
  BY ChainExists
<1> DEFINE R == [i \in 0..n |-> f[i]]
<1>2. Eq(R)
  <2>1. ASSUME NEW i \in 0..n
        PROVE  f[i] = IF i = 0 THEN Ok(t)
                      ELSE IF R[i - 1].status = "ok"
                           THEN applyRecordPut(R[i - 1].tables, op.puts[i],
                                               <<op.id, i>>, op.occurred)
                           ELSE R[i - 1]
    <3>1. CASE i = 0
      BY <1>1, <3>1 DEF Chain
    <3>2. CASE i # 0
      <4>1. i \in 1..n /\ i - 1 \in 0..n
        BY <3>2
      <4>2. R[i - 1] = f[i - 1]
        BY <4>1
      <4>3. f[i] = BatchStep(op, f[i - 1], i)
        BY <1>1, <4>1 DEF Chain
      <4> HIDE DEF R
      <4> QED
        BY <3>2, <4>2, <4>3 DEF BatchStep
    <3> QED
      BY <3>1, <3>2
  <2> QED
    BY <2>1
<1>3. Eq(done)
  <2> HIDE DEF R
  <2> QED
    BY <1>2
<1>4. applyRecordBatch(t, op) =
        [done[n] EXCEPT !.tables = IF done[n].status = "ok" THEN done[n].tables ELSE t]
  BY DEF applyRecordBatch
<1>5. Chain(done, t, op, n)
  <2> HIDE DEF done
  <2>1. done[0] = Ok(t)
    BY <1>3
  <2>2. ASSUME NEW i \in 1..n PROVE done[i] = BatchStep(op, done[i - 1], i)
    BY <1>3 DEF BatchStep
  <2> QED
    BY <2>1, <2>2 DEF Chain
<1> HIDE DEF done
<1> QED
  BY <1>4, <1>5

(* The outcome of a put is a status and tables. *)
LEMMA PutOutcome ==
    ASSUME NEW t, NEW p, NEW key, NEW occurred
    PROVE  DOMAIN applyRecordPut(t, p, key, occurred) = {"status", "tables"}
<1>1. DOMAIN putRecord(t, p) = {"status", "tables"}
  BY DEF putRecord, Fatal, Conflict, Ok
<1> QED
  BY <1>1 DEF applyRecordPut, Ok

(* What was created twice was created. *)
LEMMA CreatedTwice ==
    ASSUME NEW t, NEW v, NEW u, Created(t, v), Created(v, u)
    PROVE  Created(t, u)
BY DEF Created, RowAt

(* Creation moves no record that was there. *)
LEMMA CreatedMoves ==
    ASSUME NEW t, NEW u, Created(t, u)
    PROVE  RowsMove(t, u)
BY DEF Created, RowsMove, RowAt

(* The dedup keys of the first n records of operation id. *)
Up(id, n) == {<<id, i>> : i \in 1..n}

(* They grow by one new key per record. *)
LEMMA UpStep ==
    ASSUME NEW id, NEW n \in Nat
    PROVE  /\ Up(id, 0) = {}
           /\ Up(id, n + 1) = Up(id, n) \cup {<<id, n + 1>>}
           /\ <<id, n + 1>> \notin Up(id, n)
<1>1. Up(id, 0) = {}
  BY DEF Up
<1>2. 1..(n + 1) = (1..n) \cup {n + 1} /\ n + 1 \notin 1..n
  OBVIOUS
<1>3. Up(id, n + 1) = Up(id, n) \cup {<<id, n + 1>>}
  BY <1>2 DEF Up
<1>4. <<id, n + 1>> \notin Up(id, n)
  <2> SUFFICES ASSUME NEW i \in 1..n, <<id, i>> = <<id, n + 1>> PROVE FALSE
    BY DEF Up
  <2>1. <<id, i>>[2] = i /\ <<id, n + 1>>[2] = n + 1
    OBVIOUS
  <2> QED
    BY <1>2, <2>1
<1> QED
  BY <1>1, <1>3, <1>4

(* A whole batch: every record has its consequences under a key of its own.  *)
LEMMA RecordBatch ==
    ASSUME NEW t, NEW keys, NEW facts, NEW op, Midway(t, keys, facts, op.id),
           Len(op.puts) \in Nat, \A i : <<op.id, i>> \notin keys,
           Len(op.puts) > 1 => \A i \in 1..Len(op.puts) : op.puts[i].ver = 1,
           applyRecordBatch(t, op).status = "ok"
    PROVE  LET u == applyRecordBatch(t, op).tables
               up == Up(op.id, Len(op.puts))
           IN  /\ TablesOf(u, keys \cup up, facts \cup up) /\ BatchOwed(u)
               /\ t.events \subseteq u.events
               /\ t.jobs \subseteq u.jobs
               /\ RowsMove(t, u)
<1> DEFINE n == Len(op.puts)
           id == op.id
           up(i) == Up(id, i)
<1>1. PICK g : /\ Chain(g, t, op, n)
               /\ applyRecordBatch(t, op) =
                    [g[n] EXCEPT !.tables = IF g[n].status = "ok" THEN g[n].tables ELSE t]
  BY BatchAsChain
<1> DEFINE Good(u, i) == /\ Midway(u, keys \cup up(i), facts \cup up(i), id)
                         /\ t.events \subseteq u.events
                         /\ t.jobs \subseteq u.jobs
                         /\ RowsMove(t, u)
                         /\ n > 1 => Created(t, u)
           Fine(i) == /\ DOMAIN g[i] = {"status", "tables"}
                      /\ g[i].status = "ok" => Good(g[i].tables, i)
           A == {i \in Nat : i <= n => Fine(i)}
<1>2. 0 \in A
  <2>1. g[0] = Ok(t)
    BY <1>1 DEF Chain
  <2>2. DOMAIN g[0] = {"status", "tables"} /\ g[0].tables = t
    BY <2>1 DEF Ok
  <2>3. up(0) = {}
    BY UpStep
  <2>4. Created(t, t)
    BY DEF Created
  <2>5. RowsMove(t, t)
    BY <2>4, CreatedMoves
  <2>6. Good(t, 0)
    BY <2>3, <2>4, <2>5
  <2> HIDE DEF Good
  <2> QED
    BY <2>2, <2>6
<1>3. ASSUME NEW i \in A PROVE i + 1 \in A
  <2>1. i \in Nat /\ i + 1 \in Nat
    OBVIOUS
  <2> SUFFICES ASSUME i + 1 <= n PROVE Fine(i + 1)
    BY <2>1
  <2>2. Fine(i) /\ i + 1 \in 1..n /\ (i + 1) - 1 = i
    BY <2>1
  <2>3. g[i + 1] = BatchStep(op, g[i], i + 1)
    BY <1>1, <2>2 DEF Chain
  <2>4. CASE g[i].status # "ok"
    <3>1. g[i + 1] = g[i]
      BY <2>3, <2>4 DEF BatchStep
    <3> HIDE DEF Good
    <3> QED
      BY <2>2, <2>4, <3>1
  <2>5. CASE g[i].status = "ok"
    <3> DEFINE v == g[i].tables
    <3>1. PICK k, p, occurred : k = i + 1 /\ p = op.puts[i + 1] /\ occurred = op.occurred
      OBVIOUS
    <3> DEFINE res == applyRecordPut(v, p, <<id, k>>, occurred)
    <3>2. g[i + 1] = res
      BY <2>3, <2>5, <3>1 DEF BatchStep
    <3>3. Good(v, i)
      BY <2>2, <2>5
    <3>4. DOMAIN res = {"status", "tables"}
      BY PutOutcome
    <3>5. ASSUME res.status = "ok" PROVE Good(res.tables, i + 1)
      <4>1. <<id, k>> \notin keys \cup up(i)
        BY <2>1, <3>1, UpStep
      <4>2. /\ Midway(res.tables, (keys \cup up(i)) \cup {<<id, k>>},
                      (facts \cup up(i)) \cup {<<id, k>>}, id)
            /\ v.events \subseteq res.tables.events
            /\ v.jobs \subseteq res.tables.jobs
            /\ RowsMove(v, res.tables)
            /\ p.ver = 1 => Created(v, res.tables)
        <5> HIDE DEF v, up, id
        <5>1. Midway(v, keys \cup up(i), facts \cup up(i), id)
          BY <3>3
        <5> HIDE DEF Good
        <5> QED
          BY <3>5, <4>1, <5>1, RecordPut
      <4>3. up(i + 1) = up(i) \cup {<<id, k>>}
        BY <2>1, <3>1, UpStep
      <4> HIDE DEF res
      <4>4. CASE n > 1
        <5>1. p.ver = 1
          BY <2>2, <3>1, <4>4
        <5>2. Created(t, res.tables)
          BY <3>3, <4>2, <4>4, <5>1, CreatedTwice
        <5>3. RowsMove(t, res.tables)
          BY <5>2, CreatedMoves
        <5>4. Midway(res.tables, keys \cup up(i + 1), facts \cup up(i + 1), id)
          <6> HIDE DEF up
          <6>1. /\ (keys \cup up(i)) \cup {<<id, k>>} = keys \cup up(i + 1)
                /\ (facts \cup up(i)) \cup {<<id, k>>} = facts \cup up(i + 1)
            BY <4>3
          <6> QED
            BY <4>2, <6>1
        <5> QED
          BY <3>3, <4>2, <5>2, <5>3, <5>4
      <4>5. CASE ~(n > 1)
        <5>1. i = 0
          BY <2>1, <2>2, <4>5
        <5>2. v = t
          BY <1>1, <5>1 DEF Chain, Ok
        <5>3. RowsMove(t, res.tables)
          BY <4>2, <5>2
        <5>4. Midway(res.tables, keys \cup up(i + 1), facts \cup up(i + 1), id)
          <6> HIDE DEF up
          <6>1. /\ (keys \cup up(i)) \cup {<<id, k>>} = keys \cup up(i + 1)
                /\ (facts \cup up(i)) \cup {<<id, k>>} = facts \cup up(i + 1)
            BY <4>3
          <6> QED
            BY <4>2, <6>1
        <5> QED
          BY <3>3, <4>2, <4>5, <5>3, <5>4
      <4> QED
        BY <4>4, <4>5
    <3> HIDE DEF Good, res
    <3> QED
      BY <3>2, <3>4, <3>5
  <2> QED
    BY <2>4, <2>5
<1>4. A = Nat
  <2> HIDE DEF A
  <2>1. A \subseteq Nat
    BY DEF A
  <2> QED
    BY <1>2, <1>3, <2>1, InductionOnNat
<1>5. Fine(n)
  <2> HIDE DEF Fine
  <2>1. n \in A /\ n <= n
    BY <1>4
  <2> QED
    BY <2>1
<1>6. g[n].status = "ok" /\ applyRecordBatch(t, op).tables = g[n].tables
  <2> HIDE DEF Good
  <2>1. DOMAIN g[n] = {"status", "tables"}
    BY <1>5
  <2> QED
    BY <1>1, <2>1
<1>7. Good(g[n].tables, n)
  BY <1>5, <1>6
<1> QED
  BY <1>6, <1>7 DEF Midway

-----------------------------------------------------------------------------
(* Collections, definitions and jobs *)

(* Only the collections, the rows and the idempotency keys may change here. *)
LEMMA CollectionsOnly ==
    ASSUME NEW t, NEW keys, NEW facts, TablesOf(t, keys, facts), NEW u,
           DOMAIN u = DOMAIN t, u.events = t.events, u.audit = t.audit,
           u.jobs = t.jobs, RowsInv(u), KeysLive(u)
    PROVE  TablesOf(u, keys, facts)
BY DEF TablesOf, JobsInv, CursorDense, ConsequencesOf

(* A new collection, or one whose table is rebuilt: every row stays, at its  *)
(* version.                                                                 *)
LEMMA CollectionPut ==
    ASSUME NEW t, NEW keys, NEW facts, TablesOf(t, keys, facts), NEW def,
           applyCollection(t, def).status = "ok"
    PROVE  LET u == applyCollection(t, def).tables
           IN  /\ TablesOf(u, keys, facts)
               /\ u.events = t.events /\ u.jobs = t.jobs /\ u.hooks = t.hooks
               /\ RowsMove(t, u)
<1> DEFINE u == applyCollection(t, def).tables
           same == Named(t, def.name)
           cp(w) == IF w.coll = def.id /\ def.shape = "empty"
                    THEN [w EXCEPT !.val = None] ELSE w
           a == [t EXCEPT !.colls = t.colls \cup {def}]
           b == [t EXCEPT !.colls = (t.colls \ same) \cup {def}]
           c == [b EXCEPT !.rows = {cp(w) : w \in b.rows}]
<1>1. /\ DOMAIN t = {"colls", "rows", "idem", "events", "audit", "jobs", "hooks"}
      /\ RowsInv(t) /\ KeysLive(t)
  BY DEF TablesOf, EmptyTables
<1>2. u = a \/ (u = c /\ \A x \in same : x.id = def.id)
  BY DEF applyCollection, RebuildPhysicalTx, Fatal, Conflict, Ok
<1>3. CASE u = a
  <2>1. /\ DOMAIN u = DOMAIN t /\ u.colls = t.colls \cup {def} /\ u.rows = t.rows
        /\ u.idem = t.idem /\ u.events = t.events /\ u.audit = t.audit
        /\ u.jobs = t.jobs /\ u.hooks = t.hooks
    BY <1>1, <1>3
  <2> HIDE DEF u
  <2>2. RowsInv(u) /\ KeysLive(u)
    BY <1>1, <2>1 DEF RowsInv, KeysLive, RowAt, WithId
  <2>3. TablesOf(u, keys, facts)
    BY <2>1, <2>2, CollectionsOnly
  <2>4. RowsMove(t, u)
    BY <2>1 DEF RowsMove, RowAt
  <2> QED
    BY <2>1, <2>3, <2>4 DEF u
<1>4. CASE u = c /\ \A x \in same : x.id = def.id
  <2>1. /\ DOMAIN b = DOMAIN t /\ b.colls = (t.colls \ same) \cup {def} /\ b.rows = t.rows
        /\ b.idem = t.idem /\ b.events = t.events /\ b.audit = t.audit
        /\ b.jobs = t.jobs /\ b.hooks = t.hooks
    BY <1>1
  <2> HIDE DEF b
  <2>2. /\ DOMAIN u = DOMAIN t /\ u.colls = (t.colls \ same) \cup {def}
        /\ u.rows = {cp(w) : w \in t.rows}
        /\ u.idem = t.idem /\ u.events = t.events /\ u.audit = t.audit
        /\ u.jobs = t.jobs /\ u.hooks = t.hooks
    BY <1>1, <1>4, <2>1
  <2> HIDE DEF u
  <2>3. ASSUME NEW w \in t.rows
        PROVE  /\ cp(w) = [coll |-> w.coll, rec |-> w.rec, ver |-> w.ver, val |-> cp(w).val]
               /\ cp(w).coll = w.coll /\ cp(w).rec = w.rec /\ cp(w).ver = w.ver
    <3>1. w = [coll |-> w.coll, rec |-> w.rec, ver |-> w.ver, val |-> w.val]
      BY <1>1 DEF RowsInv
    <3> QED
      BY <3>1
  <2>4. ASSUME NEW x, WithId(t, x) # {} PROVE WithId(u, x) # {}
    <3>1. PICK d \in t.colls : d.id = x
      BY <2>4 DEF WithId
    <3>2. CASE d \in same
      BY <1>4, <2>2, <3>1, <3>2 DEF WithId
    <3>3. CASE d \notin same
      BY <2>2, <3>1, <3>3 DEF WithId
    <3> QED
      BY <3>2, <3>3
  <2> HIDE DEF cp
  <2>5. RowsInv(u)
    <3>1. ASSUME NEW w \in u.rows
          PROVE  /\ w = [coll |-> w.coll, rec |-> w.rec, ver |-> w.ver, val |-> w.val]
                 /\ w.ver \in Nat \ {0}
                 /\ WithId(u, w.coll) # {}
      <4>1. PICK v \in t.rows : w = cp(v)
        BY <2>2
      <4>2. v.ver \in Nat \ {0} /\ WithId(t, v.coll) # {}
        BY <1>1 DEF RowsInv
      <4> QED
        BY <2>3, <2>4, <4>1, <4>2
    <3>2. ASSUME NEW w \in u.rows, NEW x \in u.rows, w.coll = x.coll, w.rec = x.rec
          PROVE  w = x
      <4>1. PICK v \in t.rows, y \in t.rows : w = cp(v) /\ x = cp(y)
        BY <2>2
      <4>2. v = y
        BY <1>1, <2>3, <3>2, <4>1 DEF RowsInv
      <4> QED
        BY <4>1, <4>2
    <3> QED
      BY <3>1, <3>2 DEF RowsInv
  <2>6. KeysLive(u)
    <3>1. ASSUME NEW i \in u.idem
          PROVE  RowAt(u, i.coll, i.rec) # {} /\ WithId(u, i.coll) # {}
      <4>1. RowAt(t, i.coll, i.rec) # {} /\ WithId(t, i.coll) # {}
        BY <1>1, <2>2 DEF KeysLive
      <4>2. PICK w \in t.rows : w.coll = i.coll /\ w.rec = i.rec
        BY <4>1 DEF RowAt
      <4>3. cp(w) \in u.rows /\ cp(w).coll = i.coll /\ cp(w).rec = i.rec
        BY <2>2, <2>3, <4>2
      <4> QED
        BY <2>4, <4>1, <4>3 DEF RowAt
    <3> QED
      BY <1>1, <2>2, <3>1 DEF KeysLive
  <2>7. TablesOf(u, keys, facts)
    BY <2>2, <2>5, <2>6, CollectionsOnly
  <2>8. RowsMove(t, u)
    <3> SUFFICES ASSUME NEW w \in u.rows
                 PROVE  \E v \in RowAt(t, w.coll, w.rec) : w.ver = v.ver
      BY DEF RowsMove
    <3>1. PICK v \in t.rows : w = cp(v)
      BY <2>2
    <3> QED
      BY <2>3, <3>1 DEF RowAt
  <2> QED
    BY <2>2, <2>7, <2>8 DEF u
<1> QED
  BY <1>2, <1>3, <1>4

(* A dropped collection takes its rows and idempotency keys with it. *)
LEMMA CollectionDelete ==
    ASSUME NEW t, NEW keys, NEW facts, TablesOf(t, keys, facts), NEW name
    PROVE  LET u == deleteCollection(t, name).tables
           IN  /\ TablesOf(u, keys, facts)
               /\ u.events = t.events /\ u.jobs = t.jobs /\ u.hooks = t.hooks
               /\ u.rows \subseteq t.rows
<1> DEFINE gone == {c.id : c \in Named(t, name)}
           u == deleteCollection(t, name).tables
<1>1. /\ DOMAIN t = {"colls", "rows", "idem", "events", "audit", "jobs", "hooks"}
      /\ RowsInv(t) /\ KeysLive(t)
  BY DEF TablesOf, EmptyTables
<1>2. u = [t EXCEPT !.colls = {c \in t.colls : c.id \notin gone},
                    !.rows  = {w \in t.rows : w.coll \notin gone},
                    !.idem  = {i \in t.idem : i.coll \notin gone}]
  BY DEF deleteCollection, Ok
<1> HIDE DEF u, gone
<1>3. /\ DOMAIN u = DOMAIN t
      /\ u.colls = {c \in t.colls : c.id \notin gone}
      /\ u.rows  = {w \in t.rows : w.coll \notin gone}
      /\ u.idem  = {i \in t.idem : i.coll \notin gone}
      /\ u.events = t.events /\ u.audit = t.audit
      /\ u.jobs = t.jobs /\ u.hooks = t.hooks
  BY <1>1, <1>2
<1>4. RowsInv(u)
  BY <1>1, <1>3 DEF RowsInv, WithId
<1>5. KeysLive(u)
  <2>1. ASSUME NEW i \in u.idem
        PROVE  RowAt(u, i.coll, i.rec) # {} /\ WithId(u, i.coll) # {}
    <3>1. RowAt(t, i.coll, i.rec) # {} /\ WithId(t, i.coll) # {} /\ i.coll \notin gone
      BY <1>1, <1>3 DEF KeysLive
    <3> QED
      BY <1>3, <3>1 DEF RowAt, WithId
  <2> QED
    BY <1>1, <1>3, <2>1 DEF KeysLive
<1>6. TablesOf(u, keys, facts)
  BY <1>3, <1>4, <1>5, CollectionsOnly
<1> QED
  BY <1>3, <1>6 DEF u

(* The jobs of u are those of t with other statuses, times and attempts. *)
JobsMove(t, u) ==
    /\ DOMAIN u = DOMAIN t
    /\ \A f \in DOMAIN t \ {"jobs"} : u[f] = t[f]
    /\ \A j \in t.jobs : \E k \in u.jobs : k.key = j.key /\ k.target = j.target
    /\ \A k \in u.jobs : \E j \in t.jobs :
          k.key = j.key /\ k.target = j.target /\ DOMAIN k = DOMAIN j
    /\ OnePerKey(t.jobs) => OnePerKey(u.jobs)

(* So does an UPDATE of chosen jobs that leaves key and target alone. *)
LEMMA JobsUpdated ==
    ASSUME NEW t, "jobs" \in DOMAIN t, NEW chosen \in SUBSET t.jobs, NEW F,
           \A j \in t.jobs : /\ F[j].key = j.key /\ F[j].target = j.target
                             /\ DOMAIN F[j] = DOMAIN j,
           NEW u, u = [t EXCEPT !.jobs = (t.jobs \ chosen) \cup {F[j] : j \in chosen}]
    PROVE  JobsMove(t, u)
<1>1. /\ DOMAIN u = DOMAIN t
      /\ \A f \in DOMAIN t \ {"jobs"} : u[f] = t[f]
      /\ u.jobs = (t.jobs \ chosen) \cup {F[j] : j \in chosen}
  OBVIOUS
<1>2. ASSUME NEW j \in t.jobs
      PROVE  \E k \in u.jobs : k.key = j.key /\ k.target = j.target
  <2>1. CASE j \in chosen
    BY <1>1, <2>1
  <2>2. CASE j \notin chosen
    BY <1>1, <2>2
  <2> QED
    BY <2>1, <2>2
<1>3. ASSUME NEW k \in u.jobs
      PROVE  \E j \in t.jobs : k.key = j.key /\ k.target = j.target /\ DOMAIN k = DOMAIN j
  <2>1. CASE k \in t.jobs
    BY <2>1
  <2>2. CASE k \notin t.jobs
    <3>1. PICK j \in chosen : k = F[j]
      BY <1>1, <2>2
    <3> QED
      BY <3>1
  <2> QED
    BY <2>1, <2>2
<1>4. ASSUME OnePerKey(t.jobs) PROVE OnePerKey(u.jobs)
  <2> SUFFICES ASSUME NEW k \in u.jobs, NEW l \in u.jobs, k.key = l.key PROVE k = l
    BY DEF OnePerKey
  <2>1. ASSUME NEW m \in u.jobs
        PROVE  \E j \in t.jobs : /\ m.key = j.key
                                 /\ m = IF j \in chosen THEN F[j] ELSE j
    <3>1. CASE m \in t.jobs \ chosen
      BY <3>1
    <3>2. CASE m \notin t.jobs \ chosen
      <4>1. PICK j \in chosen : m = F[j]
        BY <1>1, <3>2
      <4> QED
        BY <4>1
    <3> QED
      BY <3>1, <3>2
  <2>2. PICK i \in t.jobs : k.key = i.key /\ k = IF i \in chosen THEN F[i] ELSE i
    BY <2>1
  <2>3. PICK j \in t.jobs : l.key = j.key /\ l = IF j \in chosen THEN F[j] ELSE j
    BY <2>1
  <2>4. i = j
    BY <1>4, <2>2, <2>3 DEF OnePerKey
  <2> QED
    BY <2>2, <2>3, <2>4
<1> QED
  BY <1>1, <1>2, <1>3, <1>4 DEF JobsMove

(* Moving the jobs loses no obligation and changes no other table. *)
LEMMA JobsMoved ==
    ASSUME NEW t, NEW keys, NEW facts, TablesOf(t, keys, facts), BatchOwed(t),
           NEW u, JobsMove(t, u)
    PROVE  /\ TablesOf(u, keys, facts) /\ BatchOwed(u)
           /\ u.events = t.events /\ u.rows = t.rows
           /\ \A j \in t.jobs : JobAt(u, j.key) # {}
<1>1. /\ DOMAIN t = {"colls", "rows", "idem", "events", "audit", "jobs", "hooks"}
      /\ RowsInv(t) /\ KeysLive(t) /\ JobsInv(t)
      /\ IsFiniteSet(t.events) /\ CursorDense(t) /\ ConsequencesOf(t, keys, facts)
  BY DEF TablesOf, EmptyTables
<1>2. /\ DOMAIN u = DOMAIN t
      /\ u.colls = t.colls /\ u.rows = t.rows /\ u.idem = t.idem
      /\ u.events = t.events /\ u.audit = t.audit
  BY <1>1 DEF JobsMove
<1>3. RowsInv(u) /\ KeysLive(u)
  BY <1>1, <1>2 DEF RowsInv, KeysLive, RowAt, WithId
<1>4. JobsInv(u)
  BY <1>1 DEF JobsMove, JobsInv
<1>5. CursorDense(u) /\ ConsequencesOf(u, keys, facts)
  <2>1. \A j \in u.jobs : j.key[1] \in keys
    BY <1>1 DEF JobsMove, ConsequencesOf
  <2> QED
    BY <1>1, <1>2, <2>1 DEF CursorDense, ConsequencesOf
<1>6. TablesOf(u, keys, facts)
  BY <1>1, <1>2, <1>3, <1>4, <1>5 DEF TablesOf, EmptyTables
<1>7. ASSUME NEW e PROVE Owed(u, e) = Owed(t, e)
  BY DEF JobsMove, Owed
<1>8. BatchOwed(u)
  BY <1>2, <1>7 DEF BatchOwed
<1>9. \A j \in t.jobs : JobAt(u, j.key) # {}
  BY DEF JobsMove, JobAt
<1> QED
  BY <1>2, <1>6, <1>8, <1>9

(* Each of the five job operations is such an update. *)
LEMMA JobOperations ==
    ASSUME NEW t, "jobs" \in DOMAIN t, JobsInv(t), NEW op, NEW now,
           op.kind \in {"job.claim", "job.complete", "job.release", "job.cancel", "job.retry"},
           materialize(t, op, now).status = "ok"
    PROVE  JobsMove(t, materialize(t, op, now).tables)
<1> DEFINE u == materialize(t, op, now).tables
           Keeps(F) == \A j \in t.jobs : /\ F[j].key = j.key /\ F[j].target = j.target
                                         /\ DOMAIN F[j] = DOMAIN j
           Is(chosen, F) == u = [t EXCEPT !.jobs = (t.jobs \ chosen) \cup {F[j] : j \in chosen}]
<1>1. "jobs" \in DOMAIN t
  OBVIOUS
<1>2. \A j \in t.jobs : DOMAIN j = {"key", "target", "status", "attempts", "avail", "lease"}
  BY DEF JobsInv
<1>3. \E chosen \in SUBSET t.jobs : \E F : Keeps(F) /\ Is(chosen, F)
  <2>1. CASE op.kind = "job.claim"
    <3> DEFINE F == [j \in t.jobs |-> Claimed(j, now)]
               ch == JobAt(t, op.job)
    <3>1. ch \in SUBSET t.jobs /\ \A j \in ch : F[j] = Claimed(j, now)
      BY DEF JobAt
    <3>2. materialize(t, op, now) = applyJobClaim(t, op.job, now)
      BY <2>1 DEF materialize
    <3>3. u = [t EXCEPT !.jobs = (t.jobs \ ch) \cup {Claimed(j, now) : j \in ch}]
      BY <3>2 DEF applyJobClaim, UpdateJobs, Conflict, Ok
    <3>4. Keeps(F)
      BY <1>2 DEF Claimed
    <3> HIDE DEF F, ch, u
    <3>5. {Claimed(j, now) : j \in ch} = {F[j] : j \in ch}
      BY <3>1
    <3>6. Is(ch, F)
      BY <3>3, <3>5
    <3> HIDE DEF Keeps, Is
    <3> QED
      BY <3>1, <3>4, <3>6
  <2>2. CASE op.kind = "job.complete"
    <3> DEFINE new(j) == IF op.ok THEN Succeeded(j) ELSE Failed(j, now)
               F == [j \in t.jobs |-> new(j)]
               ch == JobAt(t, op.job)
    <3>1. ch \in SUBSET t.jobs /\ \A j \in ch : F[j] = new(j)
      BY DEF JobAt
    <3>2. materialize(t, op, now) = applyJobComplete(t, op.job, op.ok, now)
      BY <2>2 DEF materialize
    <3>3. u = [t EXCEPT !.jobs = (t.jobs \ ch) \cup {new(j) : j \in ch}]
      BY <3>2 DEF applyJobComplete, UpdateJobs, Ok
    <3>4. Keeps(F)
      BY <1>2 DEF Succeeded, Failed
    <3> HIDE DEF F, ch, u, new
    <3>5. {new(j) : j \in ch} = {F[j] : j \in ch}
      BY <3>1
    <3>6. Is(ch, F)
      BY <3>3, <3>5
    <3> HIDE DEF Keeps, Is
    <3> QED
      BY <3>1, <3>4, <3>6
  <2>3. CASE op.kind = "job.release"
    <3> DEFINE new(j) == [j EXCEPT !.status = "pending", !.lease = None]
               F == [j \in t.jobs |-> new(j)]
               ch == {j \in t.jobs : j.status = "running" /\ j.lease < now}
    <3>1. ch \in SUBSET t.jobs /\ \A j \in ch : F[j] = new(j)
      OBVIOUS
    <3>2. materialize(t, op, now) = applyJobReleaseStale(t, now)
      BY <2>3 DEF materialize
    <3>3. u = [t EXCEPT !.jobs = (t.jobs \ ch) \cup {new(j) : j \in ch}]
      <4>1. materialize(t, op, now) =
              Ok([t EXCEPT !.jobs = (t.jobs \ ch) \cup {new(j) : j \in ch}])
        BY <3>2, Zenon DEF applyJobReleaseStale, UpdateJobs
      <4> HIDE DEF new, ch
      <4> QED
        BY <4>1 DEF Ok
    <3>4. Keeps(F)
      BY <1>2
    <3> HIDE DEF F, ch, u, new
    <3>5. {new(j) : j \in ch} = {F[j] : j \in ch}
      BY <3>1
    <3>6. Is(ch, F)
      BY <3>3, <3>5
    <3> HIDE DEF Keeps, Is
    <3> QED
      BY <3>1, <3>4, <3>6
  <2>4. CASE op.kind = "job.cancel"
    <3> DEFINE new(j) == [j EXCEPT !.status = "cancelled", !.lease = None]
               F == [j \in t.jobs |-> new(j)]
               ch == {j \in JobAt(t, op.job) : j.status \in {"pending", "running"}}
    <3>1. ch \in SUBSET t.jobs /\ \A j \in ch : F[j] = new(j)
      BY DEF JobAt
    <3>2. materialize(t, op, now) = applyJobCancel(t, op.job)
      BY <2>4 DEF materialize
    <3>3. u = [t EXCEPT !.jobs = (t.jobs \ ch) \cup {new(j) : j \in ch}]
      <4>1. materialize(t, op, now) =
              Ok([t EXCEPT !.jobs = (t.jobs \ ch) \cup {new(j) : j \in ch}])
        BY <3>2, Zenon DEF applyJobCancel, UpdateJobs
      <4> HIDE DEF new, ch
      <4> QED
        BY <4>1 DEF Ok
    <3>4. Keeps(F)
      BY <1>2
    <3> HIDE DEF F, ch, u, new
    <3>5. {new(j) : j \in ch} = {F[j] : j \in ch}
      BY <3>1
    <3>6. Is(ch, F)
      BY <3>3, <3>5
    <3> HIDE DEF Keeps, Is
    <3> QED
      BY <3>1, <3>4, <3>6
  <2>5. CASE op.kind = "job.retry"
    <3> DEFINE new(j) == [j EXCEPT !.status = "pending", !.attempts = 0,
                                   !.avail = now, !.lease = None]
               F == [j \in t.jobs |-> new(j)]
               ch == {j \in JobAt(t, op.job) : j.status \in {"dead", "cancelled"}}
    <3>1. ch \in SUBSET t.jobs /\ \A j \in ch : F[j] = new(j)
      BY DEF JobAt
    <3>2. materialize(t, op, now) = applyJobRetry(t, op.job, now)
      BY <2>5 DEF materialize
    <3>3. u = [t EXCEPT !.jobs = (t.jobs \ ch) \cup {new(j) : j \in ch}]
      <4>1. materialize(t, op, now) =
              Ok([t EXCEPT !.jobs = (t.jobs \ ch) \cup {new(j) : j \in ch}])
        BY <3>2, Zenon DEF applyJobRetry, UpdateJobs
      <4> HIDE DEF new, ch
      <4> QED
        BY <4>1 DEF Ok
    <3>4. Keeps(F)
      BY <1>2
    <3> HIDE DEF F, ch, u, new
    <3>5. {new(j) : j \in ch} = {F[j] : j \in ch}
      BY <3>1
    <3>6. Is(ch, F)
      BY <3>3, <3>5
    <3> HIDE DEF Keeps, Is
    <3> QED
      BY <3>1, <3>4, <3>6
  <2> QED
    BY <2>1, <2>2, <2>3, <2>4, <2>5
<1> HIDE DEF u
<1>4. PICK chosen \in SUBSET t.jobs : \E F : Keeps(F) /\ Is(chosen, F)
  BY <1>3
<1>5. PICK F : Keeps(F) /\ Is(chosen, F)
  BY <1>4
<1>6. JobsMove(t, u)
  BY <1>1, <1>5, JobsUpdated
<1> QED
  BY <1>6 DEF u

(* Saving or deleting a definition touches the definitions only. *)
LEMMA HookOperations ==
    ASSUME NEW t, NEW keys, NEW facts, TablesOf(t, keys, facts), BatchOwed(t),
           NEW op, NEW now, op.kind \in {"hook.put", "hook.delete"}
    PROVE  LET u == materialize(t, op, now).tables
           IN  /\ TablesOf(u, keys, facts) /\ BatchOwed(u)
               /\ u.events = t.events /\ u.jobs = t.jobs /\ u.rows = t.rows
<1> DEFINE u == materialize(t, op, now).tables
           put == [t EXCEPT !.hooks = {h \in t.hooks : h.id # op.target}
                              \cup {[id |-> op.target, topics |-> op.topics]}]
           del == [t EXCEPT !.hooks = {h \in t.hooks : h.id # op.target}]
<1>1. u = put \/ u = del
  <2>1. CASE op.kind = "hook.put"
    BY <2>1 DEF materialize, applyHookPut, Ok
  <2>2. CASE op.kind = "hook.delete"
    BY <2>2 DEF materialize, deleteHook, Ok
  <2> QED
    BY <2>1, <2>2
<1>2. /\ DOMAIN t = {"colls", "rows", "idem", "events", "audit", "jobs", "hooks"}
      /\ RowsInv(t) /\ KeysLive(t)
  BY DEF TablesOf, EmptyTables
<1> HIDE DEF u
<1>3. /\ DOMAIN u = DOMAIN t
      /\ u.colls = t.colls /\ u.rows = t.rows /\ u.idem = t.idem
      /\ u.events = t.events /\ u.audit = t.audit /\ u.jobs = t.jobs
  BY <1>1, <1>2
<1>4. RowsInv(u) /\ KeysLive(u)
  BY <1>2, <1>3 DEF RowsInv, KeysLive, RowAt, WithId
<1>5. TablesOf(u, keys, facts)
  BY <1>3, <1>4, CollectionsOnly
<1>6. BatchOwed(u)
  <2>1. \A e : Owed(u, e) = Owed(t, e)
    BY <1>3 DEF Owed
  <2> QED
    BY <1>3, <2>1 DEF BatchOwed
<1> QED
  BY <1>3, <1>5, <1>6 DEF u

(* The dedup keys of an operation carry its id. *)
LEMMA KeyOfOperation ==
    ASSUME NEW ops, NEW key \in KeysOf(ops)
    PROVE  Known(ops, key[1])
<1>1. PICK o \in ops : key \in RecordKeys(o)
  BY DEF KeysOf
<1>2. key[1] = o.id
  <2>1. CASE o.kind = "record.put"
    <3>1. PICK i \in 1..Len(o.puts) : key = <<o.id, i>>
      BY <1>1, <2>1 DEF RecordKeys
    <3> QED
      BY <3>1
  <2>2. CASE o.kind = "record.delete"
    BY <1>1, <2>2 DEF RecordKeys
  <2>3. CASE o.kind # "record.put" /\ o.kind # "record.delete"
    BY <1>1, <2>3 DEF RecordKeys
  <2> QED
    BY <2>1, <2>2, <2>3
<1> QED
  BY <1>2 DEF Known

(* One more operation adds its own keys. *)
LEMMA KeysGrow ==
    ASSUME NEW ops, NEW op
    PROVE  /\ KeysOf(ops \cup {op}) = KeysOf(ops) \cup RecordKeys(op)
           /\ op.kind = "record.put" => FactsOf(ops \cup {op}) = FactsOf(ops) \cup RecordKeys(op)
           /\ op.kind # "record.put" => FactsOf(ops \cup {op}) = FactsOf(ops)
<1> DEFINE P(S) == {o \in S : o.kind = "record.put"}
<1>1. ASSUME NEW S PROVE KeysOf(S \cup {op}) = KeysOf(S) \cup RecordKeys(op)
  BY DEF KeysOf
<1>2. CASE op.kind = "record.put"
  <2>1. P(ops \cup {op}) = P(ops) \cup {op}
    BY <1>2
  <2>2. KeysOf(P(ops) \cup {op}) = KeysOf(P(ops)) \cup RecordKeys(op)
    BY <1>1
  <2> QED
    BY <1>1, <1>2, <2>1, <2>2 DEF FactsOf
<1>3. CASE op.kind # "record.put"
  <2>1. P(ops \cup {op}) = P(ops)
    BY <1>3
  <2> QED
    BY <1>1, <1>3, <2>1 DEF FactsOf
<1> QED
  BY <1>2, <1>3

(* The tables that fit the operations applied so far fit them and the next   *)
(* one after its transaction: no event is lost, no obligation, and no        *)
(* record moves by more than one version.                                   *)
LEMMA MaterializeKeeps ==
    ASSUME NEW t, NEW ops, NEW op \in Ops, NEW now, TablesInv(t, ops),
           ~Known(ops, op.id), materialize(t, op, now).status = "ok"
    PROVE  LET u == materialize(t, op, now).tables
           IN  /\ TablesInv(u, ops \cup {op})
               /\ t.events \subseteq u.events
               /\ \A j \in t.jobs : JobAt(u, j.key) # {}
               /\ RowsMove(t, u)
<1> DEFINE res == materialize(t, op, now)
           u == res.tables
           keys == KeysOf(ops)
           facts == FactsOf(ops)
           more == KeysOf(ops \cup {op})
           moref == FactsOf(ops \cup {op})
<1>1. TablesOf(t, keys, facts) /\ BatchOwed(t)
  BY DEF TablesInv
<1>2. ASSUME NEW i PROVE <<op.id, i>> \notin keys
  <2>1. PICK key : key = <<op.id, i>>
    OBVIOUS
  <2>2. key[1] = op.id
    BY <2>1
  <2> QED
    BY <2>1, <2>2, KeyOfOperation
<1>3. OwedByHooks(t, op.id)
  <2> SUFFICES ASSUME NEW e \in t.events, e.key[1] = op.id PROVE FALSE
    BY DEF OwedByHooks
  <2>1. e.key \in keys
    BY <1>1 DEF TablesOf, ConsequencesOf
  <2>2. Known(ops, e.key[1])
    BY <2>1, KeyOfOperation
  <2> QED
    BY <2>2
<1>4. Midway(t, keys, facts, op.id)
  BY <1>1, <1>3 DEF Midway
<1>5. ASSUME NEW v, t.jobs \subseteq v.jobs PROVE \A j \in t.jobs : JobAt(v, j.key) # {}
  BY <1>5 DEF JobAt
<1>6. ASSUME NEW v, v.rows \subseteq t.rows PROVE RowsMove(t, v)
  BY <1>6 DEF RowsMove, RowAt
<1>7. ASSUME op.kind # "record.put", op.kind # "record.delete"
      PROVE  more = keys /\ moref = facts
  <2>1. RecordKeys(op) = {}
    BY <1>7 DEF RecordKeys
  <2>2. more = keys \cup RecordKeys(op) /\ moref = facts
    <3> HIDE DEF keys, facts, more, moref
    <3> QED
      BY <1>7, KeysGrow DEF keys, facts, more, moref
  <2> QED
    BY <2>1, <2>2
<1>8. SUFFICES /\ TablesOf(u, more, moref) /\ BatchOwed(u)
               /\ t.events \subseteq u.events
               /\ \A j \in t.jobs : JobAt(u, j.key) # {}
               /\ RowsMove(t, u)
  BY DEF TablesInv
<1> HIDE DEF keys, facts, more, moref
<1>9. CASE op.kind = "collection.put"
  <2>1. res = applyCollection(t, op.def)
    BY <1>9 DEF materialize
  <2>2. /\ TablesOf(u, keys, facts)
        /\ u.events = t.events /\ u.jobs = t.jobs /\ u.hooks = t.hooks
        /\ RowsMove(t, u)
    BY <1>1, <2>1, CollectionPut
  <2> HIDE DEF u, res
  <2>3. BatchOwed(u)
    BY <1>1, <1>3, <2>2, OwedSame
  <2> QED
    BY <1>5, <1>7, <1>9, <2>2, <2>3
<1>10. CASE op.kind = "collection.delete"
  <2>1. res = deleteCollection(t, op.name)
    BY <1>10 DEF materialize
  <2>2. /\ TablesOf(u, keys, facts)
        /\ u.events = t.events /\ u.jobs = t.jobs /\ u.hooks = t.hooks
        /\ u.rows \subseteq t.rows
    BY <1>1, <2>1, CollectionDelete
  <2> HIDE DEF u, res
  <2>3. BatchOwed(u)
    BY <1>1, <1>3, <2>2, OwedSame
  <2> QED
    BY <1>5, <1>6, <1>7, <1>10, <2>2, <2>3
<1>11. CASE op.kind = "record.put"
  <2>1. res = applyRecordBatch(t, op)
    BY <1>11 DEF materialize
  <2>2. /\ Len(op.puts) \in Nat
        /\ Len(op.puts) > 1 => \A i \in 1..Len(op.puts) : op.puts[i].ver = 1
    <3>1. PICK S : op.puts \in Seq(S)
      BY <1>11, OpsAssumption
    <3>2. Len(op.puts) \in Nat
      BY <3>1
    <3> QED
      BY <1>11, <3>2, OpsAssumption
  <2> DEFINE up == Up(op.id, Len(op.puts))
  <2>3. /\ TablesOf(u, keys \cup up, facts \cup up) /\ BatchOwed(u)
        /\ t.events \subseteq u.events
        /\ t.jobs \subseteq u.jobs
        /\ RowsMove(t, u)
    BY <1>2, <1>4, <2>1, <2>2, RecordBatch
  <2>4. RecordKeys(op) = up
    BY <1>11 DEF RecordKeys, Up
  <2>5. more = keys \cup up /\ moref = facts \cup up
    <3>1. more = keys \cup RecordKeys(op) /\ moref = facts \cup RecordKeys(op)
      BY <1>11, KeysGrow DEF more, moref, keys, facts
    <3> HIDE DEF up
    <3> QED
      BY <2>4, <3>1
  <2> HIDE DEF u, res, up
  <2> QED
    BY <1>5, <2>3, <2>5
<1>12. CASE op.kind = "record.delete"
  <2>1. res = applyRecordDelete(t, op)
    BY <1>12 DEF materialize
  <2>2. /\ TablesOf(u, keys \cup {<<op.id, 1>>}, facts) /\ BatchOwed(u)
        /\ t.events \subseteq u.events
        /\ t.jobs \subseteq u.jobs
        /\ u.rows \subseteq t.rows
    BY <1>2, <1>4, <2>1, RecordDelete
  <2>3. RecordKeys(op) = {<<op.id, 1>>}
    BY <1>12 DEF RecordKeys
  <2>4. more = keys \cup {<<op.id, 1>>} /\ moref = facts
    BY <1>12, <2>3, KeysGrow DEF more, moref, keys, facts
  <2> HIDE DEF u, res
  <2> QED
    BY <1>5, <1>6, <2>2, <2>4
<1>13. CASE op.kind \in {"hook.put", "hook.delete"}
  <2>1. /\ TablesOf(u, keys, facts) /\ BatchOwed(u)
        /\ u.events = t.events /\ u.jobs = t.jobs /\ u.rows = t.rows
    BY <1>1, <1>13, HookOperations
  <2> HIDE DEF u, res
  <2> QED
    BY <1>5, <1>6, <1>7, <1>13, <2>1
<1>14. CASE op.kind \in {"job.claim", "job.complete", "job.release", "job.cancel", "job.retry"}
  <2>1. JobsMove(t, u)
    <3>1. "jobs" \in DOMAIN t /\ JobsInv(t)
      BY <1>1 DEF TablesOf, EmptyTables
    <3> QED
      BY <1>14, <3>1, JobOperations
  <2> HIDE DEF u, res
  <2>2. /\ TablesOf(u, keys, facts) /\ BatchOwed(u)
        /\ u.events = t.events /\ u.rows = t.rows
        /\ \A j \in t.jobs : JobAt(u, j.key) # {}
    BY <1>1, <2>1, JobsMoved
  <2> QED
    BY <1>6, <1>7, <1>14, <2>2
<1> HIDE DEF u, res
<1>15. op.kind \in OpKinds
  BY OpsAssumption
<1> QED
  BY <1>9, <1>10, <1>11, <1>12, <1>13, <1>14, <1>15 DEF OpKinds

-----------------------------------------------------------------------------
(* The tables of the replicas and of the log *)

(* The canonical state after one more entry fits its operations. *)
LEMMA CanonKeeps ==
    ASSUME NEW c, NEW e, e.op \in Ops, TablesInv(c.tables, c.ops)
    PROVE  LET d == CanonStep(c, e)
           IN  TablesInv(d.tables, d.ops) /\ c.tables.events \subseteq d.tables.events
<1> DEFINE d == CanonStep(c, e)
           res == materialize(c.tables, e.op, e.at)
<1>1. CASE d.tables = c.tables /\ d.ops = c.ops
  BY <1>1
<1>2. CASE /\ ~Known(c.ops, e.op.id) /\ res.status = "ok"
           /\ d.tables = res.tables /\ d.ops = c.ops \cup {e.op}
  <2>1. TablesInv(res.tables, c.ops \cup {e.op}) /\ c.tables.events \subseteq res.tables.events
    <3>1. PICK t, ops, op, now : t = c.tables /\ ops = c.ops /\ op = e.op /\ now = e.at
      OBVIOUS
    <3>2. /\ TablesInv(materialize(t, op, now).tables, ops \cup {op})
          /\ t.events \subseteq materialize(t, op, now).tables.events
      BY <1>2, <3>1, MaterializeKeeps
    <3> QED
      BY <3>1, <3>2
  <2> HIDE DEF d, res
  <2> QED
    BY <1>2, <2>1 DEF d
<1>3. \/ d.tables = c.tables /\ d.ops = c.ops
      \/ /\ ~Known(c.ops, e.op.id) /\ res.status = "ok"
         /\ d.tables = res.tables /\ d.ops = c.ops \cup {e.op}
  BY DEF CanonStep
<1> QED
  BY <1>1, <1>2, <1>3

(* A step writes the tables of a replica only by materializing the entry at  *)
(* its position, whose id it has not applied, past its durable index.       *)
LEMMA TablesStep ==
    ASSUME IndInv, [Next]_vars, NEW r \in Replicas
    PROVE  \/ db'[r].tables = db[r].tables /\ db'[r].ops = db[r].ops
           \/ /\ Entry(r).op \in Ops
              /\ ~Known(db[r].ops, Entry(r).op.id)
              /\ Result(r).status = "ok"
              /\ db'[r].tables = Result(r).tables
              /\ db'[r].ops = db[r].ops \cup {Entry(r).op}
              /\ mem[r].next >= db[r].idx
<1> DEFINE Same(s) == db'[s].tables = db[s].tables /\ db'[s].ops = db[s].ops
<1>1. CASE UNCHANGED db
  BY <1>1
<1>2. ASSUME NEW s \in Replicas, ApplyDuplicate(s) PROVE Same(r)
  <2>1. \/ UNCHANGED db
        \/ db' = [db EXCEPT ![s].idx = Index(s)]
    BY <1>2 DEF ApplyDuplicate
  <2>2. DOMAIN db = Replicas /\ DOMAIN db[s] = {"tables", "idx", "ops"}
    BY DEF IndInv, TypeOK
  <2> QED
    BY <2>1, <2>2
<1>3. ASSUME NEW s \in Replicas, ApplyMaterialize(s), s # r PROVE Same(r)
  <2>1. db' = [db EXCEPT ![s] = Materialized(s)] /\ DOMAIN db = Replicas
    BY <1>3 DEF ApplyMaterialize, IndInv, TypeOK
  <2> QED
    BY <1>3, <2>1
<1>4. ASSUME ApplyMaterialize(r)
      PROVE  /\ Entry(r).op \in Ops
             /\ ~Known(db[r].ops, Entry(r).op.id)
             /\ Result(r).status = "ok"
             /\ db'[r].tables = Result(r).tables
             /\ db'[r].ops = db[r].ops \cup {Entry(r).op}
             /\ mem[r].next >= db[r].idx
  <2>1. /\ HasNext(r) /\ Fresh(r) /\ Index(r) > mem[r].persisted
        /\ Result(r).status = "ok"
        /\ db' = [db EXCEPT ![r] = Materialized(r)] /\ DOMAIN db = Replicas
    BY <1>4 DEF ApplyMaterialize, IndInv, TypeOK
  <2>2. Entry(r).op \in Ops
    BY <2>1, Position
  <2>3. ~Known(db[r].ops, Entry(r).op.id)
    BY <2>1 DEF Fresh, Known, IndInv, MemoryInv
  <2>4. mem[r].next >= db[r].idx
    <3>1. mem[r].next \in Nat /\ mem[r].persisted \in Nat /\ db[r].idx \in Nat
      BY DEF IndInv, TypeOK
    <3> QED
      BY <2>1, <3>1 DEF IndInv, MemoryInv, Index
  <2>5. db'[r] = Materialized(r)
    BY <2>1
  <2> QED
    BY <2>1, <2>2, <2>3, <2>4, <2>5 DEF Materialized
<1>5. \/ UNCHANGED db
      \/ \E s \in Replicas : ApplyDuplicate(s) \/ ApplyMaterialize(s)
  BY DEF Next, vars, Propose, Lose, Commit, Restart, Apply, ApplyFenced, ApplyReused,
         ApplyReplay, ApplyConflict, ApplyFatal, ApplyError
<1> QED
  BY <1>1, <1>2, <1>3, <1>4, <1>5

(* What the step does to the tables, then, is what MaterializeKeeps says. *)
LEMMA ReplicaTablesStep ==
    ASSUME IndInv, [Next]_vars, NEW r \in Replicas, TablesInv(db[r].tables, db[r].ops)
    PROVE  /\ TablesInv(db'[r].tables, db'[r].ops)
           /\ \A j \in db[r].tables.jobs : JobAt(db'[r].tables, j.key) # {}
           /\ \/ db'[r].tables = db[r].tables
              \/ RowsMove(db[r].tables, db'[r].tables) /\ mem[r].next >= db[r].idx
<1>1. CASE db'[r].tables = db[r].tables /\ db'[r].ops = db[r].ops
  BY <1>1 DEF JobAt
<1>2. CASE /\ Entry(r).op \in Ops
           /\ ~Known(db[r].ops, Entry(r).op.id)
           /\ Result(r).status = "ok"
           /\ db'[r].tables = Result(r).tables
           /\ db'[r].ops = db[r].ops \cup {Entry(r).op}
           /\ mem[r].next >= db[r].idx
  <2>1. PICK t, ops, op, now :
          t = db[r].tables /\ ops = db[r].ops /\ op = Entry(r).op /\ now = Entry(r).at
    OBVIOUS
  <2>2. Result(r) = materialize(t, op, now)
    BY <2>1 DEF Result
  <2>3. PICK u : u = materialize(t, op, now).tables
    OBVIOUS
  <2>4. /\ op \in Ops /\ TablesInv(t, ops) /\ ~Known(ops, op.id)
        /\ materialize(t, op, now).status = "ok"
    BY <1>2, <2>1, <2>2
  <2>5. /\ TablesInv(u, ops \cup {op})
        /\ \A j \in t.jobs : JobAt(u, j.key) # {}
        /\ RowsMove(t, u)
    BY ONLY <2>3, <2>4, MaterializeKeeps
  <2>6. db'[r].tables = u /\ db'[r].ops = ops \cup {op}
    BY <1>2, <2>1, <2>2, <2>3
  <2> QED
    BY <1>2, <2>1, <2>5, <2>6
<1> QED
  BY <1>1, <1>2, TablesStep

(* The empty tables fit no operation at all. *)
LEMMA EmptyTablesInv == TablesInv(EmptyTables, {})
<1>1. /\ EmptyTables.rows = {} /\ EmptyTables.idem = {} /\ EmptyTables.events = {}
      /\ EmptyTables.audit = {} /\ EmptyTables.jobs = {}
  BY DEF EmptyTables
<1>2. KeysOf({}) = {} /\ FactsOf({}) = {}
  BY DEF KeysOf, FactsOf
<1>3. IsFiniteSet({}) /\ Cardinality({}) = 0
  BY FS_EmptySet
<1> HIDE DEF EmptyTables
<1>4. RowsInv(EmptyTables) /\ KeysLive(EmptyTables) /\ JobsInv(EmptyTables)
  BY <1>1 DEF RowsInv, KeysLive, JobsInv
<1>5. CursorDense(EmptyTables)
  BY <1>1, <1>3 DEF CursorDense
<1>6. ConsequencesOf(EmptyTables, {}, {})
  BY <1>1, <1>3 DEF ConsequencesOf
<1>7. BatchOwed(EmptyTables)
  BY <1>1 DEF BatchOwed
<1> QED
  BY <1>1, <1>2, <1>3, <1>4, <1>5, <1>6, <1>7 DEF TablesInv, TablesOf

(* It holds at the start, ... *)
LEMMA InitLedger == Init => LedgerInv
<1> SUFFICES ASSUME Init PROVE LedgerInv
  OBVIOUS
<1>1. Len(log) = 0 /\ canon[0].tables = EmptyTables /\ canon[0].ops = {}
  BY DEF Init
<1>2. \A r \in Replicas : db[r].tables = EmptyTables /\ db[r].ops = {}
  BY DEF Init, EmptyDb
<1>3. \A i \in 0..Len(log) : i = 0
  BY <1>1
<1> QED
  BY <1>1, <1>2, <1>3, EmptyTablesInv DEF LedgerInv

(* ... a commit extends the canonical states by one, ... *)
LEMMA CommitLedger ==
    ASSUME IndInv, LedgerInv, NEW op \in inflight, NEW at \in Times, Commit(op, at)
    PROVE  /\ \A i \in 0..Len(log') : TablesInv(canon'[i].tables, canon'[i].ops)
           /\ \A i, j \in 0..Len(log') :
                 i <= j => canon'[i].tables.events \subseteq canon'[j].tables.events
<1> DEFINE n == Len(log)
           e == [op |-> op, at |-> at]
<1>1. /\ n \in Nat /\ Len(log') = n + 1
      /\ \A i \in 0..n : canon'[i] = canon[i]
  BY CommitCanon DEF IndInv, TypeOK
<1>2. canon'[n + 1] = CanonStep(canon[n], e)
  BY <1>1 DEF Commit
<1>3. e.op \in Ops /\ n \in 0..n /\ TablesInv(canon[n].tables, canon[n].ops)
  BY <1>1 DEF IndInv, TypeOK, LedgerInv
<1> HIDE DEF e
<1>4. /\ TablesInv(canon'[n + 1].tables, canon'[n + 1].ops)
      /\ canon[n].tables.events \subseteq canon'[n + 1].tables.events
  <2>1. PICK c : c = canon[n]
    OBVIOUS
  <2>2. TablesInv(c.tables, c.ops)
    BY <1>3, <2>1
  <2>3. LET d == CanonStep(c, e)
        IN  TablesInv(d.tables, d.ops) /\ c.tables.events \subseteq d.tables.events
    BY <1>3, <2>2, CanonKeeps
  <2> QED
    BY <1>2, <2>1, <2>3
<1>5. ASSUME NEW i \in 0..Len(log')
      PROVE  TablesInv(canon'[i].tables, canon'[i].ops)
  <2>1. CASE i \in 0..n
    BY <1>1, <2>1 DEF LedgerInv
  <2>2. CASE i = n + 1
    BY <1>4, <2>2
  <2> QED
    BY <1>1, <2>1, <2>2
<1>6. ASSUME NEW i \in 0..Len(log'), NEW j \in 0..Len(log'), i <= j
      PROVE  canon'[i].tables.events \subseteq canon'[j].tables.events
  <2>1. CASE i \in 0..n /\ j \in 0..n
    BY <1>1, <1>6, <2>1 DEF LedgerInv
  <2>2. CASE i \in 0..n /\ j = n + 1
    <3>1. canon[i].tables.events \subseteq canon[n].tables.events
      BY <1>1, <2>2 DEF LedgerInv
    <3> QED
      BY <1>1, <1>4, <2>2, <3>1
  <2>3. CASE i = n + 1 /\ j = n + 1
    BY <2>3
  <2> QED
    BY <1>1, <1>6, <2>1, <2>2, <2>3
<1> QED
  BY <1>5, <1>6

(* ... and no other step touches them.                                      *)
LEMMA LogStep ==
    ASSUME [Next]_vars
    PROVE  \/ UNCHANGED <<log, canon>>
           \/ \E op \in inflight, at \in Times : Commit(op, at)
BY DEF Next, vars, Propose, Lose, Restart, Apply, ApplyFenced, ApplyReused, ApplyDuplicate,
       ApplyReplay, ApplyMaterialize, ApplyConflict, ApplyFatal, ApplyError

(* The tables' invariant is inductive, relative to IndInv. *)
LEMMA NextLedger == IndInv /\ LedgerInv /\ [Next]_vars => LedgerInv'
<1> SUFFICES ASSUME IndInv, LedgerInv, [Next]_vars PROVE LedgerInv'
  OBVIOUS
<1>1. \A r \in Replicas : TablesInv(db'[r].tables, db'[r].ops)
  BY ReplicaTablesStep DEF LedgerInv
<1>2. /\ \A i \in 0..Len(log') : TablesInv(canon'[i].tables, canon'[i].ops)
      /\ \A i, j \in 0..Len(log') :
            i <= j => canon'[i].tables.events \subseteq canon'[j].tables.events
  <2>1. CASE UNCHANGED <<log, canon>>
    BY <2>1 DEF LedgerInv
  <2>2. CASE \E op \in inflight, at \in Times : Commit(op, at)
    BY <2>2, CommitLedger
  <2> QED
    BY <2>1, <2>2, LogStep
<1> QED
  BY <1>1, <1>2 DEF LedgerInv

(* On every replica and at every position of the log, the tables fit the     *)
(* operations applied: what materialize promises, transaction by transaction. *)
THEOREM LedgerHolds == Spec => []LedgerInv
BY InitLedger, NextLedger, Inductive, PTL DEF Spec

(* On every replica the durable consequences are those of the operations     *)
(* durably applied: one event per record written or deleted, one audit fact  *)
(* per put, and no job without its operation.                               *)
THEOREM ConsequencesAreOfOperations == Spec => []ConsequencesMatchOps
<1>1. LedgerInv => ConsequencesMatchOps
  BY DEF LedgerInv, TablesInv, TablesOf, ConsequencesMatchOps
<1> QED
  BY <1>1, LedgerHolds, PTL

(* The event cursor is dense on every replica, and a replica that is ahead   *)
(* has every event of one that is behind, under the same number.            *)
THEOREM CursorIsDenseAndShared == Spec => []EventCursor
<1>1. IndInv /\ LedgerInv => EventCursor
  <2> SUFFICES ASSUME IndInv, LedgerInv, NEW r \in Replicas
               PROVE  /\ CursorDense(db[r].tables)
                      /\ NoReuseAfterReject =>
                           \A s \in Replicas : db[r].idx <= db[s].idx
                              => db[r].tables.events \subseteq db[s].tables.events
    BY DEF EventCursor
  <2>1. CursorDense(db[r].tables)
    BY DEF LedgerInv, TablesInv, TablesOf
  <2>2. ASSUME NoReuseAfterReject, NEW s \in Replicas, db[r].idx <= db[s].idx
        PROVE  db[r].tables.events \subseteq db[s].tables.events
    <3>1. db[r].idx \in 0..Len(log) /\ db[s].idx \in 0..Len(log)
      BY DEF IndInv, TypeOK
    <3>2. /\ db[r].tables = canon[db[r].idx].tables
          /\ db[s].tables = canon[db[s].idx].tables
      BY <2>2 DEF IndInv, ReplicaInv, CanonicalAt
    <3>3. canon[db[r].idx].tables.events \subseteq canon[db[s].idx].tables.events
      BY <2>2, <3>1 DEF LedgerInv
    <3> QED
      BY <3>2, <3>3
  <2> QED
    BY <2>1, <2>2
<1> QED
  BY <1>1, Inductive, LedgerHolds, PTL

(* Every idempotency row of every replica leads to a record that exists, in  *)
(* a collection that exists, and no key leads to two.                       *)
THEOREM IdempotencyKeysLive == Spec => []IdempotencyRowsLive
<1>1. LedgerInv => IdempotencyRowsLive
  BY DEF LedgerInv, TablesInv, TablesOf, IdempotencyRowsLive
<1> QED
  BY <1>1, LedgerHolds, PTL

(* The records of one batch that raise the same event owe it to the same     *)
(* targets.                                                                 *)
THEOREM BatchesOweAlike == Spec => []BatchObligations
<1>1. LedgerInv => BatchObligations
  BY DEF LedgerInv, TablesInv, BatchObligations
<1> QED
  BY <1>1, LedgerHolds, PTL

(* No step of any replica loses a job obligation. *)
THEOREM ObligationsNeverLost == Spec => ObligationsKept
<1>1. IndInv /\ LedgerInv /\ [Next]_vars =>
        [\A r \in Replicas :
           \A j \in db[r].tables.jobs : JobAt(db'[r].tables, j.key) # {}]_vars
  BY ReplicaTablesStep DEF LedgerInv
<1> QED
  BY <1>1, Inductive, LedgerHolds, PTL DEF Spec, ObligationsKept

(* The version of a record is the version of its one row. *)
LEMMA VersionOfRow ==
    ASSUME NEW t, RowsInv(t), NEW w \in t.rows
    PROVE  Version(t, w.coll, w.rec) = w.ver
<1> DEFINE v == CHOOSE x \in RowAt(t, w.coll, w.rec) : TRUE
<1>1. w \in RowAt(t, w.coll, w.rec)
  BY DEF RowAt
<1>2. v \in RowAt(t, w.coll, w.rec)
  BY <1>1
<1>3. v = w
  <2> HIDE DEF v
  <2> QED
    BY <1>1, <1>2 DEF RowAt, RowsInv
<1> QED
  BY <1>1, <1>3 DEF Version

(* Rows that move by at most one version are versions that do. *)
LEMMA VersionsMove ==
    ASSUME NEW t, NEW u, RowsInv(t), RowsInv(u), RowsMove(t, u), NEW w \in t.rows \cup u.rows
    PROVE  LET old == Version(t, w.coll, w.rec)
               new == Version(u, w.coll, w.rec)
           IN  new \in {0, old} \/ new = old + 1
<1> DEFINE old == Version(t, w.coll, w.rec)
           new == Version(u, w.coll, w.rec)
<1>1. CASE RowAt(u, w.coll, w.rec) = {}
  BY <1>1 DEF Version
<1>2. CASE RowAt(u, w.coll, w.rec) # {}
  <2>1. PICK x \in u.rows : x.coll = w.coll /\ x.rec = w.rec
    BY <1>2 DEF RowAt
  <2>2. new = x.ver
    BY <2>1, VersionOfRow
  <2>3. CASE RowAt(t, x.coll, x.rec) = {} /\ x.ver = 1
    <3>1. old = 0
      BY <2>1, <2>3 DEF Version
    <3> QED
      BY <2>2, <2>3, <3>1
  <2>4. CASE \E v \in RowAt(t, x.coll, x.rec) : x.ver = v.ver \/ x.ver = v.ver + 1
    <3>1. PICK v \in t.rows : /\ v.coll = w.coll /\ v.rec = w.rec
                              /\ x.ver = v.ver \/ x.ver = v.ver + 1
      BY <2>1, <2>4 DEF RowAt
    <3>2. old = v.ver
      BY <3>1, VersionOfRow
    <3> QED
      BY <2>2, <3>1, <3>2
  <2> QED
    BY <2>3, <2>4 DEF RowsMove
<1> QED
  BY <1>1, <1>2

(* On every replica a record is created at version 1, moves up by exactly    *)
(* one, and only where the replica is not replaying what it has applied.     *)
THEOREM VersionsMoveByOne == Spec => VersionStep
<1> DEFINE Step == \A r \in Replicas :
                     \A w \in db[r].tables.rows \cup db'[r].tables.rows :
                       LET old == Version(db[r].tables, w.coll, w.rec)
                           new == Version(db'[r].tables, w.coll, w.rec)
                       IN  new \in {0, old} \/ (new = old + 1 /\ mem[r].next >= db[r].idx)
<1>1. IndInv /\ LedgerInv /\ [Next]_vars => Step
  <2> SUFFICES ASSUME IndInv, LedgerInv, [Next]_vars, NEW r \in Replicas,
                      NEW w \in db[r].tables.rows \cup db'[r].tables.rows
               PROVE  LET old == Version(db[r].tables, w.coll, w.rec)
                          new == Version(db'[r].tables, w.coll, w.rec)
                      IN  new \in {0, old} \/ (new = old + 1 /\ mem[r].next >= db[r].idx)
    OBVIOUS
  <2>1. PICK t, u : t = db[r].tables /\ u = db'[r].tables
    OBVIOUS
  <2>2. CASE u = t
    BY <2>1, <2>2
  <2>3. CASE RowsMove(t, u) /\ mem[r].next >= db[r].idx
    <3>1. RowsInv(t)
      BY <2>1 DEF LedgerInv, TablesInv, TablesOf
    <3>2. RowsInv(u)
      BY <2>1, ReplicaTablesStep DEF LedgerInv, TablesInv, TablesOf
    <3>3. w \in t.rows \cup u.rows
      BY <2>1
    <3>4. LET old == Version(t, w.coll, w.rec)
              new == Version(u, w.coll, w.rec)
          IN  new \in {0, old} \/ new = old + 1
      BY <2>3, <3>1, <3>2, <3>3, VersionsMove
    <3> QED
      BY <2>1, <2>3, <3>4
  <2>4. u = t \/ (RowsMove(t, u) /\ mem[r].next >= db[r].idx)
    BY <2>1, ReplicaTablesStep DEF LedgerInv
  <2> QED
    BY <2>2, <2>3, <2>4
<1>2. IndInv /\ LedgerInv /\ [Next]_vars => [Step]_vars
  <2> HIDE DEF Step
  <2> QED
    BY <1>1
<1> QED
  BY <1>2, Inductive, LedgerHolds, PTL DEF Spec, VersionStep

-----------------------------------------------------------------------------
(* Replicas that are restored from snapshots *)

(* A row that is inserted with the number after the last, unless its key is   *)
(* there, leaves the numbers num without a gap and the keys unique.          *)
LEMMA InsertNumbered ==
    ASSUME NEW T, IsFiniteSet(T), OnePerKey(T),
           NEW num, \A w \in T : num[w] \in 1..Cardinality(T),
           \A i \in 1..Cardinality(T) : \E w \in T : num[w] = i,
           NEW row, NEW U, U = InsertOnce(T, row),
           row \notin T => num[row] = Cardinality(T) + 1
    PROVE  /\ IsFiniteSet(U) /\ OnePerKey(U)
           /\ \A w \in U : num[w] \in 1..Cardinality(U)
           /\ \A i \in 1..Cardinality(U) : \E w \in U : num[w] = i
<1>1. CASE \E x \in T : x.key = row.key
  BY <1>1 DEF InsertOnce
<1>2. CASE ~\E x \in T : x.key = row.key
  <2>1. U = T \cup {row} /\ row \notin T
    BY <1>2 DEF InsertOnce
  <2>2. Cardinality(T) \in Nat
    BY FS_CardinalityType
  <2>3. IsFiniteSet(U) /\ Cardinality(U) = Cardinality(T) + 1
    BY <2>1, FS_AddElement
  <2>4. OnePerKey(U)
    BY <1>2, <2>1 DEF OnePerKey
  <2>5. \A w \in U : num[w] \in 1..Cardinality(U)
    BY <2>1, <2>2, <2>3
  <2>6. ASSUME NEW i \in 1..Cardinality(U) PROVE \E w \in U : num[w] = i
    <3>1. CASE i = Cardinality(U)
      BY <2>1, <2>3, <3>1
    <3>2. CASE i # Cardinality(U)
      <4>1. i \in 1..Cardinality(T)
        BY <2>2, <2>3, <3>2
      <4> QED
        BY <2>1, <4>1
    <3> QED
      BY <3>1, <3>2
  <2> QED
    BY <2>3, <2>4, <2>5, <2>6
<1> QED
  BY <1>1, <1>2

(* Tables whose fields and consequences are in order. *)
TablesCarry(t) == DOMAIN t = DOMAIN EmptyTables /\ Carries(t)

(* Only the consequences matter to that. *)
LEMMA CarriesSame ==
    ASSUME NEW t, TablesCarry(t), NEW u, DOMAIN u = DOMAIN t,
           u.events = t.events, u.audit = t.audit, u.jobs = t.jobs
    PROVE  TablesCarry(u)
BY DEF TablesCarry, Carries, CursorDense, JobsInv

(* An event that was there is not emitted again, and a new one is the next. *)
LEMMA EventCarried ==
    ASSUME NEW t, TablesCarry(t), NEW topic, NEW name, NEW rec, NEW key
    PROVE  TablesCarry(emitEvent(t, topic, name, rec, key))
<1> DEFINE n == Cardinality(t.events)
           e == [seq |-> n + 1, topic |-> topic, coll |-> name, rec |-> rec, key |-> key]
           U == InsertOnce(t.events, e)
           num == [w \in t.events \cup {e} |-> w.seq]
           u == emitEvent(t, topic, name, rec, key)
<1>1. /\ DOMAIN t = {"colls", "rows", "idem", "events", "audit", "jobs", "hooks"}
      /\ IsFiniteSet(t.events) /\ OnePerKey(t.events)
      /\ {x.seq : x \in t.events} = 1..n
  BY DEF TablesCarry, Carries, CursorDense, EmptyTables
<1>2. NextSeq({x.seq : x \in t.events}) = n + 1
  BY <1>1, NextSeqDense, FS_CardinalityType
<1>3. u = [t EXCEPT !.events = U]
  BY <1>2 DEF emitEvent
<1>4. /\ num[e] = n + 1
      /\ \A w \in t.events : num[w] = w.seq
  OBVIOUS
<1>5. U \subseteq t.events \cup {e} /\ \A w \in U : num[w] = w.seq
  BY DEF InsertOnce
<1> HIDE DEF e, u, num
<1>6. /\ \A w \in t.events : num[w] \in 1..n
      /\ \A i \in 1..n : \E w \in t.events : num[w] = i
  <2>1. ASSUME NEW i \in 1..n PROVE \E w \in t.events : num[w] = i
    <3>1. PICK w \in t.events : w.seq = i
      BY <1>1
    <3> QED
      BY <1>4, <3>1
  <2> QED
    BY <1>1, <1>4, <2>1
<1>7. /\ IsFiniteSet(U) /\ OnePerKey(U)
      /\ \A w \in U : num[w] \in 1..Cardinality(U)
      /\ \A i \in 1..Cardinality(U) : \E w \in U : num[w] = i
  <2> HIDE DEF U
  <2> QED
    BY <1>1, <1>4, <1>6, InsertNumbered DEF U
<1> HIDE DEF U
<1>8. {w.seq : w \in U} = 1..Cardinality(U)
  <2>1. ASSUME NEW i \in 1..Cardinality(U) PROVE \E w \in U : w.seq = i
    <3>1. PICK w \in U : num[w] = i
      BY <1>7
    <3> QED
      BY <1>5, <3>1
  <2> QED
    BY <1>5, <1>7, <2>1
<1>9. /\ DOMAIN u = DOMAIN t /\ u.events = U /\ u.audit = t.audit /\ u.jobs = t.jobs
  BY <1>1, <1>3
<1>10. TablesCarry(u)
  BY <1>7, <1>8, <1>9 DEF TablesCarry, Carries, CursorDense, JobsInv
<1> QED
  BY <1>10 DEF u

(* The same for an audit fact. *)
LEMMA FactCarried ==
    ASSUME NEW t, TablesCarry(t), NEW rec, NEW key
    PROVE  TablesCarry(emitAudit(t, rec, key))
<1> DEFINE n == Cardinality(t.audit)
           e == [id |-> n + 1, rec |-> rec, key |-> key]
           U == InsertOnce(t.audit, e)
           num == [w \in t.audit \cup {e} |-> w.id]
           u == emitAudit(t, rec, key)
<1>1. /\ DOMAIN t = {"colls", "rows", "idem", "events", "audit", "jobs", "hooks"}
      /\ IsFiniteSet(t.audit) /\ OnePerKey(t.audit)
      /\ {x.id : x \in t.audit} = 1..n
  BY DEF TablesCarry, Carries, EmptyTables
<1>2. NextSeq({x.id : x \in t.audit}) = n + 1
  BY <1>1, NextSeqDense, FS_CardinalityType
<1>3. u = [t EXCEPT !.audit = U]
  BY <1>2 DEF emitAudit
<1>4. /\ num[e] = n + 1
      /\ \A w \in t.audit : num[w] = w.id
  OBVIOUS
<1>5. U \subseteq t.audit \cup {e} /\ \A w \in U : num[w] = w.id
  BY DEF InsertOnce
<1> HIDE DEF e, u, num
<1>6. /\ \A w \in t.audit : num[w] \in 1..n
      /\ \A i \in 1..n : \E w \in t.audit : num[w] = i
  <2>1. ASSUME NEW i \in 1..n PROVE \E w \in t.audit : num[w] = i
    <3>1. PICK w \in t.audit : w.id = i
      BY <1>1
    <3> QED
      BY <1>4, <3>1
  <2> QED
    BY <1>1, <1>4, <2>1
<1>7. /\ IsFiniteSet(U) /\ OnePerKey(U)
      /\ \A w \in U : num[w] \in 1..Cardinality(U)
      /\ \A i \in 1..Cardinality(U) : \E w \in U : num[w] = i
  <2> HIDE DEF U
  <2> QED
    BY <1>1, <1>4, <1>6, InsertNumbered DEF U
<1> HIDE DEF U
<1>8. {w.id : w \in U} = 1..Cardinality(U)
  <2>1. ASSUME NEW i \in 1..Cardinality(U) PROVE \E w \in U : w.id = i
    <3>1. PICK w \in U : num[w] = i
      BY <1>7
    <3> QED
      BY <1>5, <3>1
  <2> QED
    BY <1>5, <1>7, <2>1
<1>9. /\ DOMAIN u = DOMAIN t /\ u.audit = U /\ u.events = t.events /\ u.jobs = t.jobs
  BY <1>1, <1>3
<1>10. TablesCarry(u)
  BY <1>7, <1>8, <1>9 DEF TablesCarry, Carries, CursorDense, JobsInv
<1> QED
  BY <1>10 DEF u

(* A definition that already has its job for a key gets no second one. *)
LEMMA JobsCarried ==
    ASSUME NEW t, TablesCarry(t), NEW topic, NEW key, NEW occurred
    PROVE  TablesCarry(enqueueJobs(t, topic, key, occurred))
<1> DEFINE job(h) == [key |-> <<key, h.id>>, target |-> h.id, status |-> "pending",
                      attempts |-> 0, avail |-> occurred, lease |-> None]
           fresh == {h \in t.hooks : /\ topic \in h.topics
                                     /\ \A j \in t.jobs : j.key # <<key, h.id>>}
           new == {job(h) : h \in fresh}
           u == enqueueJobs(t, topic, key, occurred)
<1>1. /\ DOMAIN t = {"colls", "rows", "idem", "events", "audit", "jobs", "hooks"}
      /\ JobsInv(t) /\ OnePerKey(t.jobs)
  BY DEF TablesCarry, Carries, EmptyTables
<1>2. u = [t EXCEPT !.jobs = t.jobs \cup new]
  BY DEF enqueueJobs
<1>3. ASSUME NEW h \in fresh
      PROVE  /\ job(h).key = <<key, h.id>>
             /\ DOMAIN job(h) = {"key", "target", "status", "attempts", "avail", "lease"}
             /\ \A j \in t.jobs : j.key # job(h).key
  OBVIOUS
<1>4. ASSUME NEW g \in fresh, NEW h \in fresh, job(g).key = job(h).key
      PROVE  job(g) = job(h)
  <2>1. <<key, g.id>>[2] = g.id /\ <<key, h.id>>[2] = h.id
    OBVIOUS
  <2>2. g.id = h.id
    BY <1>3, <1>4, <2>1
  <2> QED
    BY <2>2
<1> HIDE DEF job, fresh, u
<1>5. OnePerKey(t.jobs \cup new)
  BY <1>1, <1>3, <1>4 DEF OnePerKey
<1>6. \A j \in t.jobs \cup new :
        DOMAIN j = {"key", "target", "status", "attempts", "avail", "lease"}
  BY <1>1, <1>3 DEF JobsInv
<1>7. /\ DOMAIN u = DOMAIN t /\ u.jobs = t.jobs \cup new
      /\ u.events = t.events /\ u.audit = t.audit
  BY <1>1, <1>2
<1>8. TablesCarry(u)
  BY <1>5, <1>6, <1>7 DEF TablesCarry, Carries, CursorDense, JobsInv
<1> QED
  BY <1>8 DEF u

(* Event, audit fact and jobs of one record, new or replayed. *)
LEMMA ConsequencesCarried ==
    ASSUME NEW t, TablesCarry(t), NEW topic, NEW p, NEW key, NEW occurred
    PROVE  TablesCarry(emitRecordConsequences(t, topic, p, key, occurred))
<1> DEFINE name == (CHOOSE c \in WithId(t, p.coll) : TRUE).name
           v == emitEvent(t, topic, name, p.rec, key)
           w == IF topic = "record.deleted" THEN v ELSE emitAudit(v, p.rec, key)
<1>1. emitRecordConsequences(t, topic, p, key, occurred) = enqueueJobs(w, topic, key, occurred)
  BY DEF emitRecordConsequences
<1> HIDE DEF name
<1>2. TablesCarry(v)
  BY EventCarried
<1> HIDE DEF v
<1>3. TablesCarry(w)
  BY <1>2, FactCarried
<1> HIDE DEF w
<1>4. TablesCarry(enqueueJobs(w, topic, key, occurred))
  BY <1>3, JobsCarried
<1> QED
  BY <1>1, <1>4

(* The appliers of collections and of records write no consequences. *)
LEMMA AppliersCarry ==
    ASSUME NEW t, TablesCarry(t), NEW x
    PROVE  /\ TablesCarry(putRecord(t, x).tables)
           /\ TablesCarry(deleteRecord(t, x).tables)
           /\ TablesCarry(applyCollection(t, x).tables)
           /\ TablesCarry(deleteCollection(t, x).tables)
<1> DEFINE Same(u) == /\ DOMAIN u = DOMAIN t
                      /\ u.events = t.events /\ u.audit = t.audit /\ u.jobs = t.jobs
<1>0. Same(t)
  OBVIOUS
<1>1. DOMAIN t = {"colls", "rows", "idem", "events", "audit", "jobs", "hooks"}
  BY DEF TablesCarry, EmptyTables
<1>2. \A R, I : Same([t EXCEPT !.rows = R, !.idem = I])
  BY <1>1
<1>3. \A C : Same([t EXCEPT !.colls = C])
  BY <1>1
<1>4. \A C, R : Same([t EXCEPT !.colls = C, !.rows = R])
  BY <1>1
<1>5. \A C, R, I : Same([t EXCEPT !.colls = C, !.rows = R, !.idem = I])
  BY <1>1
<1>6. Same(putRecord(t, x).tables)
  <2> DEFINE old == RowAt(t, x.coll, x.rec)
             new == [coll |-> x.coll, rec |-> x.rec, ver |-> x.ver, val |-> x.val]
             R == (t.rows \ old) \cup {new}
             I == IF old = {} /\ x.key # None
                  THEN t.idem \cup {[coll |-> x.coll, key |-> x.key, rec |-> x.rec]}
                  ELSE t.idem
  <2>1. \/ putRecord(t, x).tables = t
        \/ putRecord(t, x).tables = [t EXCEPT !.rows = R, !.idem = I]
    BY DEF putRecord, Fatal, Conflict, Ok
  <2> HIDE DEF R, I
  <2>2. Same([t EXCEPT !.rows = R, !.idem = I])
    BY <1>2
  <2> HIDE DEF Same
  <2> QED
    BY <1>0, <2>1, <2>2
<1>7. Same(deleteRecord(t, x).tables)
  <2> DEFINE R == t.rows \ RowAt(t, x.coll, x.rec)
             I == KeysAfter(t, x)
  <2>1. \/ deleteRecord(t, x).tables = t
        \/ deleteRecord(t, x).tables = [t EXCEPT !.rows = R, !.idem = I]
    BY DEF deleteRecord, Fatal, Conflict, Ok
  <2> HIDE DEF R, I
  <2>2. Same([t EXCEPT !.rows = R, !.idem = I])
    BY <1>2
  <2> HIDE DEF Same
  <2> QED
    BY <1>0, <2>1, <2>2
<1>8. Same(applyCollection(t, x).tables)
  <2> DEFINE added == [t EXCEPT !.colls = t.colls \cup {x}]
             moved == [t EXCEPT !.colls = (t.colls \ Named(t, x.name)) \cup {x}]
  <2>1. \/ applyCollection(t, x).tables = t
        \/ applyCollection(t, x).tables = added
        \/ applyCollection(t, x) = RebuildPhysicalTx(moved, x)
    BY DEF applyCollection, Fatal, Conflict, Ok
  <2>2. Same(added) /\ Same(moved)
    BY <1>3
  <2>3. "rows" \in DOMAIN moved
    BY <1>1
  <2> HIDE DEF added, moved
  <2>4. Same(RebuildPhysicalTx(moved, x).tables)
    <3> DEFINE R == {IF w.coll = x.id /\ x.shape = "empty"
                     THEN [w EXCEPT !.val = None] ELSE w : w \in moved.rows}
    <3>1. RebuildPhysicalTx(moved, x).tables \in {moved, [moved EXCEPT !.rows = R]}
      BY DEF RebuildPhysicalTx, Fatal, Ok
    <3> HIDE DEF R
    <3> QED
      BY <1>1, <2>2, <3>1
  <2> QED
    BY <2>1, <2>2, <2>4
<1>9. Same(deleteCollection(t, x).tables)
  <2> DEFINE gone == {c.id : c \in Named(t, x)}
             C == {c \in t.colls : c.id \notin gone}
             R == {w \in t.rows : w.coll \notin gone}
             I == {i \in t.idem : i.coll \notin gone}
  <2>1. deleteCollection(t, x).tables = [t EXCEPT !.colls = C, !.rows = R, !.idem = I]
    BY DEF deleteCollection, Ok
  <2> HIDE DEF C, R, I
  <2> QED
    BY <1>5, <2>1
<1>10. ASSUME NEW u, Same(u) PROVE TablesCarry(u)
  BY <1>10, CarriesSame
<1> HIDE DEF Same
<1> QED
  BY <1>6, <1>7, <1>8, <1>9, <1>10

(* A batch, put by put; one that fails has left the tables alone. *)
LEMMA BatchCarries ==
    ASSUME NEW t, TablesCarry(t), NEW op, Len(op.puts) \in Nat
    PROVE  TablesCarry(applyRecordBatch(t, op).tables)
<1> DEFINE n == Len(op.puts)
<1>1. PICK g : /\ Chain(g, t, op, n)
               /\ applyRecordBatch(t, op) =
                    [g[n] EXCEPT !.tables = IF g[n].status = "ok" THEN g[n].tables ELSE t]
  BY BatchAsChain
<1> DEFINE Fine(i) == /\ DOMAIN g[i] = {"status", "tables"}
                      /\ TablesCarry(g[i].tables)
           A == {i \in Nat : i <= n => Fine(i)}
<1>2. 0 \in A
  <2>1. g[0] = Ok(t)
    BY <1>1 DEF Chain
  <2>2. Fine(0)
    BY <2>1 DEF Ok
  <2> QED
    BY <2>2
<1>3. ASSUME NEW u, TablesCarry(u), NEW p, NEW key, NEW occurred
      PROVE  TablesCarry(applyRecordPut(u, p, key, occurred).tables)
  <2> DEFINE put == putRecord(u, p)
  <2>1. TablesCarry(put.tables)
    BY <1>3, AppliersCarry
  <2> HIDE DEF put
  <2>2. TablesCarry(emitRecordConsequences(put.tables, PutTopic(p), p, key, occurred))
    BY <2>1, ConsequencesCarried
  <2>3. applyRecordPut(u, p, key, occurred) =
          IF put.status = "ok"
          THEN Ok(emitRecordConsequences(put.tables, PutTopic(p), p, key, occurred))
          ELSE put
    BY DEF applyRecordPut, put
  <2> QED
    BY <2>1, <2>2, <2>3 DEF Ok
<1>4. ASSUME NEW i \in A PROVE i + 1 \in A
  <2> SUFFICES ASSUME i + 1 <= n PROVE Fine(i + 1)
    OBVIOUS
  <2>1. i \in Nat /\ Fine(i)
    OBVIOUS
  <2>2. g[i + 1] = BatchStep(op, g[i], i + 1)
    <3>1. i + 1 \in 1..n /\ (i + 1) - 1 = i
      BY <2>1
    <3> QED
      BY <1>1, <3>1 DEF Chain
  <2>3. TablesCarry(applyRecordPut(g[i].tables, op.puts[i + 1], <<op.id, i + 1>>,
                                   op.occurred).tables)
    BY <1>3, <2>1
  <2> QED
    BY <2>1, <2>2, <2>3, PutOutcome DEF BatchStep
<1>5. A = Nat
  <2> HIDE DEF A
  <2>1. A \subseteq Nat
    BY DEF A
  <2> QED
    BY <1>2, <1>4, <2>1, InductionOnNat
<1>6. Fine(n)
  BY <1>5
<1>7. applyRecordBatch(t, op).tables \in {g[n].tables, t}
  BY <1>1, <1>6
<1> QED
  BY <1>6, <1>7

(* Whatever an operation does, the tables stay in order: nothing is assumed  *)
(* of what was applied before, for a replay over a snapshot may repeat it.   *)
LEMMA MaterializeCarries ==
    ASSUME NEW t, TablesCarry(t), NEW op \in Ops, NEW now,
           materialize(t, op, now).status = "ok"
    PROVE  TablesCarry(materialize(t, op, now).tables)
<1> DEFINE res == materialize(t, op, now)
           u == res.tables
<1>1. CASE op.kind = "collection.put"
  <2>1. res = applyCollection(t, op.def)
    BY <1>1 DEF materialize
  <2> QED
    BY <2>1, AppliersCarry
<1>2. CASE op.kind = "collection.delete"
  <2>1. res = deleteCollection(t, op.name)
    BY <1>2 DEF materialize
  <2> QED
    BY <2>1, AppliersCarry
<1>3. CASE op.kind = "record.put"
  <2>1. res = applyRecordBatch(t, op)
    BY <1>3 DEF materialize
  <2>2. PICK S : op.puts \in Seq(S)
    BY <1>3, OpsAssumption
  <2>3. Len(op.puts) \in Nat
    BY <2>2
  <2> QED
    BY <2>1, <2>3, BatchCarries
<1>4. CASE op.kind = "record.delete"
  <2> DEFINE del == deleteRecord(t, op.put)
             con == emitRecordConsequences(del.tables, "record.deleted", op.put,
                                           <<op.id, 1>>, op.occurred)
  <2>1. res = IF del.status = "ok" THEN Ok(con) ELSE del
    BY <1>4 DEF materialize, applyRecordDelete
  <2>2. TablesCarry(del.tables)
    BY AppliersCarry
  <2>3. TablesCarry(con)
    <3> HIDE DEF del
    <3> QED
      BY <2>2, ConsequencesCarried
  <2> HIDE DEF del, con
  <2> QED
    BY <2>1, <2>2, <2>3 DEF Ok
<1>5. CASE op.kind \in {"hook.put", "hook.delete"}
  <2>1. \E H : u = [t EXCEPT !.hooks = H]
    <3>1. CASE op.kind = "hook.put"
      BY <3>1 DEF materialize, applyHookPut, Ok
    <3>2. CASE op.kind = "hook.delete"
      BY <3>2 DEF materialize, deleteHook, Ok
    <3> QED
      BY <1>5, <3>1, <3>2
  <2>2. DOMAIN t = {"colls", "rows", "idem", "events", "audit", "jobs", "hooks"}
    BY DEF TablesCarry, EmptyTables
  <2> HIDE DEF u, res
  <2>3. DOMAIN u = DOMAIN t /\ u.events = t.events /\ u.audit = t.audit /\ u.jobs = t.jobs
    BY <2>1, <2>2
  <2>4. TablesCarry(u)
    BY <2>3, CarriesSame
  <2> QED
    BY <2>4 DEF u, res
<1>6. CASE op.kind \in {"job.claim", "job.complete", "job.release", "job.cancel", "job.retry"}
  <2>1. /\ DOMAIN t = {"colls", "rows", "idem", "events", "audit", "jobs", "hooks"}
        /\ JobsInv(t) /\ OnePerKey(t.jobs)
    BY DEF TablesCarry, Carries, EmptyTables
  <2>2. JobsMove(t, u)
    BY <1>6, <2>1, JobOperations
  <2> HIDE DEF u, res
  <2>3. DOMAIN u = DOMAIN t /\ u.events = t.events /\ u.audit = t.audit
    BY <2>1, <2>2 DEF JobsMove
  <2>4. JobsInv(u) /\ OnePerKey(u.jobs)
    BY <2>1, <2>2 DEF JobsMove, JobsInv
  <2>5. TablesCarry(u)
    BY <2>3, <2>4 DEF TablesCarry, Carries, CursorDense
  <2> QED
    BY <2>5 DEF u, res
<1>7. op.kind \in OpKinds
  BY OpsAssumption
<1> HIDE DEF u, res
<1> QED
  BY <1>1, <1>2, <1>3, <1>4, <1>5, <1>6, <1>7 DEF OpKinds, u, res

(* A restore takes the consequences from the snapshot, all of them. *)
LEMMA RestoreCarries ==
    ASSUME NEW d, NEW m, NEW env, EnvelopeInv(env),
           DOMAIN d = {"tables", "idx", "ops"}, TablesCarry(d.tables),
           DOMAIN m = {"next", "applied", "index", "persisted", "failed"}
    PROVE  /\ DOMAIN RestoredDb(m, d, env) = {"tables", "idx", "ops"}
           /\ TablesCarry(RestoredDb(m, d, env).tables)
           /\ DOMAIN RestoredMem(m, env) = {"next", "applied", "index", "persisted", "failed"}
           /\ RestoredMem(m, env).next \in Nat
<1>1. TablesCarry(RestoreTables(d.tables, env).tables)
  <2> DEFINE u == RestoreTables(d.tables, env).tables
  <2>1. /\ DOMAIN u = {"colls", "rows", "idem", "events", "audit", "jobs", "hooks"}
        /\ u.events = env.events /\ u.audit = env.audit /\ u.jobs = env.jobs
    BY DEF RestoreTables
  <2> HIDE DEF u
  <2>2. TablesCarry(u)
    BY <2>1 DEF TablesCarry, EnvelopeInv, Carries, CursorDense, JobsInv, EmptyTables
  <2> QED
    BY <2>2 DEF u
<1>2. /\ DOMAIN RestoredDb(m, d, env) = {"tables", "idx", "ops"}
      /\ TablesCarry(RestoredDb(m, d, env).tables)
  <2> DEFINE t == RestoreTables(d.tables, env).tables
             all == {o \in d.ops : ~Known(env.applied, o.id)} \cup env.applied
  <2>1. \/ RestoredDb(m, d, env) = d
        \/ RestoredDb(m, d, env) = [tables |-> t, idx |-> env.index, ops |-> all]
    BY DEF RestoredDb
  <2> HIDE DEF t, all
  <2>2. TablesCarry(t)
    BY <1>1 DEF t
  <2> QED
    BY <2>1, <2>2
<1>3. /\ DOMAIN RestoredMem(m, env) = {"next", "applied", "index", "persisted", "failed"}
      /\ RestoredMem(m, env).next = env.last
  BY DEF RestoredMem, Seeded
<1> QED
  BY <1>2, <1>3 DEF EnvelopeInv

(* What SnapshotInv says of one replica. *)
HoldsFor(d, m, snap, take) ==
    /\ DOMAIN d = {"tables", "idx", "ops"}
    /\ TablesCarry(d.tables)
    /\ DOMAIN m = {"next", "applied", "index", "persisted", "failed"}
    /\ m.next \in Nat
    /\ snap # None => EnvelopeInv(snap)
    /\ take # None => /\ DOMAIN take = {"phase", "names", "def", "env"}
                      /\ EnvelopeInv(take.env)

(* SnapshotInv, replica by replica. *)
LEMMA SnapshotInvParts ==
    SnapshotInv <=>
        /\ log \in Seq([op : Ops, at : Times])
        /\ inflight \subseteq Ops
        /\ DOMAIN db = Replicas /\ DOMAIN mem = Replicas
        /\ DOMAIN taking = Replicas /\ DOMAIN snaps = Replicas
        /\ \A r \in Replicas : HoldsFor(db[r], mem[r], snaps[r], taking[r])
BY DEF SnapshotInv, HoldsFor, TablesCarry

(* A step that leaves the log alone and moves one replica, if at all.         *)
LEMMA SnapshotStep ==
    ASSUME SnapshotInv, UNCHANGED <<log, inflight>>, NEW r \in Replicas,
           DOMAIN db' = DOMAIN db, DOMAIN mem' = DOMAIN mem,
           DOMAIN snaps' = DOMAIN snaps, DOMAIN taking' = DOMAIN taking,
           \A s \in Replicas \ {r} : /\ db'[s] = db[s] /\ mem'[s] = mem[s]
                                     /\ snaps'[s] = snaps[s] /\ taking'[s] = taking[s],
           HoldsFor(db'[r], mem'[r], snaps'[r], taking'[r])
    PROVE  SnapshotInv'
<1>1. /\ log \in Seq([op : Ops, at : Times])
      /\ inflight \subseteq Ops
      /\ DOMAIN db = Replicas /\ DOMAIN mem = Replicas
      /\ DOMAIN taking = Replicas /\ DOMAIN snaps = Replicas
      /\ \A s \in Replicas : HoldsFor(db[s], mem[s], snaps[s], taking[s])
  BY SnapshotInvParts
<1>2. ASSUME NEW s \in Replicas
      PROVE  HoldsFor(db'[s], mem'[s], snaps'[s], taking'[s])
  BY <1>1
<1>3. log' \in Seq([op : Ops, at : Times]) /\ inflight' \subseteq Ops
  BY <1>1
<1> QED
  BY <1>1, <1>2, <1>3 DEF SnapshotInv, HoldsFor, TablesCarry

(* Reading a table into the snapshot under way. *)
LEMMA TakingStep ==
    ASSUME SnapshotInv, UNCHANGED <<log, inflight, db, mem>>, NEW r \in Replicas,
           DOMAIN snaps' = DOMAIN snaps, DOMAIN taking' = DOMAIN taking,
           \A s \in Replicas \ {r} : snaps'[s] = snaps[s] /\ taking'[s] = taking[s],
           snaps'[r] # None => EnvelopeInv(snaps'[r]),
           taking'[r] # None => /\ DOMAIN taking'[r] = {"phase", "names", "def", "env"}
                                /\ EnvelopeInv(taking'[r].env)
    PROVE  SnapshotInv'
<1>1. HoldsFor(db[r], mem[r], snaps[r], taking[r])
  BY SnapshotInvParts
<1>2. HoldsFor(db'[r], mem'[r], snaps'[r], taking'[r])
  BY <1>1 DEF HoldsFor
<1> QED
  BY <1>2, SnapshotStep

(* The envelope that FSM.Snapshot begins with carries nothing yet. *)
LEMMA SnapshotBegins ==
    ASSUME SnapshotInv, NEW r \in Replicas, Snapshot(r)
    PROVE  SnapshotInv'
<1> DEFINE env == [last |-> mem[r].next, index |-> mem[r].index,
                   applied |-> mem[r].applied, colls |-> {}, rows |-> {},
                   events |-> {}, audit |-> {}, jobs |-> {}, hooks |-> {}]
           take == [phase |-> "names", names |-> {}, def |-> None, env |-> env]
<1>1. /\ taking' = [taking EXCEPT ![r] = take]
      /\ UNCHANGED <<log, inflight, db, mem, snaps>>
  BY DEF Snapshot, vars
<1>2. /\ DOMAIN taking = Replicas /\ mem[r].next \in Nat
      /\ snaps[r] # None => EnvelopeInv(snaps[r])
  BY SnapshotInvParts DEF HoldsFor
<1>3. DOMAIN env = {"last", "index", "applied", "colls", "rows", "events",
                    "audit", "jobs", "hooks"}
  OBVIOUS
<1>4. env.last = mem[r].next /\ env.events = {} /\ env.audit = {} /\ env.jobs = {}
  OBVIOUS
<1>5. DOMAIN take = {"phase", "names", "def", "env"} /\ take.env = env
  OBVIOUS
<1> HIDE DEF env, take
<1>6. EnvelopeInv(env)
  <2>1. Cardinality({}) = 0 /\ IsFiniteSet({})
    BY FS_EmptySet
  <2>2. 1..0 = {}
    OBVIOUS
  <2>3. Carries(env)
    BY <1>4, <2>1, <2>2 DEF Carries, CursorDense, OnePerKey, JobsInv
  <2> QED
    BY <1>2, <1>3, <1>4, <2>3 DEF EnvelopeInv
<1>7. /\ DOMAIN taking' = DOMAIN taking /\ taking'[r] = take
      /\ \A s \in Replicas \ {r} : taking'[s] = taking[s]
  BY <1>1, <1>2
<1> QED
  BY <1>1, <1>2, <1>5, <1>6, <1>7, TakingStep

(* Persist gives it the tables' consequences one after the other. *)
LEMMA PersistCarries ==
    ASSUME SnapshotInv, NEW r \in Replicas, Persist(r)
    PROVE  SnapshotInv'
<1>1. /\ DOMAIN taking = Replicas /\ DOMAIN snaps = Replicas
      /\ TablesCarry(db[r].tables)
      /\ snaps[r] # None => EnvelopeInv(snaps[r])
      /\ taking[r] # None => /\ DOMAIN taking[r] = {"phase", "names", "def", "env"}
                             /\ EnvelopeInv(taking[r].env)
  BY SnapshotInvParts DEF HoldsFor
<1>2. UNCHANGED <<log, inflight, db, mem>>
  BY DEF Persist, PersistNames, PersistDefinition, PersistRecords, PersistEvents,
         PersistAudit, PersistJobs, PersistHooks, vars
<1>3. taking[r] # None
  BY DEF Persist, PersistNames, PersistDefinition, PersistRecords, PersistEvents,
         PersistAudit, PersistJobs, PersistHooks, In
<1> DEFINE env == taking[r].env
<1>4. ASSUME NEW v, taking' = [taking EXCEPT ![r] = v], UNCHANGED snaps,
             v # None => /\ DOMAIN v = {"phase", "names", "def", "env"}
                         /\ EnvelopeInv(v.env)
      PROVE  SnapshotInv'
  <2>1. /\ DOMAIN taking' = DOMAIN taking /\ taking'[r] = v
        /\ \A s \in Replicas \ {r} : taking'[s] = taking[s]
    BY <1>1, <1>4
  <2> QED
    BY <1>1, <1>2, <1>4, <2>1, TakingStep
<1>5. CASE PersistNames(r)
  <2> DEFINE v == [taking[r] EXCEPT !.phase = "definition",
                                    !.names = {c.name : c \in db[r].tables.colls}]
  <2>1. taking' = [taking EXCEPT ![r] = v] /\ UNCHANGED snaps
    BY <1>5 DEF PersistNames
  <2>2. DOMAIN v = DOMAIN taking[r] /\ v.env = env
    BY <1>1, <1>3
  <2> HIDE DEF v
  <2> QED
    BY <1>1, <1>3, <1>4, <2>1, <2>2
<1>6. CASE PersistDefinition(r)
  <2> DEFINE Read(name, c) == taking' = [taking EXCEPT ![r].phase = "records",
                                           ![r].names = @ \ {name}, ![r].def = c]
  <2>1. \/ taking' = [taking EXCEPT ![r] = None]
        \/ \E name, c : Read(name, c)
    BY <1>6 DEF PersistDefinition, Cancel
  <2>2. UNCHANGED snaps
    BY <1>6 DEF PersistDefinition
  <2>3. CASE taking' = [taking EXCEPT ![r] = None]
    BY <1>4, <2>2, <2>3
  <2>4. ASSUME NEW name, NEW c, Read(name, c) PROVE SnapshotInv'
    <3> DEFINE v == [taking[r] EXCEPT !.phase = "records",
                                      !.names = taking[r].names \ {name}, !.def = c]
    <3>1. DOMAIN v = DOMAIN taking[r] /\ v.env = env
      BY <1>1, <1>3
    <3>2. taking' = [taking EXCEPT ![r] = v]
      BY <2>4
    <3> HIDE DEF v
    <3> QED
      BY <1>1, <1>3, <1>4, <2>2, <3>1, <3>2
  <2> HIDE DEF Read
  <2> QED
    BY <2>1, <2>3, <2>4
<1>7. CASE PersistRecords(r)
  <2> DEFINE def == taking[r].def
             read(w) == IF def.shape = "empty" THEN [w EXCEPT !.val = None] ELSE w
             more == {read(w) : w \in RowsOf(db[r].tables, def.id)}
             e == [env EXCEPT !.colls = env.colls \cup {def}, !.rows = env.rows \cup more]
             v == [taking[r] EXCEPT !.phase = "definition", !.def = None, !.env = e]
  <2>1. UNCHANGED snaps
    BY <1>7 DEF PersistRecords
  <2>2. \/ taking' = [taking EXCEPT ![r] = None]
        \/ taking' = [taking EXCEPT ![r].phase = "definition", ![r].def = None,
                        ![r].env.colls = @ \cup {def}, ![r].env.rows = @ \cup more]
    BY <1>7 DEF PersistRecords, Cancel
  <2>3. CASE taking' = [taking EXCEPT ![r] = None]
    BY <1>4, <2>1, <2>3
  <2>4. CASE taking' = [taking EXCEPT ![r].phase = "definition", ![r].def = None,
                          ![r].env.colls = @ \cup {def}, ![r].env.rows = @ \cup more]
    <3> HIDE DEF def, more
    <3>1. /\ DOMAIN env = {"last", "index", "applied", "colls", "rows", "events",
                           "audit", "jobs", "hooks"}
          /\ EnvelopeInv(env)
      BY <1>1, <1>3 DEF EnvelopeInv
    <3>2. taking' = [taking EXCEPT ![r] = v]
      BY <1>1, <1>3, <2>4, <3>1
    <3>3. /\ DOMAIN e = DOMAIN env /\ e.last = env.last
          /\ e.events = env.events /\ e.audit = env.audit /\ e.jobs = env.jobs
      BY <3>1
    <3>4. EnvelopeInv(e)
      <4> HIDE DEF e, env
      <4> QED
        BY <3>1, <3>3 DEF EnvelopeInv, Carries, CursorDense, JobsInv
    <3>5. DOMAIN v = DOMAIN taking[r] /\ v.env = e
      <4> HIDE DEF e, env
      <4> QED
        BY <1>1, <1>3
    <3> HIDE DEF v, e
    <3> QED
      BY <1>1, <1>3, <1>4, <2>1, <3>2, <3>4, <3>5
  <2> QED
    BY <2>2, <2>3, <2>4
<1>8. CASE PersistEvents(r)
  <2> DEFINE e == [env EXCEPT !.events = db[r].tables.events]
             v == [taking[r] EXCEPT !.phase = "audit", !.env = e]
  <2>1. taking' = [taking EXCEPT ![r] = v] /\ UNCHANGED snaps
    BY <1>1, <1>3, <1>8 DEF PersistEvents
  <2>2. EnvelopeInv(env)
    BY <1>1, <1>3
  <2>3. /\ DOMAIN e = DOMAIN env /\ e.last = env.last /\ e.events = db[r].tables.events
        /\ e.audit = env.audit /\ e.jobs = env.jobs
    BY <2>2 DEF EnvelopeInv
  <2>4. DOMAIN v = DOMAIN taking[r] /\ v.env = e
    <3> HIDE DEF e, env
    <3> QED
      BY <1>1, <1>3
  <2> HIDE DEF e, v, env
  <2>5. EnvelopeInv(e)
    BY <1>1, <2>2, <2>3 DEF EnvelopeInv, TablesCarry, Carries, CursorDense, JobsInv
  <2> QED
    BY <1>1, <1>3, <1>4, <2>1, <2>4, <2>5
<1>9. CASE PersistAudit(r)
  <2> DEFINE e == [env EXCEPT !.audit = db[r].tables.audit]
             v == [taking[r] EXCEPT !.phase = "jobs", !.env = e]
  <2>1. taking' = [taking EXCEPT ![r] = v] /\ UNCHANGED snaps
    BY <1>1, <1>3, <1>9 DEF PersistAudit
  <2>2. EnvelopeInv(env)
    BY <1>1, <1>3
  <2>3. /\ DOMAIN e = DOMAIN env /\ e.last = env.last /\ e.audit = db[r].tables.audit
        /\ e.events = env.events /\ e.jobs = env.jobs
    BY <2>2 DEF EnvelopeInv
  <2>4. DOMAIN v = DOMAIN taking[r] /\ v.env = e
    <3> HIDE DEF e, env
    <3> QED
      BY <1>1, <1>3
  <2> HIDE DEF e, v, env
  <2>5. EnvelopeInv(e)
    BY <1>1, <2>2, <2>3 DEF EnvelopeInv, TablesCarry, Carries, CursorDense, JobsInv
  <2> QED
    BY <1>1, <1>3, <1>4, <2>1, <2>4, <2>5
<1>10. CASE PersistJobs(r)
  <2> DEFINE e == [env EXCEPT !.jobs = db[r].tables.jobs]
             v == [taking[r] EXCEPT !.phase = "hooks", !.env = e]
  <2>1. taking' = [taking EXCEPT ![r] = v] /\ UNCHANGED snaps
    BY <1>1, <1>3, <1>10 DEF PersistJobs
  <2>2. EnvelopeInv(env)
    BY <1>1, <1>3
  <2>3. /\ DOMAIN e = DOMAIN env /\ e.last = env.last /\ e.jobs = db[r].tables.jobs
        /\ e.events = env.events /\ e.audit = env.audit
    BY <2>2 DEF EnvelopeInv
  <2>4. DOMAIN v = DOMAIN taking[r] /\ v.env = e
    <3> HIDE DEF e, env
    <3> QED
      BY <1>1, <1>3
  <2> HIDE DEF e, v, env
  <2>5. EnvelopeInv(e)
    BY <1>1, <2>2, <2>3 DEF EnvelopeInv, TablesCarry, Carries, CursorDense, JobsInv
  <2> QED
    BY <1>1, <1>3, <1>4, <2>1, <2>4, <2>5
<1>11. CASE PersistHooks(r)
  <2> DEFINE e == [env EXCEPT !.hooks = db[r].tables.hooks]
  <2>1. snaps' = [snaps EXCEPT ![r] = e] /\ taking' = [taking EXCEPT ![r] = None]
    BY <1>11 DEF PersistHooks, Cancel
  <2>2. EnvelopeInv(env)
    BY <1>1, <1>3
  <2>3. /\ DOMAIN e = DOMAIN env /\ e.last = env.last
        /\ e.events = env.events /\ e.audit = env.audit /\ e.jobs = env.jobs
    BY <2>2 DEF EnvelopeInv
  <2> HIDE DEF e, env
  <2>4. EnvelopeInv(e)
    BY <2>2, <2>3 DEF EnvelopeInv, Carries, CursorDense, JobsInv
  <2>5. /\ DOMAIN taking' = DOMAIN taking /\ taking'[r] = None
        /\ DOMAIN snaps' = DOMAIN snaps /\ snaps'[r] = e
        /\ \A s \in Replicas \ {r} : taking'[s] = taking[s] /\ snaps'[s] = snaps[s]
    BY <1>1, <2>1
  <2> QED
    BY <1>2, <2>4, <2>5, TakingStep
<1> QED
  BY <1>5, <1>6, <1>7, <1>8, <1>9, <1>10, <1>11 DEF Persist

(* A snapshot is installed on a replica, or is stored and refused. *)
LEMMA InstallCarries ==
    ASSUME SnapshotInv, NEW r \in Replicas, NEW s \in Replicas,
           InstallSnapshot(r, s) \/ InstallFails(r, s)
    PROVE  SnapshotInv'
<1>1. /\ DOMAIN db = Replicas /\ DOMAIN mem = Replicas
      /\ DOMAIN taking = Replicas /\ DOMAIN snaps = Replicas
      /\ HoldsFor(db[r], mem[r], snaps[r], taking[r])
      /\ HoldsFor(db[s], mem[s], snaps[s], taking[s])
  BY SnapshotInvParts
<1>2. EnvelopeInv(snaps[s])
  BY <1>1 DEF InstallSnapshot, InstallFails, HoldsFor
<1>3. CASE InstallSnapshot(r, s)
  <2> DEFINE d == RestoredDb(mem[r], db[r], snaps[s])
             m == RestoredMem(mem[r], snaps[s])
  <2>1. /\ db' = [db EXCEPT ![r] = d] /\ mem' = [mem EXCEPT ![r] = m]
        /\ snaps' = [snaps EXCEPT ![r] = snaps[s]]
        /\ UNCHANGED <<log, inflight, taking>>
    BY <1>3 DEF InstallSnapshot
  <2>2. /\ DOMAIN d = {"tables", "idx", "ops"} /\ TablesCarry(d.tables)
        /\ DOMAIN m = {"next", "applied", "index", "persisted", "failed"}
        /\ m.next \in Nat
    BY <1>1, <1>2, RestoreCarries DEF HoldsFor
  <2> HIDE DEF d, m
  <2>3. HoldsFor(d, m, snaps[s], taking[r])
    BY <1>1, <1>2, <2>2 DEF HoldsFor
  <2>4. db'[r] = d /\ mem'[r] = m /\ snaps'[r] = snaps[s] /\ taking'[r] = taking[r]
    BY <1>1, <2>1
  <2>5. /\ DOMAIN db' = DOMAIN db /\ DOMAIN mem' = DOMAIN mem
        /\ DOMAIN snaps' = DOMAIN snaps /\ DOMAIN taking' = DOMAIN taking
        /\ \A q \in Replicas \ {r} : /\ db'[q] = db[q] /\ mem'[q] = mem[q]
                                     /\ snaps'[q] = snaps[q] /\ taking'[q] = taking[q]
    BY <1>1, <2>1
  <2>6. HoldsFor(db'[r], mem'[r], snaps'[r], taking'[r])
    BY <2>3, <2>4
  <2> QED
    BY <2>1, <2>5, <2>6, SnapshotStep
<1>4. CASE InstallFails(r, s)
  <2>1. /\ snaps' = [snaps EXCEPT ![r] = snaps[s]]
        /\ UNCHANGED <<log, inflight, db, mem, taking>>
    BY <1>4 DEF InstallFails, vars
  <2>2. /\ DOMAIN snaps' = DOMAIN snaps /\ snaps'[r] = snaps[s]
        /\ \A q \in Replicas \ {r} : snaps'[q] = snaps[q]
    BY <1>1, <2>1
  <2> QED
    BY <1>1, <1>2, <2>1, <2>2, TakingStep DEF HoldsFor
<1> QED
  BY <1>3, <1>4

(* A restart cancels the snapshot under way and restores the stored one. *)
LEMMA RestartCarries ==
    ASSUME SnapshotInv, NEW r \in Replicas, SRestart(r)
    PROVE  SnapshotInv'
<1> DEFINE boot == Boot(db[r])
<1>1. /\ DOMAIN db = Replicas /\ DOMAIN mem = Replicas
      /\ DOMAIN taking = Replicas /\ DOMAIN snaps = Replicas
      /\ HoldsFor(db[r], mem[r], snaps[r], taking[r])
  BY SnapshotInvParts
<1>2. /\ DOMAIN boot = {"next", "applied", "index", "persisted", "failed"}
      /\ boot.next \in Nat
  BY DEF Boot
<1>3. taking' = [taking EXCEPT ![r] = None] /\ UNCHANGED <<log, inflight, snaps>>
  BY DEF SRestart, Cancel
<1>4. \E d, m : /\ DOMAIN d = {"tables", "idx", "ops"} /\ TablesCarry(d.tables)
                /\ DOMAIN m = {"next", "applied", "index", "persisted", "failed"}
                /\ m.next \in Nat
                /\ db'[r] = d /\ DOMAIN db' = DOMAIN db
                /\ \A q \in Replicas \ {r} : db'[q] = db[q]
                /\ mem' = [mem EXCEPT ![r] = m]
  <2>1. CASE mem' = [mem EXCEPT ![r] = boot] /\ UNCHANGED db
    BY <1>1, <1>2, <2>1 DEF HoldsFor
  <2>2. CASE mem' = [mem EXCEPT ![r] = [boot EXCEPT !.failed = TRUE]] /\ UNCHANGED db
    <3>1. PICK m : m = [boot EXCEPT !.failed = TRUE]
      OBVIOUS
    <3>2. DOMAIN m = DOMAIN boot /\ m.next = boot.next
      BY <1>2, <3>1
    <3> QED
      BY <1>1, <1>2, <2>2, <3>1, <3>2 DEF HoldsFor
  <2>3. CASE /\ snaps[r] # None
             /\ mem' = [mem EXCEPT ![r] = RestoredMem(boot, snaps[r])]
             /\ db'  = [db EXCEPT ![r] = RestoredDb(boot, db[r], snaps[r])]
    <3>1. PICK d, m : d = RestoredDb(boot, db[r], snaps[r]) /\ m = RestoredMem(boot, snaps[r])
      OBVIOUS
    <3>2. /\ DOMAIN d = {"tables", "idx", "ops"} /\ TablesCarry(d.tables)
          /\ DOMAIN m = {"next", "applied", "index", "persisted", "failed"}
          /\ m.next \in Nat
      <4> HIDE DEF boot
      <4> QED
        BY <1>1, <1>2, <2>3, <3>1, RestoreCarries DEF HoldsFor
    <3>3. db' = [db EXCEPT ![r] = d] /\ mem' = [mem EXCEPT ![r] = m]
      BY <2>3, <3>1
    <3>4. /\ db'[r] = d /\ DOMAIN db' = DOMAIN db
          /\ \A q \in Replicas \ {r} : db'[q] = db[q]
      BY <1>1, <3>3
    <3> QED
      BY <3>2, <3>3, <3>4
  <2> QED
    BY <2>1, <2>2, <2>3 DEF SRestart
<1>5. PICK d, m :
        /\ DOMAIN d = {"tables", "idx", "ops"} /\ TablesCarry(d.tables)
        /\ DOMAIN m = {"next", "applied", "index", "persisted", "failed"}
        /\ m.next \in Nat
        /\ db'[r] = d /\ DOMAIN db' = DOMAIN db
        /\ \A q \in Replicas \ {r} : db'[q] = db[q]
        /\ mem' = [mem EXCEPT ![r] = m]
  BY <1>4
<1>6. /\ mem'[r] = m /\ DOMAIN mem' = DOMAIN mem
      /\ taking'[r] = None /\ DOMAIN taking' = DOMAIN taking
      /\ \A q \in Replicas \ {r} : mem'[q] = mem[q] /\ taking'[q] = taking[q]
  BY <1>1, <1>3, <1>5
<1>7. HoldsFor(db'[r], mem'[r], snaps'[r], taking'[r])
  BY <1>1, <1>3, <1>5, <1>6 DEF HoldsFor
<1> QED
  BY <1>3, <1>5, <1>6, <1>7, SnapshotStep

(* FSM.Apply moves raft's position by one, whatever it returns. *)
LEMMA ApplyMoves ==
    ASSUME NEW r \in Replicas, Apply(r), DOMAIN mem = Replicas,
           DOMAIN mem[r] = {"next", "applied", "index", "persisted", "failed"}
    PROVE  /\ DOMAIN mem' = Replicas
           /\ \A q \in Replicas \ {r} : mem'[q] = mem[q]
           /\ DOMAIN mem'[r] = DOMAIN mem[r]
           /\ mem'[r].next = mem[r].next + 1
<1>1. CASE mem' = [mem EXCEPT ![r].next = Index(r)]
  BY <1>1 DEF Index
<1>2. CASE mem' = [mem EXCEPT ![r].next = Index(r), ![r].index = Index(r)]
  BY <1>2 DEF Index
<1>3. CASE mem' = [mem EXCEPT ![r].next = Index(r), ![r].index = Index(r),
                              ![r].applied = @ \cup {Entry(r).op}]
  <2> DEFINE new == mem[r].applied \cup {Entry(r).op}
  <2>1. mem' = [mem EXCEPT ![r].next = Index(r), ![r].index = Index(r), ![r].applied = new]
    BY <1>3
  <2> HIDE DEF new
  <2> QED
    BY <2>1 DEF Index
<1>4. CASE mem' = [mem EXCEPT ![r].next = Index(r), ![r].failed = TRUE]
  BY <1>4 DEF Index
<1> QED
  BY <1>1, <1>2, <1>3, <1>4
  DEF Apply, ApplyFenced, ApplyReused, ApplyDuplicate, ApplyReplay, ApplyMaterialize,
      ApplyConflict, ApplyFatal, ApplyError, Skip

(* It writes the tables by materializing an entry, or not at all. *)
LEMMA ApplyCarries ==
    ASSUME SnapshotInv, NEW r \in Replicas, Apply(r), UNCHANGED <<snaps, taking>>
    PROVE  SnapshotInv'
<1>1. /\ log \in Seq([op : Ops, at : Times])
      /\ DOMAIN db = Replicas /\ DOMAIN mem = Replicas
      /\ HoldsFor(db[r], mem[r], snaps[r], taking[r])
  BY SnapshotInvParts
<1>2. /\ DOMAIN db[r] = {"tables", "idx", "ops"} /\ TablesCarry(db[r].tables)
      /\ DOMAIN mem[r] = {"next", "applied", "index", "persisted", "failed"}
      /\ mem[r].next \in Nat
  BY <1>1 DEF HoldsFor
<1>3. UNCHANGED <<log, inflight>>
  BY DEF Apply, ApplyFenced, ApplyReused, ApplyDuplicate, ApplyReplay, ApplyMaterialize,
         ApplyConflict, ApplyFatal, ApplyError
<1>4. /\ DOMAIN mem' = Replicas
      /\ \A q \in Replicas \ {r} : mem'[q] = mem[q]
      /\ DOMAIN mem'[r] = DOMAIN mem[r]
      /\ mem'[r].next = mem[r].next + 1
  BY <1>1, <1>2, ApplyMoves
<1>5. /\ DOMAIN db' = DOMAIN db
      /\ \A q \in Replicas \ {r} : db'[q] = db[q]
      /\ DOMAIN db'[r] = {"tables", "idx", "ops"} /\ TablesCarry(db'[r].tables)
  <2>1. CASE UNCHANGED db
    BY <1>2, <2>1
  <2>2. CASE db' = [db EXCEPT ![r].idx = Index(r)]
    <3>1. /\ DOMAIN db' = DOMAIN db
          /\ \A q \in Replicas \ {r} : db'[q] = db[q]
          /\ DOMAIN db'[r] = DOMAIN db[r] /\ db'[r].tables = db[r].tables
      BY <1>1, <1>2, <2>2
    <3> QED
      BY <1>2, <3>1
  <2>3. CASE ApplyMaterialize(r)
    <3>1. /\ db' = [db EXCEPT ![r] = Materialized(r)]
          /\ HasNext(r) /\ Result(r).status = "ok"
      BY <2>3 DEF ApplyMaterialize
    <3>2. Entry(r).op \in Ops
      <4>1. Len(log) \in Nat /\ Index(r) \in 1..Len(log)
        BY <1>1, <1>2, <3>1 DEF HasNext, Index
      <4> QED
        BY <1>1, <4>1, EntryType DEF Entry
    <3>3. TablesCarry(Result(r).tables)
      <4>1. PICK t, op, now : t = db[r].tables /\ op = Entry(r).op /\ now = Entry(r).at
        OBVIOUS
      <4>2. Result(r) = materialize(t, op, now)
        BY <4>1 DEF Result
      <4>3. TablesCarry(t) /\ op \in Ops /\ materialize(t, op, now).status = "ok"
        BY <1>2, <3>1, <3>2, <4>1, <4>2
      <4>4. TablesCarry(materialize(t, op, now).tables)
        BY ONLY <4>3, MaterializeCarries
      <4> QED
        BY <4>2, <4>4
    <3>4. /\ DOMAIN db' = DOMAIN db /\ db'[r] = Materialized(r)
          /\ \A q \in Replicas \ {r} : db'[q] = db[q]
      BY <1>1, <3>1
    <3>5. DOMAIN Materialized(r) = {"tables", "idx", "ops"}
          /\ Materialized(r).tables = Result(r).tables
      BY DEF Materialized
    <3> QED
      BY <3>3, <3>4, <3>5
  <2> QED
    BY <2>1, <2>2, <2>3
    DEF Apply, ApplyFenced, ApplyReused, ApplyDuplicate, ApplyReplay, ApplyMaterialize,
        ApplyConflict, ApplyFatal, ApplyError
<1>6. mem'[r].next \in Nat
  BY <1>2, <1>4
<1>7. HoldsFor(db'[r], mem'[r], snaps'[r], taking'[r])
  BY <1>1, <1>2, <1>4, <1>5, <1>6 DEF HoldsFor
<1> QED
  BY <1>1, <1>3, <1>4, <1>5, <1>7, SnapshotStep

(* Proposals, losses and commits move the log and what is in flight. *)
LEMMA CallersCarry ==
    ASSUME SnapshotInv, UNCHANGED <<db, mem, snaps, taking>>,
           \/ \E r \in Replicas, op \in Ops : Propose(r, op)
           \/ \E op \in inflight : Lose(op)
           \/ \E op \in inflight, at \in Times : Commit(op, at)
           \/ UNCHANGED <<log, inflight>>
    PROVE  SnapshotInv'
<1>1. log \in Seq([op : Ops, at : Times]) /\ inflight \subseteq Ops
  BY DEF SnapshotInv
<1>2. log' \in Seq([op : Ops, at : Times]) /\ inflight' \subseteq Ops
  <2>1. ASSUME NEW op \in inflight, NEW at \in Times, Commit(op, at)
        PROVE  log' \in Seq([op : Ops, at : Times]) /\ inflight' \subseteq Ops
    <3>1. [op |-> op, at |-> at] \in [op : Ops, at : Times]
      BY <1>1
    <3> QED
      BY <1>1, <2>1, <3>1 DEF Commit
  <2> QED
    BY <1>1, <2>1 DEF Propose, Lose
<1> QED
  BY <1>2 DEF SnapshotInv

(* Every step keeps SnapshotInv. *)
LEMMA NextSnapshot == SnapshotInv /\ [SNext]_svars => SnapshotInv'
<1> SUFFICES ASSUME SnapshotInv, [SNext]_svars PROVE SnapshotInv'
  OBVIOUS
<1>1. CASE UNCHANGED svars
  BY <1>1, CallersCarry DEF svars, vars
<1>2. CASE Logged /\ UNCHANGED <<snaps, taking, taken, have>>
  <2>1. CASE \E r \in Replicas : Apply(r)
    BY <1>2, <2>1, ApplyCarries
  <2>2. CASE ~\E r \in Replicas : Apply(r)
    <3>1. \/ \E r \in Replicas, op \in Ops : Propose(r, op)
          \/ \E op \in inflight : Lose(op)
          \/ \E op \in inflight, at \in Times : Commit(op, at)
      BY <1>2, <2>2 DEF Logged
    <3>2. UNCHANGED <<db, mem>>
      BY <3>1 DEF Propose, Lose, Commit
    <3> QED
      BY <1>2, <3>1, <3>2, CallersCarry
  <2> QED
    BY <2>1, <2>2
<1>3. CASE \E r \in Replicas : Replicate(r)
  BY <1>3, CallersCarry DEF Replicate, vars
<1>4. CASE \E r \in Replicas : Snapshot(r)
  BY <1>4, SnapshotBegins
<1>5. CASE \E r \in Replicas : Persist(r)
  BY <1>5, PersistCarries
<1>6. CASE \E r, s \in Replicas : InstallSnapshot(r, s) \/ InstallFails(r, s)
  BY <1>6, InstallCarries
<1>7. CASE \E r \in Replicas : SRestart(r)
  BY <1>7, RestartCarries
<1> QED
  BY <1>1, <1>2, <1>3, <1>4, <1>5, <1>6, <1>7 DEF SNext

(* It holds of empty databases and no snapshots. *)
LEMMA InitSnapshot == SInit => SnapshotInv
<1> SUFFICES ASSUME SInit PROVE SnapshotInv
  OBVIOUS
<1>1. /\ log = <<>> /\ inflight = {}
      /\ db = [r \in Replicas |-> EmptyDb]
      /\ mem = [r \in Replicas |-> Boot(EmptyDb)]
      /\ snaps = [r \in Replicas |-> None] /\ taking = [r \in Replicas |-> None]
  BY DEF SInit, Init
<1>2. /\ DOMAIN EmptyDb = {"tables", "idx", "ops"} /\ EmptyDb.tables = EmptyTables
      /\ DOMAIN Boot(EmptyDb) = {"next", "applied", "index", "persisted", "failed"}
      /\ Boot(EmptyDb).next = 0
  BY DEF EmptyDb, Boot
<1>3. TablesCarry(EmptyTables)
  <2>1. EmptyTables.events = {} /\ EmptyTables.audit = {} /\ EmptyTables.jobs = {}
    BY DEF EmptyTables
  <2>2. Cardinality({}) = 0 /\ IsFiniteSet({})
    BY FS_EmptySet
  <2>3. 1..0 = {}
    OBVIOUS
  <2> QED
    BY <2>1, <2>2, <2>3 DEF TablesCarry, Carries, CursorDense, OnePerKey, JobsInv
<1>4. ASSUME NEW r \in Replicas PROVE HoldsFor(db[r], mem[r], snaps[r], taking[r])
  BY <1>1, <1>2, <1>3 DEF HoldsFor
<1>5. log \in Seq([op : Ops, at : Times]) /\ inflight \subseteq Ops
  BY <1>1
<1> QED
  BY <1>1, <1>4, <1>5, SnapshotInvParts

(* Whatever positions of the log the snapshots mix, whatever is replayed      *)
(* over a restored database and however often, no replica has a consequence   *)
(* twice or a gap in its numbers (Persist, Restore, emitEvent, emitAudit,     *)
(* enqueueJobs).                                                             *)
THEOREM ConsequencesNeverTwice == SSpec => []ConsequencesOnce
<1>1. SnapshotInv => ConsequencesOnce
  BY DEF SnapshotInv, Carries, ConsequencesOnce
<1> QED
  BY <1>1, InitSnapshot, NextSnapshot, PTL DEF SSpec

=============================================================================

------------------------ MODULE RecordRequestsProofs ------------------------
(***************************************************************************)
(* Proofs about RecordRequests for any number of concurrent requests of any *)
(* kind, any page size and any number of broken connections and lost        *)
(* answers, on SQLite and on PostgreSQL.                                    *)
(***************************************************************************)
EXTENDS RecordRequests, FiniteSetTheorems, TLAPS

InTx == {"write", "emit", "key", "commit"}
Pcs  == {"idle", "lookup", "replay", "fetch", "begin"} \cup InTx

(* The shapes of a request and of a transaction. *)
IsReq(q) ==
    /\ q = [pc |-> q.pc, ask |-> q.ask, at |-> q.at, cur |-> q.cur, saw |-> q.saw]
    /\ q.pc \in Pcs /\ q.at \in Nat \ {0} /\ q.saw \in Nat
IsTx(t) ==
    t = [rows |-> t.rows, gone |-> t.gone, idem |-> t.idem, events |-> t.events, audit |-> t.audit,
         jobs |-> t.jobs]

(* What a request asks for is known by its place in the handler. *)
AskSound(q) ==
    /\ q.ask \in Requests /\ q.ask.kind \in {"create", "update", "delete"}
    /\ q.ask.kind # "create" => q.ask.ver \in Nat
    /\ q.ask.kind = "create" => q.at <= Len(q.ask.puts)
    /\ q.pc \in {"lookup", "replay", "key"} => q.ask.kind = "create" /\ q.ask.key # None
    /\ q.pc = "fetch" => q.ask.kind = "update"

ShapeInv ==
    /\ req = [c \in Requesters |-> req[c]] /\ tx = [c \in Requesters |-> tx[c]]
    /\ \A c \in Requesters :
          /\ IsReq(req[c]) /\ (req[c].pc # "idle" => AskSound(req[c]))
          /\ IF req[c].pc \in InTx THEN IsTx(tx[c]) ELSE tx[c] = NoTx
    /\ seq \in Nat /\ IsFiniteSet(events)
    /\ stream = [after |-> stream.after, got |-> stream.got] /\ stream.after \in Nat

(* The record that a request is writing. *)
Subject(q) == IF q.ask.kind = "create" THEN q.ask.puts[q.at].rec ELSE q.ask.rec

(* The facts and jobs of a set of events. *)
FactsOf(E) == {e.seq : e \in {f \in E : f.topic # "record.deleted"}}
JobsOf(E)  == {e.seq : e \in {f \in E : f.topic \in HookTopics}}

(* An event announces what its transaction did to its record. *)
Announces(e, t) ==
    IF e.topic = "record.deleted" THEN e.rec \in t.gone
    ELSE \E w \in t.rows : w.rec = e.rec /\ w.ver = e.ver

(* What a transaction has done so far: every record it touched is announced *)
(* by one event, but for the one it has just written.                       *)
TxSound(q, t) ==
    /\ IsFiniteSet(t.events)
    /\ \A w \in t.rows : w.rec \notin t.gone /\ w.ver \in Nat
    /\ \A w, v \in t.rows : w.rec = v.rec => w = v
    /\ \A e \in t.events : e.ver \in Nat /\ Announces(e, t)
    /\ \A e, f \in t.events : e.rec = f.rec \/ e.seq = f.seq => e = f
    /\ \A r \in Touched(t) : (\E e \in t.events : e.rec = r) \/ (q.pc = "emit" /\ r = Subject(q))
    /\ q.pc = "emit" => Subject(q) \in Touched(t) /\ \A e \in t.events : e.rec # Subject(q)
    /\ t.audit = FactsOf(t.events) /\ t.jobs = JobsOf(t.events)

(* What the three kinds of requests write. *)
KindSound(q, t) ==
    /\ q.pc = "write" /\ q.ask.kind # "create" => t = EmptyTx
    /\ q.ask.kind = "create" =>
          /\ t.gone = {} /\ \A w \in t.rows : w.ver = 1
          /\ \A e \in t.events : e.topic = "record.created"
    /\ q.ask.kind = "update" /\ q.pc \in {"emit", "commit"} =>
          /\ t.rows = {[rec |-> q.ask.rec, ver |-> q.ask.ver + 1, vals |-> Merge(q.cur.vals, q.ask.patch)]}
          /\ t.gone = {} /\ \A e \in t.events : e.topic = "record.updated"
    /\ q.ask.kind = "delete" /\ q.pc \in {"emit", "commit"} => t.rows = {} /\ t.gone = {q.ask.rec}

(* The key that a transaction has inserted. *)
KeySound(q, t) ==
    /\ \A i \in t.idem : q.pc = "commit" /\ q.ask.kind = "create" /\ q.ask.key # None /\ i.key = q.ask.key
    /\ q.pc = "commit" /\ q.ask.kind = "create" /\ q.ask.key # None => t.idem # {}

(* A transaction and what is committed.  Its locks keep others off its      *)
(* records, so that its events are the newest about them.                   *)
DataSound(q, t) ==
    /\ \A e \in t.events : /\ e.seq \in 1 .. seq
                           /\ \A f \in events : f.seq # e.seq /\ (f.rec = e.rec => f.seq < e.seq)
    /\ q.ask.kind = "update" /\ q.pc \in {"emit", "commit"} =>
          \E w \in rows : w.rec = q.ask.rec /\ w.ver = q.ask.ver
    /\ \A i \in t.idem, j \in idem : i.key # j.key

(* On SQLite the open transaction drew the last numbers, and no poll came    *)
(* since it began.                                                          *)
SqliteSound(t) ==
    /\ Cardinality(t.events) \in 0 .. seq
    /\ \A e \in t.events : e.seq > seq - Cardinality(t.events)
    /\ \A e \in events : e.seq <= seq - Cardinality(t.events)
    /\ stream.after <= seq - Cardinality(t.events)

OpenSound(q, t) ==
    /\ TxSound(q, t) /\ KindSound(q, t) /\ KeySound(q, t) /\ DataSound(q, t)
    /\ provider = "sqlite" => SqliteSound(t)

OpenInv == \A c \in Requesters : req[c].pc \in InTx => OpenSound(req[c], tx[c])

(* Two open transactions. *)
Apart(t, u) ==
    /\ Touched(t) \cap Touched(u) = {}
    /\ \A i \in t.idem, j \in u.idem : i.key # j.key
    /\ \A e \in t.events, f \in u.events : e.seq # f.seq

ApartInv ==
    \A c, d \in Requesters : c # d /\ req[c].pc \in InTx /\ req[d].pc \in InTx =>
        provider # "sqlite" /\ Apart(tx[c], tx[d])

(* The journal: numbers are unique, and the newest event about a record     *)
(* tells its state.                                                         *)
Newest(e) == \A f \in events : f.rec = e.rec => f.seq <= e.seq

JournalInv ==
    /\ \A e \in events : e.seq \in 1 .. seq /\ e.ver \in Nat
    /\ \A e, f \in events : e.seq = f.seq => e = f
    /\ \A e \in events : \E f \in events : f.rec = e.rec /\ Newest(f)
    /\ \A e \in events : Newest(e) =>
          {w.ver : w \in RowOf(e.rec)} = IF e.topic = "record.deleted" THEN {} ELSE {e.ver}
    /\ \A w \in rows : w.ver \in Nat /\ \E e \in events : e.rec = w.rec
    /\ \A w, v \in rows : w.rec = v.rec => w = v
    /\ audit = FactsOf(events) /\ jobs = JobsOf(events)

(* No event since its record was last created names a later version than   *)
(* the row has.                                                             *)
VersionsInv ==
    \A e \in events, w \in rows :
        /\ e.rec = w.rec /\ e.topic # "record.deleted"
        /\ \A f \in events : f.rec = e.rec /\ f.topic = "record.created" => f.seq <= e.seq
        => e.ver <= w.ver

(* What an update has read is no older than what its client saw, and it is   *)
(* the row's while the version is the same.                                 *)
BornSince(q) == \E e \in events : e.rec = q.ask.rec /\ e.topic = "record.created" /\ e.seq > q.saw

Reads(q) ==
    q.ask.kind = "update" /\ ~BornSince(q) =>
        \A w \in RowOf(q.ask.rec) :
            /\ q.ask.ver <= w.ver
            /\ q.pc # "fetch" => /\ q.cur.ver \in Nat /\ q.ask.ver <= q.cur.ver /\ q.cur.ver <= w.ver
                                 /\ (w.ver = q.cur.ver => w.vals = q.cur.vals)

(* The event by which its client knows the version. *)
SawIt(q) == q.ask.kind = "update" => \E e \in events : e.rec = q.ask.rec /\ e.seq = q.saw

ReadsInv == \A c \in Requesters : req[c].pc # "idle" => Reads(req[c]) /\ SawIt(req[c])

(* A key that was used is in the table. *)
KeysInv ==
    /\ \A n \in DOMAIN made : made[n].kind = "create" /\ made[n].key # None =>
          \E i \in idem : i.key = made[n].key
    /\ KeyedCreateOnce
    /\ made \in Seq(Requests)

StreamInv ==
    provider = "sqlite" => /\ NothingSkipped
                           /\ stream.after <= seq

RequestsInv ==
    /\ provider \in {"sqlite", "postgres"}
    /\ ShapeInv /\ OpenInv /\ ApartInv /\ JournalInv /\ VersionsInv /\ ReadsInv /\ KeysInv /\ StreamInv

-----------------------------------------------------------------------------
(* The committed data and the journal when nothing of them changes. *)
LEMMA DataStays ==
    ASSUME RequestsInv, seq' \in Nat, seq' >= seq, UNCHANGED <<provider, data, stream, made>>
    PROVE  /\ JournalInv' /\ VersionsInv' /\ KeysInv' /\ StreamInv'
           /\ IsFiniteSet(events') /\ seq \in Nat
           /\ stream' = [after |-> stream'.after, got |-> stream'.got] /\ stream'.after \in Nat
<1> USE DEF data
<1>1. seq \in Nat /\ IsFiniteSet(events') BY DEF RequestsInv, ShapeInv
<1>2. stream' = [after |-> stream'.after, got |-> stream'.got] /\ stream'.after \in Nat
    BY DEF RequestsInv, ShapeInv
<1>3. JournalInv'
    <2>1. JournalInv BY DEF RequestsInv
    <2>2. \A e \in events' : e.seq \in 1 .. seq' /\ e.ver \in Nat BY <1>1, <2>1 DEF JournalInv
    <2> QED BY <2>1, <2>2 DEF JournalInv, Newest, RowOf, FactsOf, JobsOf
<1>4. VersionsInv' BY DEF RequestsInv, VersionsInv
<1>5. KeysInv' BY DEF RequestsInv, KeysInv, KeyedCreateOnce
<1>6. StreamInv' BY <1>1, <1>2 DEF RequestsInv, StreamInv, NothingSkipped
<1> QED BY <1>1, <1>2, <1>3, <1>4, <1>5, <1>6

(* What a request has read, when the committed data does not change. *)
LEMMA ReadStays ==
    ASSUME NEW q, Reads(q), SawIt(q), UNCHANGED data
    PROVE  Reads(q)' /\ SawIt(q)'
BY DEF data, Reads, SawIt, BornSince, RowOf

(* An open transaction stays sound when numbers are drawn by others. *)
LEMMA OpenStays ==
    ASSUME NEW q, NEW t, OpenSound(q, t), UNCHANGED data, UNCHANGED <<provider, stream>>,
           seq \in Nat, seq' \in Nat, seq' >= seq, provider = "sqlite" => seq' = seq
    PROVE  OpenSound(q, t)'
<1>1. TxSound(q, t)' /\ KindSound(q, t)' /\ KeySound(q, t)'
    BY DEF OpenSound, TxSound, KindSound, KeySound
<1>2. DataSound(q, t)' BY DEF OpenSound, data, DataSound
<1>3. provider' = "sqlite" => SqliteSound(t)' BY DEF OpenSound, data, SqliteSound
<1> QED BY <1>1, <1>2, <1>3 DEF OpenSound

(* A step of a handler outside any transaction changes its request only. *)
LEMMA PlainStep ==
    ASSUME RequestsInv, NEW c \in Requesters, NEW q,
           req[c].pc \notin InTx, q.pc \notin InTx, IsReq(q),
           q.pc # "idle" => AskSound(q) /\ Reads(q) /\ SawIt(q),
           req' = [req EXCEPT ![c] = q], UNCHANGED <<provider, data, seq, tx, stream, made>>
    PROVE  RequestsInv'
<1>0. seq \in Nat BY DEF RequestsInv, ShapeInv
<1>1. /\ JournalInv' /\ VersionsInv' /\ KeysInv' /\ StreamInv'
      /\ IsFiniteSet(events') /\ seq \in Nat
      /\ stream' = [after |-> stream'.after, got |-> stream'.got] /\ stream'.after \in Nat
    BY <1>0, DataStays
<1>2. req = [d \in Requesters |-> req[d]] /\ tx = [d \in Requesters |-> tx[d]]
    BY DEF RequestsInv, ShapeInv
<1>3. /\ req' = [d \in Requesters |-> req'[d]] /\ req'[c] = q
      /\ \A d \in Requesters : d # c => req'[d] = req[d]
    BY <1>2
<1>4. ShapeInv'
    <2>1. \A d \in Requesters :
             /\ IsReq(req'[d]) /\ (req'[d].pc # "idle" => AskSound(req'[d]))
             /\ IF req'[d].pc \in InTx THEN IsTx(tx[d]) ELSE tx[d] = NoTx
        BY <1>3 DEF RequestsInv, ShapeInv
    <2> QED BY <1>0, <1>1, <1>2, <1>3, <2>1 DEF ShapeInv, IsReq, AskSound, IsTx
<1>5. OpenInv'
    <2> SUFFICES ASSUME NEW d \in Requesters, req'[d].pc \in InTx PROVE OpenSound(req[d], tx[d])'
        BY DEF OpenInv
    <2>1. PICK p, t : p = req[d] /\ t = tx[d] /\ p = req'[d] /\ t = tx'[d] BY <1>3
    <2>2. OpenSound(p, t) BY <2>1 DEF RequestsInv, OpenInv
    <2>3. OpenSound(p, t)' BY <1>0, <2>2, OpenStays
    <2> QED BY <2>1, <2>3
<1>6. ApartInv'
    <2>1. ApartInv BY DEF RequestsInv
    <2> SUFFICES ASSUME NEW d \in Requesters, NEW e \in Requesters, d # e,
                        req'[d].pc \in InTx, req'[e].pc \in InTx
                 PROVE  provider' # "sqlite" /\ Apart(tx[d], tx[e])'
        BY DEF ApartInv
    <2>2. provider # "sqlite" /\ Apart(tx[d], tx[e]) BY <1>3, <2>1 DEF ApartInv
    <2>3. PICK t, u : t = tx[d] /\ u = tx[e] /\ t = tx'[d] /\ u = tx'[e] OBVIOUS
    <2> QED BY <2>2, <2>3 DEF Apart, Touched
<1>7. ReadsInv'
    <2> SUFFICES ASSUME NEW d \in Requesters, req'[d].pc # "idle"
                 PROVE  Reads(req[d])' /\ SawIt(req[d])'
        BY DEF ReadsInv
    <2>1. PICK p : p = req'[d] /\ Reads(p) /\ SawIt(p) BY <1>3 DEF RequestsInv, ReadsInv
    <2>2. Reads(p)' /\ SawIt(p)' BY <2>1, ReadStays
    <2> QED BY <2>1, <2>2
<1> QED BY <1>1, <1>4, <1>5, <1>6, <1>7 DEF RequestsInv

(* A request that moves on keeps what it asks for and what it has read. *)
LEMMA Moves ==
    ASSUME ShapeInv, NEW c \in Requesters, NEW pc \in Pcs, Goto(c, pc)
    PROVE  \E q : /\ req' = [req EXCEPT ![c] = q] /\ IsReq(q) /\ q.pc = pc
                  /\ q.ask = req[c].ask /\ q.at = req[c].at /\ q.cur = req[c].cur /\ q.saw = req[c].saw
<1>1. IsReq(req[c]) BY DEF ShapeInv
<1>2. PICK q : q = [req[c] EXCEPT !.pc = pc] OBVIOUS
<1>3. /\ q = [pc |-> q.pc, ask |-> q.ask, at |-> q.at, cur |-> q.cur, saw |-> q.saw] /\ q.pc = pc
      /\ q.ask = req[c].ask /\ q.at = req[c].at /\ q.cur = req[c].cur /\ q.saw = req[c].saw
    BY <1>1, <1>2 DEF IsReq
<1>4. req' = [req EXCEPT ![c] = q] BY <1>2 DEF Goto
<1>5. IsReq(q) BY <1>1, <1>3 DEF IsReq
<1> QED BY <1>3, <1>4, <1>5

(* The request of a requester that has been answered. *)
LEMMA IdleReq == IsReq(Idle) /\ Idle.pc = "idle" /\ "idle" \notin InTx
BY DEF IsReq, Idle, Pcs, InTx

(* A request arrives. *)
LEMMA StartStep ==
    ASSUME RequestsInv, RequestAssumption, NEW c \in Requesters, NEW ask \in Requests, Start(c, ask)
    PROVE  RequestsInv'
<1>1. req[c].pc \notin InTx BY DEF Start, At, InTx
<1>2. \A e \in events : e.seq \in Nat /\ e.ver \in Nat /\ seq \in Nat
    BY DEF RequestsInv, JournalInv, ShapeInv
<1> DEFINE Shape(q) == /\ q = [pc |-> q.pc, ask |-> q.ask, at |-> q.at, cur |-> q.cur, saw |-> q.saw]
                       /\ q.ask = ask /\ q.at = 1
<1> DEFINE Made(q) == /\ req' = [req EXCEPT ![c] = q] /\ Shape(q)
                      /\ q.pc \in {"lookup", "fetch", "begin"} /\ q.saw \in Nat
                      /\ ask.kind \in {"create", "update", "delete"}
                      /\ ask.kind # "create" => ask.ver \in Nat
                      /\ q.pc = "lookup" => ask.kind = "create" /\ ask.key # None
                      /\ q.pc = "fetch" <=> ask.kind = "update"
                      /\ ask.kind = "update" => \E e \in Seen(ask) : e.seq = q.saw
<1>3. PICK q : Made(q)
    <2>1. CASE ask.kind = "create"
        <3>1. PICK pc : /\ pc = IF ask.key # None THEN "lookup" ELSE "begin"
                        /\ req' = [req EXCEPT ![c] = [Idle EXCEPT !.ask = ask, !.pc = pc]]
            BY <2>1 DEF Start
        <3>2. PICK q : q = [Idle EXCEPT !.ask = ask, !.pc = pc] OBVIOUS
        <3>3. Shape(q) /\ q.pc = pc /\ q.saw = 0 BY <3>2 DEF Idle
        <3>4. req' = [req EXCEPT ![c] = q] BY <3>1, <3>2
        <3>5. q.pc \in {"lookup", "begin"} /\ (q.pc = "lookup" => ask.key # None) BY <3>1, <3>3
        <3> HIDE DEF Shape
        <3>6. Made(q) BY <2>1, <3>3, <3>4, <3>5
        <3> QED BY <3>6
    <2>2. CASE ask.kind = "update"
        <3>1. PICK e \in Seen(ask) :
                 req' = [req EXCEPT ![c] = [Idle EXCEPT !.ask = ask, !.pc = "fetch", !.saw = e.seq]]
            BY <2>2 DEF Start
        <3>2. e.seq \in Nat /\ ask.ver \in Nat BY <1>2, <3>1 DEF Seen
        <3>3. PICK q : q = [Idle EXCEPT !.ask = ask, !.pc = "fetch", !.saw = e.seq] OBVIOUS
        <3>4. Shape(q) /\ q.pc = "fetch" /\ q.saw = e.seq BY <3>3 DEF Idle
        <3> HIDE DEF Shape
        <3>5. Made(q) BY <2>2, <3>1, <3>2, <3>3, <3>4
        <3> QED BY <3>5
    <2>3. CASE ask.kind = "delete"
        <3>1. req' = [req EXCEPT ![c] = [Idle EXCEPT !.ask = ask, !.pc = "begin"]] /\ Seen(ask) # {}
            BY <2>3 DEF Start
        <3>2. ask.ver \in Nat BY <1>2, <3>1 DEF Seen
        <3>3. PICK q : q = [Idle EXCEPT !.ask = ask, !.pc = "begin"] OBVIOUS
        <3>4. Shape(q) /\ q.pc = "begin" /\ q.saw = 0 BY <3>3 DEF Idle
        <3>5. req' = [req EXCEPT ![c] = q] BY <3>1, <3>3
        <3> HIDE DEF Shape
        <3>6. Made(q) BY <2>3, <3>2, <3>4, <3>5
        <3> QED BY <3>6
    <2> QED BY <2>1, <2>2, <2>3 DEF Start
<1>6. IsReq(q) /\ q.pc \notin InTx BY <1>3 DEF IsReq, Pcs, InTx
<1>7. AskSound(q)
    <2>1. ask.kind = "create" => 1 <= Len(ask.puts) BY DEF RequestAssumption
    <2> QED BY <1>3, <2>1 DEF AskSound
<1>8. Reads(q) /\ SawIt(q)
    <2> SUFFICES ASSUME ask.kind = "update" PROVE Reads(q) /\ SawIt(q)
        BY <1>3 DEF Reads, SawIt
    <2>1. PICK e \in Seen(ask) : e.seq = q.saw BY <1>3
    <2>2. e \in events /\ e.topic # "record.deleted" /\ e.rec = q.ask.rec /\ e.ver = q.ask.ver /\ q.pc = "fetch"
        BY <1>3, <2>1 DEF Seen
    <2>3. ASSUME ~BornSince(q), NEW w \in RowOf(q.ask.rec) PROVE q.ask.ver <= w.ver
        <3>1. \A f \in events : f.rec = e.rec /\ f.topic = "record.created" => f.seq <= e.seq
            BY <1>2, <2>1, <2>2, <2>3 DEF BornSince
        <3>2. w \in rows /\ w.rec = e.rec BY <2>2 DEF RowOf
        <3> QED BY <2>2, <3>1, <3>2 DEF RequestsInv, VersionsInv
    <2> QED BY <2>1, <2>2, <2>3 DEF Reads, SawIt
<1>9. UNCHANGED <<provider, data, seq, tx, stream, made>> BY DEF Start
<1> QED BY <1>1, <1>3, <1>6, <1>7, <1>8, <1>9, PlainStep

(* The key is looked up. *)
LEMMA LookupStep ==
    ASSUME RequestsInv, NEW c \in Requesters, LookupKey(c) PROVE RequestsInv'
<1>1. PICK pc : pc \in {"replay", "begin"} /\ Goto(c, pc) BY DEF LookupKey
<1>2. ShapeInv BY DEF RequestsInv
<1>3. pc \in Pcs /\ pc \notin InTx /\ req[c].pc = "lookup" /\ req[c].pc \notin InTx
    BY <1>1 DEF Pcs, InTx, LookupKey, At
<1>4. PICK q : /\ req' = [req EXCEPT ![c] = q] /\ IsReq(q) /\ q.pc = pc
               /\ q.ask = req[c].ask /\ q.at = req[c].at /\ q.cur = req[c].cur /\ q.saw = req[c].saw
    BY <1>1, <1>2, <1>3, Moves
<1>5. AskSound(q) BY <1>1, <1>2, <1>3, <1>4 DEF ShapeInv, AskSound
<1>6. q.ask.kind = "create" BY <1>2, <1>3, <1>4 DEF ShapeInv, AskSound
<1>7. Reads(q) /\ SawIt(q) BY <1>6 DEF Reads, SawIt
<1>8. UNCHANGED <<provider, data, seq, tx, stream, made>> BY DEF LookupKey
<1> QED BY <1>3, <1>4, <1>5, <1>7, <1>8, PlainStep

(* The record that the key created is fetched. *)
LEMMA ReplayStep ==
    ASSUME RequestsInv, NEW c \in Requesters, ReplayKey(c) PROVE RequestsInv'
<1>2. ShapeInv BY DEF RequestsInv
<1>3. "begin" \in Pcs /\ "begin" \notin InTx /\ req[c].pc = "replay" /\ req[c].pc \notin InTx
    BY DEF Pcs, InTx, ReplayKey, At
<1>8. UNCHANGED <<provider, data, seq, tx, stream, made>> BY DEF ReplayKey
<1>9. CASE Goto(c, "begin")
    <2>4. PICK q : /\ req' = [req EXCEPT ![c] = q] /\ IsReq(q) /\ q.pc = "begin"
                   /\ q.ask = req[c].ask /\ q.at = req[c].at /\ q.cur = req[c].cur /\ q.saw = req[c].saw
        BY <1>2, <1>3, <1>9, Moves
    <2>5. AskSound(q) BY <1>2, <1>3, <2>4 DEF ShapeInv, AskSound
    <2>6. q.ask.kind = "create" BY <1>2, <1>3, <2>4 DEF ShapeInv, AskSound
    <2>7. Reads(q) /\ SawIt(q) BY <2>6 DEF Reads, SawIt
    <2> QED BY <1>3, <2>4, <2>5, <2>7, <1>8, PlainStep
<1>10. CASE Reply(c)
    <2>1. req' = [req EXCEPT ![c] = Idle] BY <1>10 DEF Reply
    <2> QED BY <1>3, <1>8, <2>1, IdleReq, PlainStep
<1> QED BY <1>9, <1>10 DEF ReplayKey

(* An update reads its record. *)
LEMMA FetchStep ==
    ASSUME RequestsInv, NEW c \in Requesters, Fetch(c) PROVE RequestsInv'
<1>2. ShapeInv BY DEF RequestsInv
<1>3. "begin" \in Pcs /\ "begin" \notin InTx /\ req[c].pc = "fetch" /\ req[c].pc \notin InTx
    BY DEF Pcs, InTx, Fetch, At
<1>4. UNCHANGED <<provider, data, seq, tx, stream, made>> BY DEF Fetch
<1>5. CASE Reply(c)
    <2>1. req' = [req EXCEPT ![c] = Idle] BY <1>5 DEF Reply
    <2> QED BY <1>3, <1>4, <2>1, IdleReq, PlainStep
<1>6. ASSUME NEW w \in RowOf(Ask(c).rec), req' = [req EXCEPT ![c].pc = "begin", ![c].cur = w]
      PROVE  RequestsInv'
    <2>0. PICK v : v = w OBVIOUS
    <2>1. IsReq(req[c]) /\ AskSound(req[c]) BY <1>2, <1>3 DEF ShapeInv
    <2>2. PICK q : q = [[req[c] EXCEPT !.pc = "begin"] EXCEPT !.cur = v] OBVIOUS
    <2>3. /\ q = [pc |-> q.pc, ask |-> q.ask, at |-> q.at, cur |-> q.cur, saw |-> q.saw] /\ q.pc = "begin"
          /\ q.ask = req[c].ask /\ q.at = req[c].at /\ q.cur = v /\ q.saw = req[c].saw
        BY <2>1, <2>2 DEF IsReq
    <2>4. req' = [req EXCEPT ![c] = q]
        <3>1. req = [d \in Requesters |-> req[d]] BY <1>2 DEF ShapeInv
        <3> QED BY <1>6, <2>0, <2>2, <3>1
    <2>5. IsReq(q) /\ q.pc \notin InTx BY <1>3, <2>1, <2>3 DEF IsReq
    <2>6. AskSound(q) /\ q.ask.ver \in Nat BY <1>3, <2>1, <2>3 DEF AskSound
    <2>7. Reads(req[c]) /\ SawIt(req[c]) BY <1>3 DEF RequestsInv, ReadsInv
    <2>8. SawIt(q) BY <2>3, <2>7 DEF SawIt
    <2>9. v \in rows /\ v.rec = q.ask.rec /\ v.ver \in Nat
        BY <2>0, <2>3 DEF RowOf, Ask, RequestsInv, JournalInv
    <2>10. Reads(q)
        <3> SUFFICES ASSUME q.ask.kind = "update", ~BornSince(q), NEW u \in RowOf(q.ask.rec)
                     PROVE  /\ q.ask.ver <= u.ver
                            /\ q.cur.ver \in Nat /\ q.ask.ver <= q.cur.ver /\ q.cur.ver <= u.ver
                            /\ u.ver = q.cur.ver => u.vals = q.cur.vals
            BY DEF Reads
        <3>1. u = v BY <2>9 DEF RowOf, RequestsInv, JournalInv
        <3>2. ~BornSince(req[c]) BY <2>3 DEF BornSince
        <3>3. q.ask.ver <= u.ver BY <2>3, <2>7, <3>2 DEF Reads
        <3> QED BY <2>3, <2>9, <3>1, <3>3
    <2> QED BY <1>3, <1>4, <2>4, <2>5, <2>6, <2>8, <2>10, PlainStep
<1> QED BY <1>5, <1>6 DEF Fetch

(* A transaction that is open holds something other than NoTx. *)
LEMMA OpenTx ==
    ASSUME NEW t, IsTx(t) PROVE t # NoTx
<1>1. DOMAIN t = {"rows", "gone", "idem", "events", "audit", "jobs"} BY DEF IsTx
<1>2. DOMAIN NoTx = {"open"} BY DEF NoTx
<1>3. "open" \notin {"rows", "gone", "idem", "events", "audit", "jobs"} OBVIOUS
<1> QED BY <1>1, <1>2, <1>3

(* A transaction is open between Begin and its end. *)
LEMMA OpenIff ==
    ASSUME ShapeInv, NEW c \in Requesters PROVE tx[c] # NoTx <=> req[c].pc \in InTx
BY OpenTx DEF ShapeInv

(* What the others have read, when nothing of the committed data changes. *)
LEMMA OthersRead ==
    ASSUME ReadsInv, NEW c \in Requesters, NEW q, UNCHANGED data,
           q.pc # "idle" => Reads(q) /\ SawIt(q), req'[c] = q,
           \A d \in Requesters : d # c => req'[d] = req[d]
    PROVE  ReadsInv'
<1> SUFFICES ASSUME NEW d \in Requesters, req'[d].pc # "idle" PROVE Reads(req[d])' /\ SawIt(req[d])'
    BY DEF ReadsInv
<1>1. PICK p : p = req'[d] /\ Reads(p) /\ SawIt(p) BY DEF ReadsInv
<1>2. Reads(p)' /\ SawIt(p)' BY <1>1, ReadStays
<1> QED BY <1>1, <1>2

(* The transactions of the others, when nothing of the committed data changes. *)
LEMMA OthersOpen ==
    ASSUME OpenInv, ApartInv, NEW c \in Requesters, UNCHANGED data, UNCHANGED <<provider, stream>>,
           seq \in Nat, seq' \in Nat, seq' >= seq,
           \A d \in Requesters : d # c => req'[d] = req[d] /\ tx'[d] = tx[d],
           NEW d \in Requesters, d # c, req[d].pc \in InTx, provider = "sqlite" => seq' = seq
    PROVE  OpenSound(req[d], tx[d])'
<1>1. PICK p, t : p = req[d] /\ t = tx[d] /\ p = req'[d] /\ t = tx'[d] OBVIOUS
<1>2. OpenSound(p, t) BY <1>1 DEF OpenInv
<1>3. OpenSound(p, t)' BY <1>2, OpenStays
<1> QED BY <1>1, <1>3

(* A transaction is rolled back, or a request without one is answered. *)
LEMMA RollbackStep ==
    ASSUME RequestsInv, NEW c \in Requesters, Rollback(c), UNCHANGED <<provider, data, stream, made>>
    PROVE  RequestsInv'
<1>0. /\ ShapeInv /\ OpenInv /\ ApartInv /\ JournalInv /\ ReadsInv /\ StreamInv
      /\ provider \in {"sqlite", "postgres"} /\ seq \in Nat
    BY DEF RequestsInv, ShapeInv
<1>1. req = [d \in Requesters |-> req[d]] /\ tx = [d \in Requesters |-> tx[d]] BY <1>0 DEF ShapeInv
<1>2. /\ req' = [req EXCEPT ![c] = Idle] /\ tx' = [tx EXCEPT ![c] = NoTx]
      /\ seq' = IF provider = "sqlite" /\ tx[c] # NoTx THEN seq - Cardinality(tx[c].events) ELSE seq
    BY DEF Rollback, Reply
<1>3. /\ req' = [d \in Requesters |-> req'[d]] /\ req'[c] = Idle
      /\ tx' = [d \in Requesters |-> tx'[d]] /\ tx'[c] = NoTx
      /\ \A d \in Requesters : d # c => req'[d] = req[d] /\ tx'[d] = tx[d]
    BY <1>1, <1>2
<1>4. \A d \in Requesters :
         /\ IsReq(req'[d]) /\ (req'[d].pc # "idle" => AskSound(req'[d]))
         /\ IF req'[d].pc \in InTx THEN IsTx(tx'[d]) ELSE tx'[d] = NoTx
    BY <1>0, <1>3, IdleReq DEF ShapeInv
<1>5. ReadsInv' BY <1>0, <1>3, IdleReq, OthersRead
<1>6. CASE provider = "sqlite" /\ tx[c] # NoTx
    <2>1. req[c].pc \in InTx BY <1>0, <1>6, OpenIff
    <2>2. SqliteSound(tx[c]) BY <1>0, <1>6, <2>1 DEF OpenInv, OpenSound
    <2>3. PICK n : n = Cardinality(tx[c].events) /\ n \in 0 .. seq
        BY <2>2 DEF SqliteSound
    <2>4. seq' = seq - n /\ seq' \in Nat BY <1>0, <1>2, <1>6, <2>3
    <2>5. (\A e \in events : e.seq <= seq') /\ stream.after <= seq' BY <2>2, <2>3, <2>4 DEF SqliteSound
    <2>6. \A d \in Requesters : req'[d].pc \notin InTx BY <1>0, <1>3, <1>6, <2>1, IdleReq DEF ApartInv
    <2>7. JournalInv'
        <3>1. \A e \in events' : e.seq \in 1 .. seq' /\ e.ver \in Nat
            BY <1>0, <2>4, <2>5 DEF JournalInv, data
        <3> QED BY <1>0, <3>1 DEF JournalInv, Newest, RowOf, FactsOf, JobsOf, data
    <2>8. VersionsInv' /\ KeysInv' BY DEF RequestsInv, VersionsInv, KeysInv, KeyedCreateOnce, data
    <2>9. StreamInv' BY <1>0, <2>5 DEF StreamInv, NothingSkipped, data
    <2>10. ShapeInv' BY <1>0, <1>3, <1>4, <2>4 DEF ShapeInv, data, IsReq, AskSound, IsTx
    <2>11. OpenInv' /\ ApartInv' BY <2>6 DEF OpenInv, ApartInv
    <2> QED BY <1>0, <1>5, <2>7, <2>8, <2>9, <2>10, <2>11 DEF RequestsInv
<1>7. CASE seq' = seq
    <2>1. /\ JournalInv' /\ VersionsInv' /\ KeysInv' /\ StreamInv' /\ IsFiniteSet(events')
          /\ stream' = [after |-> stream'.after, got |-> stream'.got] /\ stream'.after \in Nat
        BY <1>0, <1>7, DataStays
    <2>2. ShapeInv' BY <1>0, <1>3, <1>4, <1>7, <2>1 DEF ShapeInv, IsReq, AskSound, IsTx
    <2>3. OpenInv'
        <3> SUFFICES ASSUME NEW d \in Requesters, req'[d].pc \in InTx PROVE OpenSound(req[d], tx[d])'
            BY DEF OpenInv
        <3>1. d # c /\ req[d].pc \in InTx BY <1>3, IdleReq
        <3> QED BY <1>0, <1>3, <1>7, <3>1, OthersOpen
    <2>4. ApartInv'
        <3> SUFFICES ASSUME NEW d \in Requesters, NEW e \in Requesters, d # e,
                            req'[d].pc \in InTx, req'[e].pc \in InTx
                     PROVE  provider' # "sqlite" /\ Apart(tx[d], tx[e])'
            BY DEF ApartInv
        <3>1. d # c /\ e # c /\ req[d].pc \in InTx /\ req[e].pc \in InTx BY <1>3, IdleReq
        <3>2. provider # "sqlite" /\ Apart(tx[d], tx[e]) BY <1>0, <3>1 DEF ApartInv
        <3>3. PICK t, u : t = tx[d] /\ u = tx[e] /\ t = tx'[d] /\ u = tx'[e] BY <1>3, <3>1
        <3> QED BY <3>2, <3>3 DEF Apart, Touched
    <2> QED BY <1>0, <1>5, <2>1, <2>2, <2>3, <2>4 DEF RequestsInv
<1> QED BY <1>2, <1>6, <1>7

(* A step inside a transaction changes the request, the transaction and, when *)
(* it draws a number, the sequence.                                           *)
LEMMA ProgressStep ==
    ASSUME RequestsInv, NEW c \in Requesters, NEW q, NEW t,
           q.pc \in InTx, IsReq(q), AskSound(q), IsTx(t), Reads(q) /\ SawIt(q), OpenSound(q, t)',
           \A d \in Requesters : d # c /\ req[d].pc \in InTx =>
               provider # "sqlite" /\ Apart(tx[d], t) /\ Apart(t, tx[d]),
           req' = [req EXCEPT ![c] = q], tx' = [tx EXCEPT ![c] = t], seq' \in {seq, seq + 1},
           UNCHANGED <<provider, data, stream, made>>
    PROVE  RequestsInv'
<1>0. /\ ShapeInv /\ OpenInv /\ ApartInv /\ ReadsInv
      /\ provider \in {"sqlite", "postgres"} /\ seq \in Nat
    BY DEF RequestsInv, ShapeInv
<1>1. req = [d \in Requesters |-> req[d]] /\ tx = [d \in Requesters |-> tx[d]] BY <1>0 DEF ShapeInv
<1>2. /\ req' = [d \in Requesters |-> req'[d]] /\ req'[c] = q
      /\ tx' = [d \in Requesters |-> tx'[d]] /\ tx'[c] = t
      /\ \A d \in Requesters : d # c => req'[d] = req[d] /\ tx'[d] = tx[d]
    BY <1>1
<1>3. \A d \in Requesters :
         /\ IsReq(req'[d]) /\ (req'[d].pc # "idle" => AskSound(req'[d]))
         /\ IF req'[d].pc \in InTx THEN IsTx(tx'[d]) ELSE tx'[d] = NoTx
    BY <1>0, <1>2 DEF ShapeInv
<1>4. seq' \in Nat /\ seq' >= seq BY <1>0
<1>5. /\ JournalInv' /\ VersionsInv' /\ KeysInv' /\ StreamInv' /\ IsFiniteSet(events')
      /\ stream' = [after |-> stream'.after, got |-> stream'.got] /\ stream'.after \in Nat
    BY <1>4, DataStays
<1>6. ReadsInv' BY <1>0, <1>2, OthersRead
<1>7. ShapeInv' BY <1>0, <1>2, <1>3, <1>4, <1>5 DEF ShapeInv, IsReq, AskSound, IsTx
<1>8. OpenInv'
    <2> SUFFICES ASSUME NEW d \in Requesters, req'[d].pc \in InTx PROVE OpenSound(req[d], tx[d])'
        BY DEF OpenInv
    <2>1. CASE d = c BY <1>2, <2>1
    <2>2. CASE d # c
        <3>1. req[d].pc \in InTx /\ provider # "sqlite" BY <1>2, <2>2
        <3> QED BY <1>0, <1>2, <1>4, <2>2, <3>1, OthersOpen
    <2> QED BY <2>1, <2>2
<1>9. ApartInv'
    <2> SUFFICES ASSUME NEW d \in Requesters, NEW e \in Requesters, d # e,
                        req'[d].pc \in InTx, req'[e].pc \in InTx
                 PROVE  provider' # "sqlite" /\ Apart(tx[d], tx[e])'
        BY DEF ApartInv
    <2>1. PICK u, v : u = tx'[d] /\ v = tx'[e] OBVIOUS
    <2>2. provider # "sqlite" /\ Apart(u, v)
        <3>1. CASE d = c BY <1>2, <2>1, <3>1
        <3>2. CASE e = c BY <1>2, <2>1, <3>2
        <3>3. CASE d # c /\ e # c BY <1>0, <1>2, <2>1, <3>3 DEF ApartInv
        <3> QED BY <3>1, <3>2, <3>3
    <2> QED BY <2>1, <2>2 DEF Apart, Touched
<1> QED BY <1>0, <1>5, <1>6, <1>7, <1>8, <1>9 DEF RequestsInv

(* What a request has read does not depend on its place, once it has read it. *)
LEMMA ReadOn ==
    ASSUME NEW p, NEW q, Reads(p), SawIt(p), p.pc # "fetch", q.ask = p.ask, q.cur = p.cur, q.saw = p.saw
    PROVE  Reads(q) /\ SawIt(q)
BY DEF Reads, SawIt, BornSince

(* Two transactions of one database are apart both ways round. *)
LEMMA ApartBoth ==
    ASSUME NEW t, NEW u, Apart(t, u) PROVE Apart(u, t)
BY DEF Apart

(* A transaction begins. *)
LEMMA BeginStep ==
    ASSUME RequestsInv, NEW c \in Requesters, Begin(c) PROVE RequestsInv'
<1>0. /\ ShapeInv /\ OpenInv /\ ApartInv /\ JournalInv /\ ReadsInv /\ StreamInv
      /\ provider \in {"sqlite", "postgres"} /\ seq \in Nat
    BY DEF RequestsInv, ShapeInv
<1>1. "write" \in Pcs /\ "write" \in InTx /\ req[c].pc = "begin" BY DEF Pcs, InTx, Begin, At
<1>2. PICK q : /\ req' = [req EXCEPT ![c] = q] /\ IsReq(q) /\ q.pc = "write"
               /\ q.ask = req[c].ask /\ q.at = req[c].at /\ q.cur = req[c].cur /\ q.saw = req[c].saw
    BY <1>0, <1>1, Moves DEF Begin
<1>3. AskSound(q) BY <1>0, <1>1, <1>2 DEF ShapeInv, AskSound
<1>4. Reads(q) /\ SawIt(q)
    <2>1. PICK p : p = req[c] OBVIOUS
    <2>2. Reads(p) /\ SawIt(p) BY <1>0, <1>1, <2>1 DEF ReadsInv
    <2> QED BY <1>1, <1>2, <2>1, <2>2, ReadOn
<1>5. PICK t : t = EmptyTx OBVIOUS
<1>6. /\ t.rows = {} /\ t.gone = {} /\ t.idem = {} /\ t.events = {} /\ t.audit = {} /\ t.jobs = {}
      /\ IsTx(t)
    BY <1>5 DEF EmptyTx, IsTx
<1>7. UNCHANGED <<provider, data, seq, stream, made>> /\ tx' = [tx EXCEPT ![c] = t]
    BY <1>5 DEF Begin
<1>8. provider = "sqlite" => \A d \in Requesters : d # c => req[d].pc \notin InTx
    BY <1>0, OpenIff DEF Begin, Connection, Others
<1>9. \A d \in Requesters : d # c /\ req[d].pc \in InTx =>
          provider # "sqlite" /\ Apart(tx[d], t) /\ Apart(t, tx[d])
    BY <1>6, <1>8 DEF Apart, Touched
<1>10. OpenSound(q, t)'
    <2>1. TxSound(q, t)
        <3>1. FactsOf({}) = {} /\ JobsOf({}) = {} BY DEF FactsOf, JobsOf
        <3>2. IsFiniteSet(t.events) BY <1>6, FS_EmptySet
        <3> QED BY <1>2, <1>6, <3>1, <3>2 DEF TxSound, Touched
    <2>2. KindSound(q, t) BY <1>2, <1>5, <1>6 DEF KindSound
    <2>3. KeySound(q, t) BY <1>2, <1>6 DEF KeySound
    <2>4. DataSound(q, t) BY <1>2, <1>6 DEF DataSound
    <2>5. provider = "sqlite" => SqliteSound(t)
        <3>1. Cardinality(t.events) = 0 BY <1>6, FS_EmptySet
        <3>2. \A e \in events : e.seq <= seq BY <1>0 DEF JournalInv
        <3> QED BY <1>0, <1>6, <3>1, <3>2 DEF SqliteSound, StreamInv
    <2>6. OpenSound(q, t) BY <2>1, <2>2, <2>3, <2>4, <2>5 DEF OpenSound
    <2> QED BY <1>0, <1>7, <2>6, OpenStays
<1> QED BY <1>1, <1>2, <1>3, <1>4, <1>6, <1>7, <1>9, <1>10, ProgressStep

(* A request that need not wait is the only one at its record or its key. *)
LEMMA NotBlocked ==
    ASSUME ShapeInv, NEW c \in Requesters, ~Blocked(c), NEW d \in Requesters, d # c, req[d].pc \in InTx
    PROVE  /\ req[c].pc = "write" /\ Ask(c).kind = "create" => Put(c).rec \notin Touched(tx[d])
           /\ req[c].pc = "write" /\ Ask(c).kind # "create" /\ RowOf(Ask(c).rec) # {} =>
                 Ask(c).rec \notin Touched(tx[d])
           /\ req[c].pc = "key" => \A i \in tx[d].idem : i.key # Ask(c).key
<1>1. tx[d] # NoTx BY OpenIff
<1>2. d \in Others(c) /\ ~WaitsFor(c, d) BY <1>1 DEF Others, Blocked
<1> QED BY <1>2 DEF WaitsFor, At

(* What is known of a request inside its transaction. *)
LEMMA InsideTx ==
    ASSUME RequestsInv, NEW c \in Requesters, req[c].pc \in InTx
    PROVE  /\ IsReq(req[c]) /\ AskSound(req[c]) /\ IsTx(tx[c]) /\ Reads(req[c]) /\ SawIt(req[c])
           /\ OpenSound(req[c], tx[c])
           /\ \A d \in Requesters : d # c /\ req[d].pc \in InTx =>
                  provider # "sqlite" /\ Apart(tx[d], tx[c])
           /\ ShapeInv /\ JournalInv /\ seq \in Nat /\ provider \in {"sqlite", "postgres"}
BY DEF RequestsInv, ShapeInv, ReadsInv, OpenInv, ApartInv, InTx

(* A row is inserted. *)
LEMMA InsertStep ==
    ASSUME RequestsInv, NEW c \in Requesters, InsertRow(c) PROVE RequestsInv'
<1>0. UNCHANGED <<provider, data, stream, made>> BY DEF InsertRow
<1>1. CASE Rollback(c) BY <1>0, <1>1, RollbackStep
<1>2. ASSUME \A w \in rows \cup tx[c].rows : w.rec # Put(c).rec,
             tx' = [tx EXCEPT ![c].rows = @ \cup {[rec |-> Put(c).rec, ver |-> 1, vals |-> Put(c).vals]}],
             Goto(c, "emit"), UNCHANGED seq
      PROVE  RequestsInv'
    <2>1. /\ req[c].pc = "write" /\ req[c].pc \in InTx /\ "emit" \in Pcs /\ "emit" \in InTx
          /\ Ask(c).kind = "create" /\ ~Blocked(c)
        BY DEF InsertRow, At, InTx, Pcs
    <2>2. PICK p, s : p = req[c] /\ s = tx[c] OBVIOUS
    <2>3. /\ IsReq(p) /\ AskSound(p) /\ IsTx(s) /\ Reads(p) /\ SawIt(p) /\ OpenSound(p, s)
          /\ ShapeInv /\ JournalInv /\ seq \in Nat
        BY <2>1, <2>2, InsideTx
    <2>4. PICK q : /\ req' = [req EXCEPT ![c] = q] /\ IsReq(q) /\ q.pc = "emit"
                   /\ q.ask = p.ask /\ q.at = p.at /\ q.cur = p.cur /\ q.saw = p.saw
        BY <1>2, <2>1, <2>2, <2>3, Moves
    <2>5. AskSound(q) /\ q.ask.kind = "create" BY <2>1, <2>2, <2>3, <2>4 DEF AskSound, Ask
    <2>6. Reads(q) /\ SawIt(q) BY <2>1, <2>2, <2>3, <2>4, ReadOn
    <2>7. PICK rec, row : /\ rec = Put(c).rec /\ rec = Subject(q)
                          /\ row = [rec |-> rec, ver |-> 1, vals |-> Put(c).vals]
        BY <2>2, <2>4, <2>5 DEF Put, Subject, Ask
    <2>8. row.rec = rec /\ row.ver = 1 BY <2>7
    <2>9. PICK t : t = [s EXCEPT !.rows = s.rows \cup {row}] OBVIOUS
    <2>10. /\ t.rows = s.rows \cup {row} /\ t.gone = s.gone /\ t.idem = s.idem /\ t.events = s.events
           /\ t.audit = s.audit /\ t.jobs = s.jobs /\ IsTx(t)
        BY <2>3, <2>9 DEF IsTx
    <2>11. tx' = [tx EXCEPT ![c] = t] BY <1>2, <2>2, <2>7, <2>9
    <2>12. Touched(t) = Touched(s) \cup {rec} BY <2>8, <2>10 DEF Touched
    <2>13. TxSound(p, s) /\ KindSound(p, s) /\ KeySound(p, s) /\ DataSound(p, s)
        BY <2>3 DEF OpenSound
    <2>14. /\ s.gone = {} /\ s.idem = {} /\ \A w \in s.rows : w.rec # rec /\ w.ver = 1
           /\ \A e \in s.events : e.topic = "record.created" /\ Announces(e, s)
        BY <1>2, <2>1, <2>2, <2>4, <2>5, <2>7, <2>13 DEF KindSound, KeySound, TxSound
    <2>15. \A e \in s.events : e.rec # rec BY <2>14 DEF Announces
    <2>16. TxSound(q, t)
        <3>1. \A e \in t.events : e.ver \in Nat /\ Announces(e, t)
            BY <2>10, <2>13 DEF TxSound, Announces
        <3>2. \A w \in t.rows : w.rec \notin t.gone /\ w.ver \in Nat BY <2>8, <2>10, <2>14
        <3>3. \A w, v \in t.rows : w.rec = v.rec => w = v BY <2>8, <2>10, <2>13, <2>14 DEF TxSound
        <3>4. \A r \in Touched(t) : (\E e \in t.events : e.rec = r) \/ r = rec
            BY <2>1, <2>2, <2>10, <2>12, <2>13 DEF TxSound
        <3> QED BY <2>4, <2>7, <2>10, <2>12, <2>13, <2>15, <3>1, <3>2, <3>3, <3>4 DEF TxSound
    <2>17. KindSound(q, t) BY <2>4, <2>5, <2>8, <2>10, <2>14 DEF KindSound
    <2>18. KeySound(q, t) BY <2>4, <2>10, <2>14 DEF KeySound
    <2>19. DataSound(q, t) BY <2>4, <2>5, <2>10, <2>13 DEF DataSound
    <2>20. provider = "sqlite" => SqliteSound(t) BY <2>3, <2>10 DEF OpenSound, SqliteSound
    <2>21. OpenSound(q, t)
        BY <2>16, <2>17, <2>18, <2>19, <2>20 DEF OpenSound
    <2>22. OpenSound(q, t)' BY <1>0, <1>2, <2>3, <2>21, OpenStays
    <2>23. \A d \in Requesters : d # c /\ req[d].pc \in InTx =>
              provider # "sqlite" /\ Apart(tx[d], t) /\ Apart(t, tx[d])
        <3> SUFFICES ASSUME NEW d \in Requesters, d # c, req[d].pc \in InTx
                     PROVE  provider # "sqlite" /\ Apart(tx[d], t)
            BY ApartBoth
        <3>1. provider # "sqlite" /\ Apart(tx[d], s) BY <2>1, <2>2, InsideTx
        <3>2. rec \notin Touched(tx[d]) BY <2>1, <2>3, <2>7, NotBlocked
        <3> QED BY <2>10, <2>12, <3>1, <3>2 DEF Apart
    <2>24. q.pc \in InTx /\ seq' \in {seq, seq + 1} BY <1>2, <2>1, <2>4
    <2> QED BY <1>0, <2>4, <2>5, <2>6, <2>10, <2>11, <2>22, <2>23, <2>24, ProgressStep
<1> QED BY <1>1, <1>2 DEF InsertRow

(* A row is updated. *)
LEMMA UpdateStep ==
    ASSUME RequestsInv, NEW c \in Requesters, UpdateRow(c) PROVE RequestsInv'
<1>0. UNCHANGED <<provider, data, stream, made>> BY DEF UpdateRow
<1>1. CASE Rollback(c) BY <1>0, <1>1, RollbackStep
<1>2. ASSUME NEW w \in Matches(c),
             tx' = [tx EXCEPT ![c].rows = {[rec |-> w.rec, ver |-> w.ver + 1,
                                            vals |-> Merge(req[c].cur.vals, Ask(c).patch)]}],
             Goto(c, "emit"), UNCHANGED seq
      PROVE  RequestsInv'
    <2>1. /\ req[c].pc = "write" /\ req[c].pc \in InTx /\ "emit" \in Pcs /\ "emit" \in InTx
          /\ Ask(c).kind = "update" /\ ~Blocked(c)
        BY DEF UpdateRow, At, InTx, Pcs
    <2>2. PICK p, s : p = req[c] /\ s = tx[c] OBVIOUS
    <2>3. /\ IsReq(p) /\ AskSound(p) /\ IsTx(s) /\ Reads(p) /\ SawIt(p) /\ OpenSound(p, s)
          /\ ShapeInv /\ JournalInv /\ seq \in Nat
        BY <2>1, <2>2, InsideTx
    <2>4. PICK q : /\ req' = [req EXCEPT ![c] = q] /\ IsReq(q) /\ q.pc = "emit"
                   /\ q.ask = p.ask /\ q.at = p.at /\ q.cur = p.cur /\ q.saw = p.saw
        BY <1>2, <2>1, <2>2, <2>3, Moves
    <2>5. AskSound(q) /\ q.ask.kind = "update" /\ q.ask.ver \in Nat
        BY <2>1, <2>2, <2>3, <2>4 DEF AskSound, Ask
    <2>6. Reads(q) /\ SawIt(q) BY <2>1, <2>2, <2>3, <2>4, ReadOn
    <2>7. w \in rows /\ w.rec = q.ask.rec /\ w.ver = q.ask.ver /\ RowOf(Ask(c).rec) # {} /\ Ask(c) = q.ask
        BY <2>2, <2>4 DEF Matches, RowOf, Ask
    <2>8. PICK rec, row : /\ rec = q.ask.rec /\ rec = Subject(q)
                          /\ row = [rec |-> q.ask.rec, ver |-> q.ask.ver + 1,
                                    vals |-> Merge(q.cur.vals, q.ask.patch)]
        BY <2>5 DEF Subject
    <2>9. row.rec = rec /\ row.ver \in Nat
        <3>1. PICK n : n = q.ask.ver + 1 /\ n \in Nat BY <2>5
        <3>2. row = [rec |-> rec, ver |-> n, vals |-> Merge(q.cur.vals, q.ask.patch)] BY <2>8, <3>1
        <3> QED BY <3>1, <3>2
    <2>10. s = EmptyTx BY <2>1, <2>2, <2>3 DEF OpenSound, KindSound, Ask
    <2>11. PICK t : t = [s EXCEPT !.rows = {row}] OBVIOUS
    <2>12. /\ t.rows = {row} /\ t.gone = {} /\ t.idem = {} /\ t.events = {}
           /\ t.audit = {} /\ t.jobs = {} /\ IsTx(t)
        BY <2>10, <2>11 DEF IsTx, EmptyTx
    <2>13. tx' = [tx EXCEPT ![c] = t]
        <3>1. Merge(req[c].cur.vals, Ask(c).patch) = Merge(q.cur.vals, q.ask.patch)
            BY <2>2, <2>4, <2>7
        <3>2. tx' = [tx EXCEPT ![c].rows = {row}] BY <1>2, <2>7, <2>8, <3>1
        <3> QED BY <2>2, <2>11, <3>2
    <2>14. Touched(t) = {rec} BY <2>9, <2>12 DEF Touched
    <2>16. TxSound(q, t)
        <3>1. FactsOf({}) = {} /\ JobsOf({}) = {} BY DEF FactsOf, JobsOf
        <3>2. IsFiniteSet(t.events) BY <2>12, FS_EmptySet
        <3> QED BY <2>4, <2>8, <2>9, <2>12, <2>14, <3>1, <3>2 DEF TxSound
    <2>17. KindSound(q, t) BY <2>4, <2>5, <2>8, <2>12 DEF KindSound
    <2>18. KeySound(q, t) BY <2>4, <2>12 DEF KeySound
    <2>19. DataSound(q, t) BY <2>7, <2>12 DEF DataSound
    <2>20. provider = "sqlite" => SqliteSound(t)
        <3>1. s.events = {} BY <2>10 DEF EmptyTx
        <3> QED BY <2>3, <2>12, <3>1 DEF OpenSound, SqliteSound
    <2>21. OpenSound(q, t)
        BY <2>16, <2>17, <2>18, <2>19, <2>20 DEF OpenSound
    <2>22. OpenSound(q, t)' BY <1>0, <1>2, <2>3, <2>21, OpenStays
    <2>23. \A d \in Requesters : d # c /\ req[d].pc \in InTx =>
              provider # "sqlite" /\ Apart(tx[d], t) /\ Apart(t, tx[d])
        <3> SUFFICES ASSUME NEW d \in Requesters, d # c, req[d].pc \in InTx
                     PROVE  provider # "sqlite" /\ Apart(tx[d], t)
            BY ApartBoth
        <3>1. provider # "sqlite" BY <2>1, InsideTx
        <3>2. rec \notin Touched(tx[d]) BY <2>1, <2>3, <2>7, <2>8, NotBlocked
        <3> QED BY <2>12, <2>14, <3>1, <3>2 DEF Apart
    <2>24. q.pc \in InTx /\ seq' \in {seq, seq + 1} BY <1>2, <2>1, <2>4
    <2> QED BY <1>0, <2>4, <2>5, <2>6, <2>12, <2>13, <2>22, <2>23, <2>24, ProgressStep
<1> QED BY <1>1, <1>2 DEF UpdateRow

(* A row is deleted. *)
LEMMA DeleteStep ==
    ASSUME RequestsInv, NEW c \in Requesters, DeleteRow(c) PROVE RequestsInv'
<1>0. UNCHANGED <<provider, data, stream, made>> BY DEF DeleteRow
<1>1. CASE Rollback(c) BY <1>0, <1>1, RollbackStep
<1>2. ASSUME Matches(c) # {}, tx' = [tx EXCEPT ![c].gone = {Ask(c).rec}], Goto(c, "emit"), UNCHANGED seq
      PROVE  RequestsInv'
    <2>1. /\ req[c].pc = "write" /\ req[c].pc \in InTx /\ "emit" \in Pcs /\ "emit" \in InTx
          /\ Ask(c).kind = "delete" /\ ~Blocked(c)
        BY DEF DeleteRow, At, InTx, Pcs
    <2>2. PICK p, s : p = req[c] /\ s = tx[c] OBVIOUS
    <2>3. /\ IsReq(p) /\ AskSound(p) /\ IsTx(s) /\ Reads(p) /\ SawIt(p) /\ OpenSound(p, s)
          /\ ShapeInv /\ JournalInv /\ seq \in Nat
        BY <2>1, <2>2, InsideTx
    <2>4. PICK q : /\ req' = [req EXCEPT ![c] = q] /\ IsReq(q) /\ q.pc = "emit"
                   /\ q.ask = p.ask /\ q.at = p.at /\ q.cur = p.cur /\ q.saw = p.saw
        BY <1>2, <2>1, <2>2, <2>3, Moves
    <2>5. AskSound(q) /\ q.ask.kind = "delete"
        BY <2>1, <2>2, <2>3, <2>4 DEF AskSound, Ask
    <2>6. Reads(q) /\ SawIt(q) BY <2>1, <2>2, <2>3, <2>4, ReadOn
    <2>7. RowOf(Ask(c).rec) # {} /\ Ask(c) = q.ask BY <1>2, <2>2, <2>4 DEF Matches, Ask
    <2>8. PICK rec : rec = q.ask.rec /\ rec = Subject(q) BY <2>5 DEF Subject
    <2>10. s = EmptyTx BY <2>1, <2>2, <2>3 DEF OpenSound, KindSound, Ask
    <2>11. PICK t : t = [s EXCEPT !.gone = {rec}] OBVIOUS
    <2>12. /\ t.rows = {} /\ t.gone = {rec} /\ t.idem = {} /\ t.events = {}
           /\ t.audit = {} /\ t.jobs = {} /\ IsTx(t)
        BY <2>10, <2>11 DEF IsTx, EmptyTx
    <2>13. tx' = [tx EXCEPT ![c] = t] BY <1>2, <2>2, <2>7, <2>8, <2>11
    <2>14. Touched(t) = {rec} BY <2>12 DEF Touched
    <2>16. TxSound(q, t)
        <3>1. FactsOf({}) = {} /\ JobsOf({}) = {} BY DEF FactsOf, JobsOf
        <3>2. IsFiniteSet(t.events) BY <2>12, FS_EmptySet
        <3> QED BY <2>4, <2>8, <2>12, <2>14, <3>1, <3>2 DEF TxSound
    <2>17. KindSound(q, t) BY <2>4, <2>5, <2>8, <2>12 DEF KindSound
    <2>18. KeySound(q, t) BY <2>4, <2>12 DEF KeySound
    <2>19. DataSound(q, t) BY <2>5, <2>12 DEF DataSound
    <2>20. provider = "sqlite" => SqliteSound(t)
        <3>1. s.events = {} BY <2>10 DEF EmptyTx
        <3> QED BY <2>3, <2>12, <3>1 DEF OpenSound, SqliteSound
    <2>21. OpenSound(q, t)
        BY <2>16, <2>17, <2>18, <2>19, <2>20 DEF OpenSound
    <2>22. OpenSound(q, t)' BY <1>0, <1>2, <2>3, <2>21, OpenStays
    <2>23. \A d \in Requesters : d # c /\ req[d].pc \in InTx =>
              provider # "sqlite" /\ Apart(tx[d], t) /\ Apart(t, tx[d])
        <3> SUFFICES ASSUME NEW d \in Requesters, d # c, req[d].pc \in InTx
                     PROVE  provider # "sqlite" /\ Apart(tx[d], t)
            BY ApartBoth
        <3>1. provider # "sqlite" BY <2>1, InsideTx
        <3>2. rec \notin Touched(tx[d]) BY <2>1, <2>3, <2>7, <2>8, NotBlocked
        <3> QED BY <2>12, <2>14, <3>1, <3>2 DEF Apart
    <2>24. q.pc \in InTx /\ seq' \in {seq, seq + 1} BY <1>2, <2>1, <2>4
    <2> QED BY <1>0, <2>4, <2>5, <2>6, <2>12, <2>13, <2>22, <2>23, <2>24, ProgressStep
<1> QED BY <1>1, <1>2 DEF DeleteRow

(* The key is inserted. *)
LEMMA KeyStep ==
    ASSUME RequestsInv, NEW c \in Requesters, InsertKey(c) PROVE RequestsInv'
<1>0. UNCHANGED <<provider, data, stream, made>> BY DEF InsertKey
<1>1. CASE Rollback(c) BY <1>0, <1>1, RollbackStep
<1>2. ASSUME KeyFree(c), tx' = [tx EXCEPT ![c].idem = {[key |-> Ask(c).key, rec |-> Put(c).rec]}],
             Goto(c, "commit"), UNCHANGED seq
      PROVE  RequestsInv'
    <2>1. /\ req[c].pc = "key" /\ req[c].pc \in InTx /\ "commit" \in Pcs /\ "commit" \in InTx /\ ~Blocked(c)
        BY DEF InsertKey, At, InTx, Pcs
    <2>2. PICK p, s : p = req[c] /\ s = tx[c] OBVIOUS
    <2>3. /\ IsReq(p) /\ AskSound(p) /\ IsTx(s) /\ Reads(p) /\ SawIt(p) /\ OpenSound(p, s)
          /\ ShapeInv /\ JournalInv /\ seq \in Nat
        BY <2>1, <2>2, InsideTx
    <2>4. PICK q : /\ req' = [req EXCEPT ![c] = q] /\ IsReq(q) /\ q.pc = "commit"
                   /\ q.ask = p.ask /\ q.at = p.at /\ q.cur = p.cur /\ q.saw = p.saw
        BY <1>2, <2>1, <2>2, <2>3, Moves
    <2>5. AskSound(q) /\ q.ask.kind = "create" /\ q.ask.key # None /\ Ask(c) = q.ask
        BY <2>1, <2>2, <2>3, <2>4 DEF AskSound, Ask
    <2>6. Reads(q) /\ SawIt(q) BY <2>1, <2>2, <2>3, <2>4, ReadOn
    <2>7. PICK i : i = [key |-> Ask(c).key, rec |-> Put(c).rec] OBVIOUS
    <2>8. i.key = q.ask.key BY <2>5, <2>7
    <2>9. PICK t : t = [s EXCEPT !.idem = {i}] OBVIOUS
    <2>10. /\ t.rows = s.rows /\ t.gone = s.gone /\ t.idem = {i} /\ t.events = s.events
           /\ t.audit = s.audit /\ t.jobs = s.jobs /\ IsTx(t)
        BY <2>3, <2>9 DEF IsTx
    <2>11. tx' = [tx EXCEPT ![c] = t] BY <1>2, <2>2, <2>7, <2>9
    <2>12. Touched(t) = Touched(s) BY <2>10 DEF Touched
    <2>13. TxSound(p, s) /\ KindSound(p, s) /\ KeySound(p, s) /\ DataSound(p, s)
        BY <2>3 DEF OpenSound
    <2>16. TxSound(q, t)
        <3>1. \A e \in t.events : e.ver \in Nat /\ Announces(e, t)
            BY <2>10, <2>13 DEF TxSound, Announces
        <3> QED BY <2>1, <2>2, <2>4, <2>10, <2>12, <2>13, <3>1 DEF TxSound
    <2>17. KindSound(q, t) BY <2>4, <2>5, <2>10, <2>13 DEF KindSound
    <2>18. KeySound(q, t) BY <2>4, <2>5, <2>8, <2>10 DEF KeySound
    <2>19. DataSound(q, t) BY <1>2, <2>5, <2>8, <2>10, <2>13 DEF DataSound, KeyFree
    <2>20. provider = "sqlite" => SqliteSound(t) BY <2>3, <2>10 DEF OpenSound, SqliteSound
    <2>21. OpenSound(q, t)
        BY <2>16, <2>17, <2>18, <2>19, <2>20 DEF OpenSound
    <2>22. OpenSound(q, t)' BY <1>0, <1>2, <2>3, <2>21, OpenStays
    <2>23. \A d \in Requesters : d # c /\ req[d].pc \in InTx =>
              provider # "sqlite" /\ Apart(tx[d], t) /\ Apart(t, tx[d])
        <3> SUFFICES ASSUME NEW d \in Requesters, d # c, req[d].pc \in InTx
                     PROVE  provider # "sqlite" /\ Apart(tx[d], t)
            BY ApartBoth
        <3>1. provider # "sqlite" /\ Apart(tx[d], s) BY <2>1, <2>2, InsideTx
        <3>2. \A j \in tx[d].idem : j.key # i.key BY <2>1, <2>3, <2>5, <2>8, NotBlocked
        <3> QED BY <2>10, <2>12, <3>1, <3>2 DEF Apart
    <2>24. q.pc \in InTx /\ seq' \in {seq, seq + 1} BY <1>2, <2>1, <2>4
    <2> QED BY <1>0, <2>4, <2>5, <2>6, <2>10, <2>11, <2>22, <2>23, <2>24, ProgressStep
<1> QED BY <1>1, <1>2 DEF InsertKey

(* What the event says of the mutation is what the transaction wrote. *)
LEMMA AnnouncedSound ==
    ASSUME ShapeInv, NEW c \in Requesters, NEW p, p = req[c], NEW t, AskSound(p), IsReq(p), p.pc = "emit",
           TxSound(p, t), KindSound(p, t), seq \in Nat
    PROVE  \E e : /\ e = Announced(c) /\ e.seq = seq + 1 /\ e.rec = Subject(p) /\ e.ver \in Nat
                  /\ Announces(e, t)
                  /\ p.ask.kind = "create" => e.topic = "record.created"
                  /\ p.ask.kind = "update" => e.topic = "record.updated"
<1>1. Subject(p) \in Touched(t) BY DEF TxSound
<1>2. CASE p.ask.kind = "create"
    <2>1. PICK e : e = [seq |-> seq + 1, topic |-> "record.created", rec |-> Put(c).rec, ver |-> 1] OBVIOUS
    <2>2. e = Announced(c) /\ Put(c).rec = Subject(p) BY <1>2, <2>1 DEF Announced, Ask, Put, Subject
    <2>3. e.seq = seq + 1 /\ e.topic = "record.created" /\ e.rec = Put(c).rec /\ e.ver = 1 BY <2>1
    <2>4. PICK w \in t.rows : w.rec = Subject(p) /\ w.ver = 1 BY <1>1, <1>2 DEF KindSound, Touched
    <2>5. Announces(e, t) BY <2>2, <2>3, <2>4 DEF Announces
    <2> QED BY <1>2, <2>2, <2>3, <2>5
<1>3. CASE p.ask.kind = "update"
    <2>0. PICK n : n = p.ask.ver + 1 /\ n \in Nat BY <1>3 DEF AskSound
    <2>1. PICK e : e = [seq |-> seq + 1, topic |-> "record.updated", rec |-> Ask(c).rec, ver |-> n] OBVIOUS
    <2>2. e = Announced(c) /\ Ask(c).rec = Subject(p) BY <1>3, <2>0, <2>1 DEF Announced, Ask, Subject
    <2>3. e.seq = seq + 1 /\ e.topic = "record.updated" /\ e.rec = Ask(c).rec /\ e.ver = n BY <2>1
    <2>4. PICK w \in t.rows : w = [rec |-> p.ask.rec, ver |-> n, vals |-> Merge(p.cur.vals, p.ask.patch)]
        BY <1>3, <2>0 DEF KindSound
    <2>5. w.rec = Subject(p) /\ w.ver = n BY <1>3, <2>4 DEF Subject
    <2>6. Announces(e, t) BY <2>2, <2>3, <2>5 DEF Announces
    <2> QED BY <1>3, <2>0, <2>2, <2>3, <2>6
<1>4. CASE p.ask.kind = "delete"
    <2>1. PICK e : e = [seq |-> seq + 1, topic |-> "record.deleted", rec |-> Ask(c).rec, ver |-> Ask(c).ver]
        OBVIOUS
    <2>2. e = Announced(c) /\ Ask(c).rec = Subject(p) BY <1>4, <2>1 DEF Announced, Ask, Subject
    <2>3. e.seq = seq + 1 /\ e.topic = "record.deleted" /\ e.rec = Ask(c).rec /\ e.ver = p.ask.ver
        BY <2>1 DEF Ask
    <2>4. Subject(p) \in t.gone BY <1>4 DEF KindSound, Subject
    <2>5. Announces(e, t) BY <2>2, <2>3, <2>4 DEF Announces
    <2>6. p.ask.ver \in Nat BY <1>4 DEF AskSound
    <2> QED BY <1>4, <2>2, <2>3, <2>5, <2>6
<1> QED BY <1>2, <1>3, <1>4 DEF AskSound

(* The event, its audit fact and its jobs are written. *)
LEMMA EmitStep ==
    ASSUME RequestsInv, NEW c \in Requesters, Emit(c) PROVE RequestsInv'
<1>0. UNCHANGED <<provider, data, stream, made>> BY DEF Emit
<1>1. req[c].pc = "emit" /\ req[c].pc \in InTx BY DEF Emit, At, InTx
<1>2. PICK p, s : p = req[c] /\ s = tx[c] OBVIOUS
<1>3. /\ IsReq(p) /\ AskSound(p) /\ IsTx(s) /\ Reads(p) /\ SawIt(p) /\ OpenSound(p, s)
      /\ ShapeInv /\ JournalInv /\ seq \in Nat
    BY <1>1, <1>2, InsideTx
<1>4. TxSound(p, s) /\ KindSound(p, s) /\ KeySound(p, s) /\ DataSound(p, s) BY <1>3 DEF OpenSound
<1>5. PICK e : /\ e = Announced(c) /\ e.seq = seq + 1 /\ e.rec = Subject(p) /\ e.ver \in Nat
               /\ Announces(e, s)
               /\ p.ask.kind = "create" => e.topic = "record.created"
               /\ p.ask.kind = "update" => e.topic = "record.updated"
    BY <1>1, <1>2, <1>3, <1>4, AnnouncedSound
<1>6. PICK q : /\ req' = [req EXCEPT ![c] = q] /\ IsReq(q) /\ q.ask = p.ask /\ q.cur = p.cur /\ q.saw = p.saw
               /\ q.pc \in {"write", "key", "commit"}
               /\ p.ask.kind = "create" => q.at <= Len(q.ask.puts)
               /\ q.pc = "write" => p.ask.kind = "create"
               /\ q.pc = "key" => p.ask.kind = "create" /\ p.ask.key # None
               /\ q.pc = "commit" /\ p.ask.kind = "create" => p.ask.key = None
    <2>1. CASE /\ Ask(c).kind = "create" /\ req[c].at < Len(Ask(c).puts)
               /\ req' = [req EXCEPT ![c].pc = "write", ![c].at = @ + 1]
        <3>1. PICK n : n = p.at + 1 /\ n \in Nat \ {0} BY <1>3 DEF IsReq
        <3>2. PICK q : q = [[p EXCEPT !.pc = "write"] EXCEPT !.at = n] OBVIOUS
        <3>3. /\ q = [pc |-> q.pc, ask |-> q.ask, at |-> q.at, cur |-> q.cur, saw |-> q.saw] /\ q.pc = "write"
              /\ q.ask = p.ask /\ q.at = n /\ q.cur = p.cur /\ q.saw = p.saw
            BY <1>3, <3>2 DEF IsReq
        <3>4. req' = [req EXCEPT ![c] = q]
            <4>1. req = [d \in Requesters |-> req[d]] BY <1>3 DEF ShapeInv
            <4>2. PICK r1 : r1 = [req EXCEPT ![c].pc = "write"] OBVIOUS
            <4>3. /\ r1 = [d \in Requesters |-> r1[d]] /\ r1[c] = [p EXCEPT !.pc = "write"]
                  /\ \A d \in Requesters : d # c => r1[d] = req[d]
                BY <1>2, <4>1, <4>2
            <4>4. r1[c].at = p.at BY <1>3, <4>3 DEF IsReq
            <4>5. req' = [r1 EXCEPT ![c].at = r1[c].at + 1] BY <2>1, <4>2
            <4>6. req' = [r1 EXCEPT ![c] = q] BY <3>1, <3>2, <4>3, <4>4, <4>5
            <4> QED BY <4>1, <4>3, <4>6
        <3>5. IsReq(q) BY <1>3, <3>1, <3>3 DEF IsReq, Pcs, InTx
        <3>6. n <= Len(p.ask.puts)
            BY <1>2, <1>3, <2>1, <3>1, RequestAssumption DEF Ask, AskSound, RequestAssumption, IsReq
        <3> QED BY <1>2, <2>1, <3>3, <3>4, <3>5, <3>6 DEF Ask
    <2>2. CASE /\ Ask(c).kind = "create" /\ req[c].at = Len(Ask(c).puts) /\ Ask(c).key # None
               /\ Goto(c, "key")
        <3>0. "key" \in Pcs BY DEF Pcs, InTx
        <3>1. PICK q : /\ req' = [req EXCEPT ![c] = q] /\ IsReq(q) /\ q.pc = "key"
                       /\ q.ask = p.ask /\ q.at = p.at /\ q.cur = p.cur /\ q.saw = p.saw
            BY <1>2, <1>3, <2>2, <3>0, Moves
        <3>2. p.at <= Len(p.ask.puts) BY <1>2, <1>3, <2>2 DEF Ask, AskSound
        <3> QED BY <1>2, <2>2, <3>1, <3>2 DEF Ask
    <2>3. CASE /\ Ask(c).kind = "create" => req[c].at = Len(Ask(c).puts) /\ Ask(c).key = None
               /\ Goto(c, "commit")
        <3>0. "commit" \in Pcs BY DEF Pcs, InTx
        <3>1. PICK q : /\ req' = [req EXCEPT ![c] = q] /\ IsReq(q) /\ q.pc = "commit"
                       /\ q.ask = p.ask /\ q.at = p.at /\ q.cur = p.cur /\ q.saw = p.saw
            BY <1>2, <1>3, <2>3, <3>0, Moves
        <3>2. p.ask.kind = "create" => p.at <= Len(p.ask.puts) BY <1>3 DEF AskSound
        <3>3. p.ask.kind = "create" => p.ask.key = None BY <1>2, <2>3 DEF Ask
        <3> QED BY <3>1, <3>2, <3>3
    <2> QED BY <2>1, <2>2, <2>3 DEF Emit
<1>7. AskSound(q) BY <1>3, <1>6 DEF AskSound
<1>8. Reads(q) /\ SawIt(q) BY <1>1, <1>2, <1>3, <1>6, ReadOn
<1>9. PICK t1 : t1 = [s EXCEPT !.events = s.events \cup {e}] OBVIOUS
<1>10. /\ t1.rows = s.rows /\ t1.gone = s.gone /\ t1.idem = s.idem /\ t1.events = s.events \cup {e}
       /\ t1.audit = s.audit /\ t1.jobs = s.jobs /\ IsTx(t1)
    BY <1>3, <1>9 DEF IsTx
<1>11. PICK t2 : t2 = [t1 EXCEPT !.jobs = s.jobs \cup Dispatched(e)] OBVIOUS
<1>12. /\ t2.rows = s.rows /\ t2.gone = s.gone /\ t2.idem = s.idem /\ t2.events = s.events \cup {e}
       /\ t2.audit = s.audit /\ t2.jobs = s.jobs \cup Dispatched(e) /\ IsTx(t2)
    BY <1>10, <1>11 DEF IsTx
<1>13. PICK t : t = [t2 EXCEPT !.audit = s.audit \cup Audited(e)] OBVIOUS
<1>14. /\ t.rows = s.rows /\ t.gone = s.gone /\ t.idem = s.idem /\ t.events = s.events \cup {e}
       /\ t.audit = s.audit \cup Audited(e) /\ t.jobs = s.jobs \cup Dispatched(e) /\ IsTx(t)
    BY <1>12, <1>13 DEF IsTx
<1>15. tx' = [tx EXCEPT ![c] = t]
    <2>1. tx = [d \in Requesters |-> tx[d]] BY <1>3 DEF ShapeInv
    <2>2. PICK x1 : x1 = [tx EXCEPT ![c].events = @ \cup {e}] OBVIOUS
    <2>3. x1 = [tx EXCEPT ![c] = t1] /\ x1[c] = t1 /\ x1 = [d \in Requesters |-> x1[d]]
        BY <1>2, <1>9, <2>1, <2>2
    <2>4. PICK x2 : x2 = [x1 EXCEPT ![c].jobs = @ \cup Dispatched(e)] OBVIOUS
    <2>5. x2 = [x1 EXCEPT ![c] = t2] /\ x2[c] = t2 /\ x2 = [d \in Requesters |-> x2[d]]
        BY <1>10, <1>11, <2>3, <2>4
    <2>6. tx' = [x2 EXCEPT ![c].audit = @ \cup Audited(e)] BY <1>5, <2>2, <2>4 DEF Emit
    <2>7. tx' = [x2 EXCEPT ![c] = t] BY <1>12, <1>13, <2>5, <2>6
    <2> QED BY <2>1, <2>3, <2>5, <2>7
<1>16. Touched(t) = Touched(s) BY <1>14 DEF Touched
<1>17. seq' = seq + 1 BY <1>5 DEF Emit
<1>18. \A f \in s.events : f.rec # e.rec /\ f.seq \in 1 .. seq
    BY <1>1, <1>2, <1>4, <1>5 DEF TxSound, DataSound
<1>19. TxSound(q, t)
    <2>1. \A f \in t.events : f.ver \in Nat /\ Announces(f, t)
        BY <1>4, <1>5, <1>14 DEF TxSound, Announces
    <2>2. IsFiniteSet(t.events) BY <1>4, <1>14, FS_AddElement DEF TxSound
    <2>3. \A f, g \in t.events : f.rec = g.rec \/ f.seq = g.seq => f = g
        BY <1>3, <1>4, <1>5, <1>14, <1>18 DEF TxSound
    <2>4. \A r \in Touched(t) : \E f \in t.events : f.rec = r
        BY <1>4, <1>5, <1>14, <1>16 DEF TxSound
    <2>5. t.audit = FactsOf(t.events)
        <3>1. s.audit = FactsOf(s.events) BY <1>4 DEF TxSound
        <3>2. FactsOf(s.events \cup {e}) = FactsOf(s.events) \cup Audited(e) BY DEF FactsOf, Audited
        <3> QED BY <1>14, <3>1, <3>2
    <2>6. t.jobs = JobsOf(t.events)
        <3>1. s.jobs = JobsOf(s.events) BY <1>4 DEF TxSound
        <3>2. JobsOf(s.events \cup {e}) = JobsOf(s.events) \cup Dispatched(e) BY DEF JobsOf, Dispatched
        <3> QED BY <1>14, <3>1, <3>2
    <2>7. \A w \in t.rows : w.rec \notin t.gone /\ w.ver \in Nat BY <1>4, <1>14 DEF TxSound
    <2>8. \A w, v \in t.rows : w.rec = v.rec => w = v BY <1>4, <1>14 DEF TxSound
    <2>9. q.pc # "emit" BY <1>6
    <2> QED BY <2>1, <2>2, <2>3, <2>4, <2>5, <2>6, <2>7, <2>8, <2>9 DEF TxSound
<1>20. KindSound(q, t) BY <1>1, <1>2, <1>4, <1>5, <1>6, <1>14 DEF KindSound
<1>21. KeySound(q, t) BY <1>1, <1>2, <1>4, <1>6, <1>14 DEF KeySound
<1>22. DataSound(q, t)'
    <2>1. \A f \in events : f.seq \in 1 .. seq BY <1>3 DEF JournalInv
    <2>2. \A f \in t.events : /\ f.seq \in 1 .. (seq + 1)
                              /\ \A g \in events : g.seq # f.seq /\ (g.rec = f.rec => g.seq < f.seq)
        <3>1. e.seq \in 1 .. (seq + 1) /\ \A g \in events : g.seq # e.seq /\ g.seq < e.seq
            BY <1>3, <1>5, <2>1
        <3>2. \A f \in s.events : /\ f.seq \in 1 .. (seq + 1)
                                  /\ \A g \in events : g.seq # f.seq /\ (g.rec = f.rec => g.seq < f.seq)
            BY <1>3, <1>4, <1>18 DEF DataSound
        <3> QED BY <1>14, <3>1, <3>2
    <2>3. q.ask.kind = "update" /\ q.pc \in {"emit", "commit"} =>
             \E w \in rows : w.rec = q.ask.rec /\ w.ver = q.ask.ver
        BY <1>1, <1>2, <1>4, <1>6 DEF DataSound
    <2>4. \A i \in t.idem, j \in idem : i.key # j.key BY <1>4, <1>14 DEF DataSound
    <2> QED BY <1>0, <1>17, <2>2, <2>3, <2>4 DEF DataSound, data
<1>23. provider = "sqlite" => SqliteSound(t)'
    <2> SUFFICES ASSUME provider = "sqlite" PROVE SqliteSound(t)' OBVIOUS
    <2>1. SqliteSound(s) BY <1>3 DEF OpenSound
    <2>2. e \notin s.events BY <1>18
    <2>3. Cardinality(t.events) = Cardinality(s.events) + 1
        BY <1>4, <1>14, <2>2, FS_AddElement DEF TxSound
    <2>4. PICK n : n = Cardinality(s.events) /\ n \in 0 .. seq BY <2>1 DEF SqliteSound
    <2>5. seq' - Cardinality(t.events) = seq - n /\ Cardinality(t.events) \in 0 .. seq'
        BY <1>3, <1>17, <2>3, <2>4
    <2>6. \A f \in t.events : f.seq > seq - n BY <1>3, <1>5, <1>14, <2>1, <2>4 DEF SqliteSound
    <2>7. (\A f \in events : f.seq <= seq - n) /\ stream.after <= seq - n BY <2>1, <2>4 DEF SqliteSound
    <2> QED BY <1>0, <2>5, <2>6, <2>7 DEF SqliteSound, data
<1>24. OpenSound(q, t)'
    <2>1. TxSound(q, t)' /\ KindSound(q, t)' /\ KeySound(q, t)'
        BY <1>19, <1>20, <1>21 DEF TxSound, KindSound, KeySound
    <2> QED BY <1>0, <1>22, <1>23, <2>1 DEF OpenSound
<1>25. \A d \in Requesters : d # c /\ req[d].pc \in InTx =>
          provider # "sqlite" /\ Apart(tx[d], t) /\ Apart(t, tx[d])
    <2> SUFFICES ASSUME NEW d \in Requesters, d # c, req[d].pc \in InTx
                 PROVE  provider # "sqlite" /\ Apart(tx[d], t)
        BY ApartBoth
    <2>1. provider # "sqlite" /\ Apart(tx[d], s) BY <1>1, <1>2, InsideTx
    <2>2. \A f \in tx[d].events : f.seq \in 1 .. seq
        BY DEF RequestsInv, OpenInv, OpenSound, DataSound
    <2>3. \A f \in tx[d].events : f.seq # e.seq BY <1>3, <1>5, <2>2
    <2> QED BY <1>14, <1>16, <2>1, <2>3 DEF Apart
<1>26. q.pc \in InTx /\ seq' \in {seq, seq + 1} BY <1>6, <1>17 DEF InTx
<1> QED BY <1>0, <1>6, <1>7, <1>8, <1>14, <1>15, <1>24, <1>25, <1>26, ProgressStep

(* What a transaction announces, it touched. *)
LEMMA AnnouncedTouched ==
    ASSUME NEW q, NEW t, TxSound(q, t) PROVE \A e \in t.events : e.rec \in Touched(t)
BY DEF TxSound, Announces, Touched

(* The table, journal and keys that a commit of t leaves. *)
Lands(t) ==
    /\ rows'   = {w \in rows : w.rec \notin Touched(t)} \cup t.rows
    /\ idem'   = idem \cup t.idem
    /\ events' = events \cup t.events
    /\ audit'  = audit \cup t.audit
    /\ jobs'   = jobs \cup t.jobs
    /\ seq'    = seq

(* The journal tells the table after a commit: the transaction's events are *)
(* the newest about its records.                                            *)
LEMMA JournalLands ==
    ASSUME JournalInv, NEW q, NEW t, q.pc = "commit", TxSound(q, t), DataSound(q, t), Lands(t)
    PROVE  JournalInv'
<1>1. \A e \in events' : e.seq \in 1 .. seq' /\ e.ver \in Nat
    BY DEF Lands, JournalInv, TxSound, DataSound
<1>2. \A e, f \in events' : e.seq = f.seq => e = f
    BY DEF Lands, JournalInv, TxSound, DataSound
<1>3. \A r \in Touched(t) : \E e \in t.events : e.rec = r BY DEF TxSound
<1>4. \A e \in t.events : e.rec \in Touched(t) BY AnnouncedTouched
<1>5. \A e \in t.events : Newest(e)'
    <2> SUFFICES ASSUME NEW e \in t.events, NEW f \in events', f.rec = e.rec PROVE f.seq <= e.seq
        BY DEF Newest
    <2>1. CASE f \in events BY <1>1, <2>1 DEF DataSound, Lands, JournalInv
    <2>2. CASE f \in t.events
        <3>1. f = e BY <2>2 DEF TxSound
        <3> QED BY <1>1, <3>1 DEF Lands
    <2> QED BY <2>1, <2>2 DEF Lands
<1>6. \A e \in events : e.rec \notin Touched(t) =>
         /\ Newest(e)' <=> Newest(e)
         /\ RowOf(e.rec)' = RowOf(e.rec)
    <2> SUFFICES ASSUME NEW e \in events, e.rec \notin Touched(t)
                 PROVE  (Newest(e)' <=> Newest(e)) /\ RowOf(e.rec)' = RowOf(e.rec)
        OBVIOUS
    <2>1. \A f \in events' : f.rec = e.rec <=> f \in events /\ f.rec = e.rec BY <1>4 DEF Lands
    <2>2. Newest(e)' <=> Newest(e) BY <2>1 DEF Newest, Lands
    <2>3. \A w \in t.rows : w.rec \in Touched(t) BY DEF Touched
    <2>4. RowOf(e.rec)' = RowOf(e.rec) BY <2>3 DEF RowOf, Lands
    <2> QED BY <2>2, <2>4
<1>7. \A e \in events' : \E f \in events' : f.rec = e.rec /\ Newest(f)'
    <2> SUFFICES ASSUME NEW e \in events' PROVE \E f \in events' : f.rec = e.rec /\ Newest(f)'
        OBVIOUS
    <2>1. CASE e.rec \in Touched(t)
        <3>1. PICK f \in t.events : f.rec = e.rec BY <1>3, <2>1
        <3> QED BY <1>5, <3>1 DEF Lands
    <2>2. CASE e.rec \notin Touched(t)
        <3>1. e \in events BY <1>4, <2>2 DEF Lands
        <3>2. PICK f \in events : f.rec = e.rec /\ Newest(f) BY <3>1 DEF JournalInv
        <3> QED BY <1>6, <2>2, <3>2 DEF Lands
    <2> QED BY <2>1, <2>2
<1>8. \A e \in events' : Newest(e)' =>
         {w.ver : w \in RowOf(e.rec)'} = IF e.topic = "record.deleted" THEN {} ELSE {e.ver}
    <2> SUFFICES ASSUME NEW e \in events', Newest(e)'
                 PROVE  {w.ver : w \in RowOf(e.rec)'} = IF e.topic = "record.deleted" THEN {} ELSE {e.ver}
        OBVIOUS
    <2>1. CASE e.rec \in Touched(t)
        <3>1. PICK f \in t.events : f.rec = e.rec BY <1>3, <2>1
        <3>2. e \in t.events
            <4>1. f.seq <= e.seq BY <3>1 DEF Newest, Lands
            <4>2. e \in events => e.seq < f.seq BY <3>1 DEF DataSound
            <4> QED BY <1>1, <3>1, <4>1, <4>2 DEF Lands
        <3>3. RowOf(e.rec)' = {w \in t.rows : w.rec = e.rec} BY <2>1 DEF RowOf, Lands
        <3>4. Announces(e, t) BY <3>2 DEF TxSound
        <3>5. CASE e.topic = "record.deleted"
            <4>1. e.rec \in t.gone BY <3>4, <3>5 DEF Announces
            <4>2. RowOf(e.rec)' = {} BY <3>3, <4>1 DEF TxSound
            <4> QED BY <3>5, <4>2
        <3>6. CASE e.topic # "record.deleted"
            <4>1. PICK w \in t.rows : w.rec = e.rec /\ w.ver = e.ver BY <3>4, <3>6 DEF Announces
            <4>2. RowOf(e.rec)' = {w} BY <3>3, <4>1 DEF TxSound
            <4> QED BY <3>6, <4>1, <4>2
        <3> QED BY <3>5, <3>6
    <2>2. CASE e.rec \notin Touched(t)
        <3>1. e \in events BY <1>4, <2>2 DEF Lands
        <3>2. Newest(e) /\ RowOf(e.rec)' = RowOf(e.rec) BY <1>6, <2>2, <3>1
        <3> QED BY <3>1, <3>2 DEF JournalInv
    <2> QED BY <2>1, <2>2
<1>9. \A w \in rows' : w.ver \in Nat /\ \E e \in events' : e.rec = w.rec
    <2> SUFFICES ASSUME NEW w \in rows' PROVE w.ver \in Nat /\ \E e \in events' : e.rec = w.rec
        OBVIOUS
    <2>1. CASE w \in rows BY <2>1 DEF JournalInv, Lands
    <2>2. CASE w \in t.rows
        <3>1. w.rec \in Touched(t) BY <2>2 DEF Touched
        <3> QED BY <1>3, <2>2, <3>1 DEF TxSound, Lands
    <2> QED BY <2>1, <2>2 DEF Lands
<1>10. \A w, v \in rows' : w.rec = v.rec => w = v
    <2>1. \A w \in t.rows : w.rec \in Touched(t) BY DEF Touched
    <2> QED BY <2>1 DEF Lands, JournalInv, TxSound
<1>11. audit' = FactsOf(events')
    <2>1. FactsOf(events \cup t.events) = FactsOf(events) \cup FactsOf(t.events) BY DEF FactsOf
    <2> QED BY <2>1 DEF Lands, JournalInv, TxSound
<1>12. jobs' = JobsOf(events')
    <2>1. JobsOf(events \cup t.events) = JobsOf(events) \cup JobsOf(t.events) BY DEF JobsOf
    <2> QED BY <2>1 DEF Lands, JournalInv, TxSound
<1>13. \A e \in events' : Newest(e)' =>
         {w.ver : w \in RowOf(e.rec)}' = IF e.topic = "record.deleted" THEN {} ELSE {e.ver}
    BY <1>8
<1> QED BY <1>1, <1>2, <1>7, <1>9, <1>10, <1>11, <1>12, <1>13 DEF JournalInv, FactsOf, JobsOf

(* A row that a commit writes is announced; unless the record was created *)
(* there, it was one version behind before.                                *)
LEMMA RowLands ==
    ASSUME NEW q, NEW t, q.pc = "commit", AskSound(q), TxSound(q, t), KindSound(q, t), DataSound(q, t),
           JournalInv, NEW w \in t.rows
    PROVE  \E e \in t.events :
              /\ e.rec = w.rec /\ e.ver = w.ver
              /\ \A f \in t.events : f.rec = w.rec => f = e
              /\ \A f \in events : f.rec = w.rec => f.seq < e.seq
              /\ \/ e.topic = "record.created"
                 \/ \E v \in rows : v.rec = w.rec /\ v.ver \in Nat /\ w.ver = v.ver + 1
<1>1. w.rec \in Touched(t) BY DEF Touched
<1>2. PICK e \in t.events : e.rec = w.rec BY <1>1 DEF TxSound
<1>3. w.rec \notin t.gone /\ Announces(e, t) BY <1>2 DEF TxSound
<1>4. PICK v \in t.rows : v.rec = e.rec /\ v.ver = e.ver BY <1>2, <1>3 DEF Announces
<1>5. v = w BY <1>2, <1>4 DEF TxSound
<1>6. \A f \in t.events : f.rec = w.rec => f = e BY <1>2 DEF TxSound
<1>7. \A f \in events : f.rec = w.rec => f.seq < e.seq BY <1>2 DEF DataSound
<1>8. e.topic = "record.created" \/ \E u \in rows : u.rec = w.rec /\ u.ver \in Nat /\ w.ver = u.ver + 1
    <2>1. CASE q.ask.kind = "create" BY <1>2, <2>1 DEF KindSound
    <2>2. CASE q.ask.kind = "update"
        <3>1. PICK n : n = q.ask.ver + 1 OBVIOUS
        <3>2. w = [rec |-> q.ask.rec, ver |-> n, vals |-> Merge(q.cur.vals, q.ask.patch)]
            BY <2>2, <3>1 DEF KindSound
        <3>3. w.rec = q.ask.rec /\ w.ver = n BY <3>2
        <3>4. PICK u \in rows : u.rec = q.ask.rec /\ u.ver = q.ask.ver BY <2>2 DEF DataSound
        <3>5. u.ver \in Nat BY <3>4 DEF JournalInv
        <3> QED BY <3>1, <3>3, <3>4, <3>5
    <2>3. CASE q.ask.kind = "delete" BY <2>3 DEF KindSound
    <2> QED BY <2>1, <2>2, <2>3 DEF AskSound
<1> QED BY <1>2, <1>4, <1>5, <1>6, <1>7, <1>8

(* Versions go up after a commit, too. *)
LEMMA VersionsLand ==
    ASSUME JournalInv, VersionsInv, NEW q, NEW t, q.pc = "commit", AskSound(q), TxSound(q, t),
           KindSound(q, t), DataSound(q, t), Lands(t)
    PROVE  VersionsInv'
<1> SUFFICES ASSUME NEW e \in events', NEW w \in rows', e.rec = w.rec, e.topic # "record.deleted",
                    \A f \in events' : f.rec = e.rec /\ f.topic = "record.created" => f.seq <= e.seq
             PROVE  e.ver <= w.ver
    BY DEF VersionsInv
<1>1. \A f \in events : f.rec = e.rec /\ f.topic = "record.created" => f.seq <= e.seq BY DEF Lands
<1>2. CASE w \in rows /\ w.rec \notin Touched(t)
    <2>1. e \in events BY <1>2, AnnouncedTouched DEF Lands
    <2> QED BY <1>1, <1>2, <2>1 DEF VersionsInv
<1>3. CASE w \in t.rows
    <2>1. PICK g \in t.events :
             /\ g.rec = w.rec /\ g.ver = w.ver
             /\ \A f \in t.events : f.rec = w.rec => f = g
             /\ \A f \in events : f.rec = w.rec => f.seq < g.seq
             /\ \/ g.topic = "record.created"
                \/ \E v \in rows : v.rec = w.rec /\ v.ver \in Nat /\ w.ver = v.ver + 1
        BY <1>3, RowLands
    <2>2. w.ver \in Nat BY <1>3 DEF TxSound
    <2>3. CASE e \in t.events BY <2>1, <2>2, <2>3
    <2>4. CASE e \in events
        <3>1. e.seq < g.seq /\ g \in events' /\ e.seq \in Nat /\ g.seq \in Nat
            BY <2>1, <2>4 DEF Lands, JournalInv, DataSound
        <3>2. g.topic # "record.created" BY <2>1, <3>1
        <3>3. PICK v \in rows : v.rec = w.rec /\ v.ver \in Nat /\ w.ver = v.ver + 1 BY <2>1, <3>2
        <3>4. e.ver <= v.ver BY <1>1, <2>4, <3>3 DEF VersionsInv
        <3>5. e.ver \in Nat BY <2>4 DEF JournalInv
        <3> QED BY <3>3, <3>4, <3>5
    <2> QED BY <2>3, <2>4 DEF Lands
<1> QED BY <1>2, <1>3 DEF Lands

(* What another update has read stays no newer than the row. *)
LEMMA ReadLands ==
    ASSUME JournalInv, NEW q, NEW t, q.pc = "commit", AskSound(q), TxSound(q, t),
           KindSound(q, t), DataSound(q, t), Lands(t),
           NEW p, Reads(p), SawIt(p), AskSound(p), p.saw \in Nat
    PROVE  Reads(p)' /\ SawIt(p)'
<1>1. SawIt(p)' BY DEF SawIt, Lands
<1>2. ASSUME p.ask.kind = "update", ~BornSince(p)', NEW w \in rows', w.rec = p.ask.rec
      PROVE  /\ p.ask.ver <= w.ver
             /\ p.pc # "fetch" => /\ p.cur.ver \in Nat /\ p.ask.ver <= p.cur.ver /\ p.cur.ver <= w.ver
                                  /\ w.ver = p.cur.ver => w.vals = p.cur.vals
    <2>1. ~BornSince(p) BY <1>2 DEF BornSince, Lands
    <2>2. p.ask.ver \in Nat BY <1>2 DEF AskSound
    <2>3. CASE w \in rows BY <1>2, <2>1, <2>3 DEF Reads, RowOf
    <2>4. CASE w \in t.rows
        <3>1. PICK g \in t.events :
                 /\ g.rec = w.rec /\ g.ver = w.ver
                 /\ \A f \in t.events : f.rec = w.rec => f = g
                 /\ \A f \in events : f.rec = w.rec => f.seq < g.seq
                 /\ \/ g.topic = "record.created"
                    \/ \E v \in rows : v.rec = w.rec /\ v.ver \in Nat /\ w.ver = v.ver + 1
            BY <2>4, RowLands
        <3>2. PICK f \in events : f.rec = p.ask.rec /\ f.seq = p.saw BY <1>2 DEF SawIt
        <3>3. g.seq > p.saw /\ g \in events'
            <4>1. f.seq < g.seq /\ g.seq \in Nat BY <1>2, <3>1, <3>2 DEF DataSound
            <4> QED BY <3>1, <3>2, <4>1 DEF Lands
        <3>4. g.topic # "record.created" BY <1>2, <3>1, <3>3 DEF BornSince
        <3>5. PICK v \in rows : v.rec = w.rec /\ v.ver \in Nat /\ w.ver = v.ver + 1 BY <3>1, <3>4
        <3>6. v \in RowOf(p.ask.rec) BY <1>2, <3>5 DEF RowOf
        <3>7. p.ask.ver <= v.ver BY <1>2, <2>1, <3>6 DEF Reads
        <3>8. p.pc # "fetch" => p.cur.ver \in Nat /\ p.ask.ver <= p.cur.ver /\ p.cur.ver <= v.ver
            BY <1>2, <2>1, <3>6 DEF Reads
        <3>9. p.ask.ver <= w.ver BY <2>2, <3>5, <3>7
        <3>10. p.pc # "fetch" => p.cur.ver <= w.ver /\ w.ver # p.cur.ver BY <3>5, <3>8
        <3> QED BY <3>8, <3>9, <3>10
    <2> QED BY <2>3, <2>4 DEF Lands
<1>3. Reads(p)' BY <1>2 DEF Reads, RowOf
<1> QED BY <1>1, <1>3

(* The transactions that are still open keep their locks. *)
LEMMA OpenLands ==
    ASSUME NEW q, NEW t, q.pc = "commit", TxSound(q, t), DataSound(q, t), Lands(t),
           NEW p, NEW u, OpenSound(p, u), Apart(t, u), provider # "sqlite", UNCHANGED provider
    PROVE  OpenSound(p, u)'
<1>1. TxSound(p, u) /\ KindSound(p, u) /\ KeySound(p, u) /\ DataSound(p, u) BY DEF OpenSound
<1>2. (\A e \in u.events : e.rec \in Touched(u)) /\ (\A e \in t.events : e.rec \in Touched(t))
    BY <1>1, AnnouncedTouched
<1>3. \A e \in u.events : /\ e.seq \in 1 .. seq'
                          /\ \A f \in events' : f.seq # e.seq /\ (f.rec = e.rec => f.seq < e.seq)
    <2> SUFFICES ASSUME NEW e \in u.events
                 PROVE  /\ e.seq \in 1 .. seq
                        /\ \A f \in events' : f.seq # e.seq /\ (f.rec = e.rec => f.seq < e.seq)
        BY DEF Lands
    <2>1. e.seq \in 1 .. seq BY <1>1 DEF DataSound
    <2>2. \A f \in events : f.seq # e.seq /\ (f.rec = e.rec => f.seq < e.seq) BY <1>1 DEF DataSound
    <2>3. \A f \in t.events : f.seq # e.seq /\ f.rec # e.rec BY <1>2 DEF Apart
    <2> QED BY <2>1, <2>2, <2>3 DEF Lands
<1>4. p.ask.kind = "update" /\ p.pc \in {"emit", "commit"} =>
         \E w \in rows' : w.rec = p.ask.rec /\ w.ver = p.ask.ver
    <2> SUFFICES ASSUME p.ask.kind = "update", p.pc \in {"emit", "commit"}
                 PROVE  \E w \in rows' : w.rec = p.ask.rec /\ w.ver = p.ask.ver
        OBVIOUS
    <2>1. PICK w \in rows : w.rec = p.ask.rec /\ w.ver = p.ask.ver BY <1>1 DEF DataSound
    <2>2. PICK x \in u.rows : x = [rec |-> p.ask.rec, ver |-> p.ask.ver + 1,
                                   vals |-> Merge(p.cur.vals, p.ask.patch)]
        BY <1>1 DEF KindSound
    <2>3. x.rec = w.rec /\ x.rec \in Touched(u) BY <2>1, <2>2 DEF Touched
    <2>4. w.rec \notin Touched(t) BY <2>3 DEF Apart
    <2> QED BY <2>1, <2>4 DEF Lands
<1>5. \A i \in u.idem, j \in idem' : i.key # j.key BY <1>1 DEF DataSound, Apart, Lands
<1>6. DataSound(p, u)' BY <1>3, <1>4, <1>5 DEF DataSound
<1>7. TxSound(p, u)' /\ KindSound(p, u)' /\ KeySound(p, u)' BY <1>1 DEF TxSound, KindSound, KeySound
<1> QED BY <1>6, <1>7 DEF OpenSound

(* A key that a commit inserts was free, and so it is the only one. *)
LEMMA KeysLand ==
    ASSUME KeysInv, NEW q, NEW t, q.pc = "commit", AskSound(q), KeySound(q, t), DataSound(q, t), Lands(t),
           made' = Append(made, q.ask)
    PROVE  KeysInv'
<1>1. q.ask \in Requests /\ made \in Seq(Requests) BY DEF AskSound, KeysInv
<1>2. /\ made' \in Seq(Requests) /\ Len(made') = Len(made) + 1 /\ Len(made) \in Nat
      /\ made'[Len(made) + 1] = q.ask /\ \A n \in 1 .. Len(made) : made'[n] = made[n]
      /\ DOMAIN made = 1 .. Len(made) /\ DOMAIN made' = 1 .. (Len(made) + 1)
    BY <1>1
<1>3. \A n \in DOMAIN made' : made'[n].kind = "create" /\ made'[n].key # None =>
         \E i \in idem' : i.key = made'[n].key
    <2> SUFFICES ASSUME NEW n \in DOMAIN made', made'[n].kind = "create", made'[n].key # None
                 PROVE  \E i \in idem' : i.key = made'[n].key
        OBVIOUS
    <2>1. CASE n \in DOMAIN made BY <1>2, <2>1 DEF KeysInv, Lands
    <2>2. CASE n = Len(made) + 1
        <3>1. q.ask.kind = "create" /\ q.ask.key # None /\ made'[n] = q.ask BY <1>2, <2>2
        <3>2. PICK i \in t.idem : i.key = q.ask.key BY <3>1 DEF KeySound
        <3> QED BY <3>1, <3>2 DEF Lands
    <2> QED BY <1>2, <2>1, <2>2
<1>4. \A m \in DOMAIN made : made[m].kind = "create" /\ made[m].key # None /\ q.ask.kind = "create" =>
         made[m].key # q.ask.key
    <2> SUFFICES ASSUME NEW m \in DOMAIN made, made[m].kind = "create", made[m].key # None,
                        q.ask.kind = "create", made[m].key = q.ask.key
                 PROVE  FALSE
        OBVIOUS
    <2>1. PICK j \in idem : j.key = made[m].key BY DEF KeysInv
    <2>2. PICK i \in t.idem : i.key = q.ask.key BY DEF KeySound
    <2> QED BY <2>1, <2>2 DEF DataSound
<1>5. KeyedCreateOnce'
    <2> SUFFICES ASSUME NEW m \in DOMAIN made', NEW n \in DOMAIN made',
                        made'[m].kind = "create", made'[n].kind = "create",
                        made'[m].key # None, made'[m].key = made'[n].key
                 PROVE  m = n
        BY DEF KeyedCreateOnce
    <2>1. CASE m \in DOMAIN made /\ n \in DOMAIN made BY <1>2, <2>1 DEF KeysInv, KeyedCreateOnce
    <2>2. CASE m \in DOMAIN made /\ n = Len(made) + 1 BY <1>2, <1>4, <2>2
    <2>3. CASE m = Len(made) + 1 /\ n \in DOMAIN made BY <1>2, <1>4, <2>3
    <2>4. CASE m = Len(made) + 1 /\ n = Len(made) + 1 BY <2>4
    <2> QED BY <1>2, <2>1, <2>2, <2>3, <2>4
<1> QED BY <1>2, <1>3, <1>5 DEF KeysInv

(* A transaction commits, whether or not its client learns of it. *)
LEMMA CommitStep ==
    ASSUME RequestsInv, NEW c \in Requesters, req[c].pc = "commit", Committed(c) PROVE RequestsInv'
<1>0. /\ ShapeInv /\ OpenInv /\ ApartInv /\ JournalInv /\ VersionsInv /\ ReadsInv /\ KeysInv /\ StreamInv
      /\ provider \in {"sqlite", "postgres"} /\ seq \in Nat /\ req[c].pc \in InTx
    BY DEF RequestsInv, ShapeInv, InTx
<1>1. PICK q, t : q = req[c] /\ t = tx[c] OBVIOUS
<1>2. q.pc = "commit" /\ IsReq(q) /\ AskSound(q) /\ IsTx(t) /\ OpenSound(q, t) BY <1>0, <1>1, InsideTx
<1>3. TxSound(q, t) /\ KindSound(q, t) /\ KeySound(q, t) /\ DataSound(q, t) BY <1>2 DEF OpenSound
<1>4. Lands(t) /\ made' = Append(made, q.ask) /\ UNCHANGED <<provider, stream>>
    BY <1>1 DEF Committed, Lands, Ask
<1>5. req' = [req EXCEPT ![c] = Idle] /\ tx' = [tx EXCEPT ![c] = NoTx] BY DEF Committed, Reply
<1>6. req = [d \in Requesters |-> req[d]] /\ tx = [d \in Requesters |-> tx[d]] BY <1>0 DEF ShapeInv
<1>7. /\ req' = [d \in Requesters |-> req'[d]] /\ req'[c] = Idle
      /\ tx' = [d \in Requesters |-> tx'[d]] /\ tx'[c] = NoTx
      /\ \A d \in Requesters : d # c => req'[d] = req[d] /\ tx'[d] = tx[d]
    BY <1>5, <1>6
<1>8. \A d \in Requesters :
         /\ IsReq(req'[d]) /\ (req'[d].pc # "idle" => AskSound(req'[d]))
         /\ IF req'[d].pc \in InTx THEN IsTx(tx'[d]) ELSE tx'[d] = NoTx
    BY <1>0, <1>7, IdleReq DEF ShapeInv
<1>9. ShapeInv'
    <2>1. IsFiniteSet(events') BY <1>0, <1>3, <1>4, FS_Union DEF Lands, TxSound, ShapeInv
    <2>2. seq' \in Nat BY <1>0, <1>4 DEF Lands
    <2>3. stream' = [after |-> stream'.after, got |-> stream'.got] /\ stream'.after \in Nat
        BY <1>0, <1>4 DEF ShapeInv
    <2> QED BY <1>7, <1>8, <2>1, <2>2, <2>3 DEF ShapeInv, IsReq, AskSound, IsTx
<1>10. JournalInv' BY <1>0, <1>2, <1>3, <1>4, JournalLands
<1>11. VersionsInv' BY <1>0, <1>2, <1>3, <1>4, VersionsLand
<1>12. KeysInv' BY <1>0, <1>2, <1>3, <1>4, KeysLand
<1>13. ReadsInv'
    <2> SUFFICES ASSUME NEW d \in Requesters, req'[d].pc # "idle" PROVE Reads(req[d])' /\ SawIt(req[d])'
        BY DEF ReadsInv
    <2>1. d # c BY <1>7, IdleReq
    <2>2. PICK p : p = req'[d] /\ p = req[d] BY <1>7, <2>1
    <2>3. Reads(p) /\ SawIt(p) BY <1>0, <2>2 DEF ReadsInv
    <2>4. AskSound(p) /\ p.saw \in Nat BY <1>0, <2>2 DEF ShapeInv, IsReq
    <2>5. Reads(p)' /\ SawIt(p)' BY <1>0, <1>2, <1>3, <1>4, <2>3, <2>4, ReadLands
    <2> QED BY <2>2, <2>5
<1>14. OpenInv'
    <2> SUFFICES ASSUME NEW d \in Requesters, req'[d].pc \in InTx PROVE OpenSound(req[d], tx[d])'
        BY DEF OpenInv
    <2>1. d # c BY <1>7, IdleReq
    <2>2. PICK p, u : p = req'[d] /\ p = req[d] /\ u = tx'[d] /\ u = tx[d] BY <1>7, <2>1
    <2>3. OpenSound(p, u) BY <1>0, <2>2 DEF OpenInv
    <2>4. provider # "sqlite" /\ Apart(t, u) BY <1>0, <1>1, <2>1, <2>2 DEF ApartInv
    <2>5. OpenSound(p, u)' BY <1>2, <1>3, <1>4, <2>3, <2>4, OpenLands
    <2> QED BY <2>2, <2>5
<1>15. ApartInv'
    <2> SUFFICES ASSUME NEW d \in Requesters, NEW e \in Requesters, d # e,
                        req'[d].pc \in InTx, req'[e].pc \in InTx
                 PROVE  provider' # "sqlite" /\ Apart(tx[d], tx[e])'
        BY DEF ApartInv
    <2>1. d # c /\ e # c /\ req[d].pc \in InTx /\ req[e].pc \in InTx BY <1>7, IdleReq
    <2>2. provider # "sqlite" /\ Apart(tx[d], tx[e]) BY <1>0, <2>1 DEF ApartInv
    <2>3. PICK s, u : s = tx[d] /\ u = tx[e] /\ s = tx'[d] /\ u = tx'[e] BY <1>7, <2>1
    <2> QED BY <1>4, <2>2, <2>3 DEF Apart, Touched
<1>16. StreamInv'
    <2> SUFFICES ASSUME provider = "sqlite"
                 PROVE  /\ \A e \in events' : e.seq <= stream'.after => e \in stream'.got
                        /\ stream'.after <= seq'
        BY <1>4 DEF StreamInv, NothingSkipped
    <2>1. SqliteSound(t) BY <1>2 DEF OpenSound
    <2>2. PICK n : n = Cardinality(t.events) /\ n \in 0 .. seq BY <2>1 DEF SqliteSound
    <2>3. stream.after \in Nat /\ \A e \in t.events : e.seq \in 1 .. seq
        BY <1>0, <1>3 DEF ShapeInv, DataSound
    <2>4. \A e \in t.events : ~(e.seq <= stream.after)
        BY <1>0, <2>1, <2>2, <2>3 DEF SqliteSound
    <2> QED BY <1>0, <1>4, <2>4 DEF StreamInv, NothingSkipped, Lands
<1> QED BY <1>0, <1>4, <1>9, <1>10, <1>11, <1>12, <1>13, <1>14, <1>15, <1>16 DEF RequestsInv

(* A page holds every event up to any of its events: no more than PageSize     *)
(* events are older than that one, and they are the older ones of each of them. *)
LEMMA PageWhole ==
    ASSUME RequestAssumption, IsFiniteSet(events), \A e \in events : e.seq \in Nat,
           NEW after \in Nat, NEW last \in Page(after), NEW e \in events, e.seq > after, e.seq <= last.seq
    PROVE  e \in Page(after)
<1> DEFINE newer == {f \in events : f.seq > after}
           Older(n) == {f \in newer : f.seq < n}
<1>1. last \in newer /\ e \in newer /\ Cardinality(Older(last.seq)) < PageSize BY DEF Page
<1>2. Older(e.seq) \subseteq Older(last.seq) BY <1>1
<1>3. IsFiniteSet(Older(last.seq))
    <2>1. Older(last.seq) \subseteq events OBVIOUS
    <2> QED BY <2>1, FS_Subset
<1>4. /\ Cardinality(Older(e.seq)) <= Cardinality(Older(last.seq))
      /\ Cardinality(Older(e.seq)) \in Nat /\ Cardinality(Older(last.seq)) \in Nat
    BY <1>2, <1>3, FS_Subset, FS_CardinalityType
<1>5. Cardinality(Older(e.seq)) < PageSize BY <1>1, <1>4 DEF RequestAssumption
<1> QED BY <1>1, <1>5 DEF Page

(* A subscriber polls. *)
LEMMA PollStep ==
    ASSUME RequestsInv, RequestAssumption, Poll PROVE RequestsInv'
<1>0. /\ ShapeInv /\ OpenInv /\ ApartInv /\ JournalInv /\ VersionsInv /\ ReadsInv /\ KeysInv /\ StreamInv
      /\ provider \in {"sqlite", "postgres"} /\ seq \in Nat
    BY DEF RequestsInv, ShapeInv
<1>1. UNCHANGED <<provider, data, seq, req, tx, made>> BY DEF Poll
<1>2. provider = "sqlite" => \A c \in Requesters : req[c].pc \notin InTx BY <1>0, OpenIff DEF Poll
<1>3. PICK after, got : /\ stream' = [after |-> after, got |-> got] /\ after \in Nat
                        /\ provider = "sqlite" => /\ after <= seq
                                                  /\ \A e \in events : e.seq <= after => e \in got
    <2>1. CASE UNCHANGED stream
        <3>1. stream' = [after |-> stream.after, got |-> stream.got] /\ stream.after \in Nat
            BY <1>0, <2>1 DEF ShapeInv
        <3> QED BY <1>0, <3>1 DEF StreamInv, NothingSkipped
    <2>2. ASSUME NEW last \in Page(stream.after),
                 stream' = [after |-> last.seq,
                            got |-> stream.got \cup {e \in Page(stream.after) : e.seq <= last.seq}]
          PROVE  \E after, got : /\ stream' = [after |-> after, got |-> got] /\ after \in Nat
                                 /\ provider = "sqlite" => /\ after <= seq
                                                           /\ \A e \in events : e.seq <= after => e \in got
        <3>1. last \in events BY DEF Page
        <3>2. last.seq \in Nat /\ last.seq <= seq /\ \A e \in events : e.seq \in Nat
            BY <1>0, <3>1 DEF JournalInv
        <3>3. stream.after \in Nat /\ IsFiniteSet(events) BY <1>0 DEF ShapeInv
        <3>4. ASSUME provider = "sqlite", NEW e \in events, e.seq <= last.seq
              PROVE  e \in stream.got \cup {f \in Page(stream.after) : f.seq <= last.seq}
            <4>1. CASE e.seq <= stream.after BY <1>0, <3>4, <4>1 DEF StreamInv, NothingSkipped
            <4>2. CASE e.seq > stream.after
                <5>1. e \in Page(stream.after) BY <3>2, <3>3, <3>4, <4>2, PageWhole
                <5> QED BY <3>4, <5>1
            <4> QED BY <3>2, <3>3, <4>1, <4>2
        <3> QED BY <2>2, <3>2, <3>4
    <2> QED BY <2>1, <2>2 DEF Poll
<1>4. stream'.after = after /\ stream'.got = got BY <1>3
<1>5. StreamInv' BY <1>1, <1>3, <1>4 DEF StreamInv, NothingSkipped, data
<1>6. ShapeInv' BY <1>0, <1>1, <1>3, <1>4 DEF ShapeInv, data, IsReq, AskSound, IsTx
<1>7. JournalInv' /\ VersionsInv' /\ KeysInv'
    BY <1>0, <1>1 DEF JournalInv, VersionsInv, KeysInv, KeyedCreateOnce, Newest, RowOf, FactsOf, JobsOf, data
<1>8. ReadsInv' BY <1>0, <1>1 DEF ReadsInv, Reads, SawIt, BornSince, RowOf, data
<1>9. ApartInv' BY <1>0, <1>1 DEF ApartInv, Apart, Touched
<1>10. OpenInv'
    <2> SUFFICES ASSUME NEW d \in Requesters, req'[d].pc \in InTx PROVE OpenSound(req[d], tx[d])'
        BY DEF OpenInv
    <2>1. provider # "sqlite" BY <1>1, <1>2
    <2>2. PICK p, u : p = req[d] /\ u = tx[d] /\ p = req'[d] /\ u = tx'[d] BY <1>1
    <2>3. OpenSound(p, u) BY <1>0, <1>1, <2>2 DEF OpenInv
    <2>4. OpenSound(p, u)'
        <3>1. TxSound(p, u)' /\ KindSound(p, u)' /\ KeySound(p, u)'
            BY <2>3 DEF OpenSound, TxSound, KindSound, KeySound
        <3>2. DataSound(p, u)' BY <1>1, <2>3 DEF OpenSound, DataSound, data
        <3> QED BY <1>1, <2>1, <3>1, <3>2 DEF OpenSound
    <2> QED BY <2>2, <2>4
<1> QED BY <1>0, <1>1, <1>5, <1>6, <1>7, <1>8, <1>9, <1>10 DEF RequestsInv

-----------------------------------------------------------------------------
(* The inductive invariant *)

(* It holds in an empty database that nobody uses. *)
LEMMA RequestsInit ==
    ASSUME Init, RequestAssumption PROVE RequestsInv
<1>1. /\ provider \in {"sqlite", "postgres"}
      /\ rows = {} /\ idem = {} /\ events = {} /\ audit = {} /\ jobs = {} /\ seq = 0
      /\ made = <<>> /\ stream = [after |-> 0, got |-> {}]
      /\ req = [c \in Requesters |-> Idle] /\ tx = [c \in Requesters |-> NoTx]
    BY DEF Init, RequestAssumption
<1>2. \A c \in Requesters : req[c] = Idle /\ tx[c] = NoTx BY <1>1
<1>3. \A c \in Requesters : req[c].pc = "idle" /\ req[c].pc \notin InTx /\ IsReq(req[c]) BY <1>2, IdleReq
<1>4. ShapeInv
    <2>1. IsFiniteSet(events) BY <1>1, FS_EmptySet
    <2>2. stream = [after |-> stream.after, got |-> stream.got] /\ stream.after \in Nat BY <1>1
    <2>3. req = [c \in Requesters |-> req[c]] /\ tx = [c \in Requesters |-> tx[c]] BY <1>1
    <2> QED BY <1>1, <1>2, <1>3, <2>1, <2>2, <2>3 DEF ShapeInv
<1>5. OpenInv /\ ApartInv /\ ReadsInv BY <1>3 DEF OpenInv, ApartInv, ReadsInv
<1>6. JournalInv /\ VersionsInv BY <1>1 DEF JournalInv, VersionsInv, FactsOf, JobsOf
<1>7. KeysInv BY <1>1 DEF KeysInv, KeyedCreateOnce
<1>8. StreamInv BY <1>1 DEF StreamInv, NothingSkipped
<1> QED BY <1>1, <1>4, <1>5, <1>6, <1>7, <1>8 DEF RequestsInv

(* Nothing happens. *)
LEMMA RequestsStutter ==
    ASSUME RequestsInv, UNCHANGED vars PROVE RequestsInv'
<1>0. /\ ShapeInv /\ OpenInv /\ ApartInv /\ JournalInv /\ VersionsInv /\ ReadsInv /\ KeysInv /\ StreamInv
      /\ provider \in {"sqlite", "postgres"} /\ seq \in Nat
    BY DEF RequestsInv, ShapeInv
<1>1. UNCHANGED <<provider, data, seq, req, tx, stream, made>> BY DEF vars
<1>2. ShapeInv' BY <1>0, <1>1 DEF ShapeInv, data, IsReq, AskSound, IsTx
<1>3. /\ JournalInv' /\ VersionsInv' /\ KeysInv' /\ StreamInv' BY <1>0, <1>1, DataStays
<1>4. ReadsInv' BY <1>0, <1>1 DEF ReadsInv, Reads, SawIt, BornSince, RowOf, data
<1>5. ApartInv' BY <1>0, <1>1 DEF ApartInv, Apart, Touched
<1>6. OpenInv'
    <2> SUFFICES ASSUME NEW d \in Requesters, req'[d].pc \in InTx PROVE OpenSound(req[d], tx[d])'
        BY DEF OpenInv
    <2>1. PICK p, u : p = req[d] /\ u = tx[d] /\ p = req'[d] /\ u = tx'[d] BY <1>1
    <2>2. OpenSound(p, u) BY <1>0, <1>1, <2>1 DEF OpenInv
    <2>3. OpenSound(p, u)' BY <1>0, <1>1, <2>2, OpenStays
    <2> QED BY <2>1, <2>3
<1> QED BY <1>0, <1>1, <1>2, <1>3, <1>4, <1>5, <1>6 DEF RequestsInv

(* One step per action of Next. *)
LEMMA RequestsNext ==
    ASSUME RequestsInv, RequestAssumption, [Next]_vars PROVE RequestsInv'
<1>1. ASSUME NEW c \in Requesters, NEW ask \in Requests, Start(c, ask) PROVE RequestsInv'
    BY <1>1, StartStep
<1>2. ASSUME NEW c \in Requesters, Step(c) PROVE RequestsInv'
    <2>1. CASE LookupKey(c) BY <2>1, LookupStep
    <2>2. CASE ReplayKey(c) BY <2>2, ReplayStep
    <2>3. CASE Fetch(c) BY <2>3, FetchStep
    <2>4. CASE Begin(c) BY <2>4, BeginStep
    <2>5. CASE InsertRow(c) BY <2>5, InsertStep
    <2>6. CASE UpdateRow(c) BY <2>6, UpdateStep
    <2>7. CASE DeleteRow(c) BY <2>7, DeleteStep
    <2>8. CASE Emit(c) BY <2>8, EmitStep
    <2>9. CASE InsertKey(c) BY <2>9, KeyStep
    <2>10. CASE Commit(c)
        <3>1. req[c].pc = "commit" /\ Committed(c) BY <2>10 DEF Commit, At
        <3> QED BY <3>1, CommitStep
    <2> QED BY <1>2, <2>1, <2>2, <2>3, <2>4, <2>5, <2>6, <2>7, <2>8, <2>9, <2>10 DEF Step
<1>3. ASSUME NEW c \in Requesters, Victim(c) PROVE RequestsInv'
    BY <1>3, RollbackStep DEF Victim
<1>4. ASSUME NEW c \in Requesters, Abort(c) PROVE RequestsInv'
    BY <1>4, RollbackStep DEF Abort
<1>5. ASSUME NEW c \in Requesters, CommitUnseen(c) PROVE RequestsInv'
    <2>1. req[c].pc = "commit" /\ Committed(c) BY <1>5 DEF CommitUnseen, At
    <2> QED BY <2>1, CommitStep
<1>6. CASE Poll BY <1>6, PollStep
<1>7. CASE UNCHANGED vars BY <1>7, RequestsStutter
<1> QED BY <1>1, <1>2, <1>3, <1>4, <1>5, <1>6, <1>7 DEF Next

(* The inductive invariant holds in every reachable state. *)
THEOREM RequestsInvAlways == Spec => []RequestsInv
<1>1. Init => RequestsInv BY RequestAssumption, RequestsInit
<1>2. RequestsInv /\ [Next]_vars => RequestsInv' BY RequestAssumption, RequestsNext
<1> QED BY <1>1, <1>2, PTL DEF Spec

-----------------------------------------------------------------------------
(* What it implies *)

(* The newest event about a record is the one that JournalMatchesRows chooses. *)
LEMMA JournalTells ==
    ASSUME RequestsInv PROVE JournalMatchesRows
<1>0. JournalInv BY DEF RequestsInv
<1>1. ASSUME NEW rec \in {e.rec : e \in events} \cup {w.rec : w \in rows}
      PROVE  LET about == {e \in events : e.rec = rec}
                 last  == CHOOSE e \in about : \A f \in about : f.seq <= e.seq
             IN  /\ about # {}
                 /\ {w.ver : w \in RowOf(rec)} =
                       IF last.topic = "record.deleted" THEN {} ELSE {last.ver}
    <2> DEFINE about == {e \in events : e.rec = rec}
               last  == CHOOSE e \in about : \A f \in about : f.seq <= e.seq
    <2>1. PICK e \in events : e.rec = rec BY <1>0, <1>1 DEF JournalInv
    <2>2. PICK g \in events : g.rec = rec /\ Newest(g) BY <1>0, <2>1 DEF JournalInv
    <2>3. g \in about /\ \A f \in about : f.seq <= g.seq BY <2>2 DEF Newest
    <2>4. last \in about /\ \A f \in about : f.seq <= last.seq BY <2>3
    <2>5. last \in events /\ last.rec = rec /\ Newest(last) BY <2>4 DEF Newest
    <2> HIDE DEF last
    <2>6. {w.ver : w \in RowOf(last.rec)} = IF last.topic = "record.deleted" THEN {} ELSE {last.ver}
        BY <1>0, <2>5 DEF JournalInv
    <2>7. about # {} BY <2>3
    <2> QED BY <2>5, <2>6, <2>7 DEF last
<1>2. /\ audit = {e.seq : e \in {f \in events : f.topic # "record.deleted"}}
      /\ jobs = {e.seq : e \in {f \in events : f.topic \in HookTopics}}
    BY <1>0 DEF JournalInv, FactsOf, JobsOf
<1> QED BY <1>1, <1>2 DEF JournalMatchesRows

(* The types follow from the shapes and the journal. *)
LEMMA RequestsTyped ==
    ASSUME RequestsInv PROVE TypeOK
<1>0. ShapeInv /\ JournalInv BY DEF RequestsInv
<1>1. \A c \in Requesters :
         /\ req[c].pc \in {"idle", "lookup", "replay", "fetch", "begin", "write", "emit", "key", "commit"}
         /\ tx[c] # NoTx <=> req[c].pc \in {"write", "emit", "key", "commit"}
         /\ At(c, "idle") \/ Ask(c) \in Requests
    BY <1>0, OpenIff DEF ShapeInv, IsReq, Pcs, InTx, At, Ask, AskSound
<1>2. \A e \in events : e.seq \in 1 .. seq BY <1>0 DEF JournalInv
<1>3. audit \cup jobs \subseteq 1 .. seq BY <1>0, <1>2 DEF JournalInv, FactsOf, JobsOf
<1>4. \A w, v \in rows : w.rec = v.rec => w = v BY <1>0 DEF JournalInv
<1> QED BY <1>1, <1>2, <1>3, <1>4 DEF TypeOK

(* Rows, keys and journal agree, whatever requests race and whatever is lost  *)
(* or rolled back (records.Handler create, createBatch, update, remove and    *)
(* events.Emit in one transaction).                                           *)
THEOREM RequestsExactAlways == Spec => []RequestsExact
<1>1. RequestsInv => RequestsExact
    BY JournalTells, RequestsTyped DEF RequestsExact, RequestsInv, KeysInv
<1> QED BY <1>1, RequestsInvAlways, PTL

(* On SQLite a subscriber misses no event that its cursor has passed           *)
(* (events.Handler stream, read).                                             *)
THEOREM SqliteNothingSkippedAlways == Spec => []SqliteNothingSkipped
<1>1. RequestsInv => SqliteNothingSkipped BY DEF RequestsInv, StreamInv, SqliteNothingSkipped
<1> QED BY <1>1, RequestsInvAlways, PTL

(* An update that commits replaces the row whose values it has read. *)
LEMMA MergeStep ==
    ASSUME RequestsInv, [Next]_vars, NEW c \in Requesters, req[c].pc = "commit", made' # made,
           req'[c].pc = "idle", Ask(c).kind = "update", ~Reborn(c)
    PROVE  \E old \in RowOf(Ask(c).rec), new \in rows' :
              /\ new.rec = old.rec /\ new.ver = old.ver + 1 /\ new.vals = Merge(old.vals, Ask(c).patch)
<1>0. req = [d \in Requesters |-> req[d]] BY DEF RequestsInv, ShapeInv
<1>1. Committed(c)
    <2>1. PICK d \in Requesters : Committed(d)
        BY DEF Next, Step, Start, LookupKey, ReplayKey, Fetch, Begin, InsertRow, UpdateRow, DeleteRow, Emit,
               InsertKey, Commit, Victim, Abort, CommitUnseen, Poll, vars
    <2>2. req' = [req EXCEPT ![d] = Idle] BY <2>1 DEF Committed, Reply
    <2>3. d = c BY <1>0, <2>2
    <2> QED BY <2>1, <2>3
<1>2. PICK q, t : q = req[c] /\ t = tx[c] OBVIOUS
<1>3. q.pc = "commit" /\ AskSound(q) /\ Reads(q) /\ OpenSound(q, t) /\ JournalInv
    BY <1>2, InsideTx DEF InTx
<1>4. q.ask.kind = "update" /\ Ask(c) = q.ask /\ q.ask.ver \in Nat /\ ~BornSince(q)
    BY <1>2, <1>3 DEF Ask, AskSound, Reborn, BornSince
<1>5. PICK old \in rows : old.rec = q.ask.rec /\ old.ver = q.ask.ver
    BY <1>3, <1>4 DEF OpenSound, DataSound
<1>6. old \in RowOf(Ask(c).rec) BY <1>4, <1>5 DEF RowOf
<1>7. old.vals = q.cur.vals
    <2>1. /\ q.cur.ver \in Nat /\ q.ask.ver <= q.cur.ver /\ q.cur.ver <= old.ver
          /\ old.ver = q.cur.ver => old.vals = q.cur.vals
        BY <1>3, <1>4, <1>6 DEF Reads
    <2> QED BY <1>4, <1>5, <2>1
<1>8. PICK n : n = q.ask.ver + 1 OBVIOUS
<1>9. PICK new \in t.rows : new = [rec |-> q.ask.rec, ver |-> n, vals |-> Merge(q.cur.vals, q.ask.patch)]
    BY <1>3, <1>4, <1>8 DEF OpenSound, KindSound
<1>10. new \in rows' BY <1>1, <1>2, <1>9 DEF Committed
<1>11. new.rec = q.ask.rec /\ new.ver = n /\ new.vals = Merge(q.cur.vals, q.ask.patch) BY <1>9
<1> QED BY <1>4, <1>5, <1>6, <1>7, <1>8, <1>10, <1>11

(* No update is lost: what an update read before its transaction is what it    *)
(* replaces, unless the record was created again since its client saw the     *)
(* version (records.Handler update).                                          *)
THEOREM MergedOverCurrentAlways == Spec => MergedOverCurrent
<1>1. RequestsInv /\ [Next]_vars =>
        [\A c \in Requesters :
           At(c, "commit") /\ made' # made /\ req'[c].pc = "idle"
             /\ Ask(c).kind = "update" /\ ~Reborn(c)
           => \E old \in RowOf(Ask(c).rec), new \in rows' :
                /\ new.rec = old.rec /\ new.ver = old.ver + 1
                /\ new.vals = Merge(old.vals, Ask(c).patch)]_vars
    BY MergeStep DEF At
<1> QED BY <1>1, RequestsInvAlways, PTL DEF Spec, MergedOverCurrent
=============================================================================

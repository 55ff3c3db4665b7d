---------------------------- MODULE RecordRequests ----------------------------
(***************************************************************************)
(* The record handlers of a standalone node (internal/records/handler.go,  *)
(* with no mutation authority) and the event stream that clients follow    *)
(* (internal/events/handler.go).  Requests run concurrently.  Their checks *)
(* are reads outside any transaction; the mutation, its event, its audit   *)
(* fact, its jobs and its idempotency key are one transaction.             *)
(*                                                                         *)
(* On SQLite the store has one connection, which a transaction holds until *)
(* its end.  On PostgreSQL transactions overlap (READ COMMITTED): a write  *)
(* waits for the row or the key that another transaction holds, a circular *)
(* wait is broken by a victim, and BIGSERIAL numbers are drawn when a row  *)
(* is written and become visible when its transaction commits.             *)
(***************************************************************************)
EXTENDS Integers, FiniteSets, FiniteSetsExt, Sequences

CONSTANTS Requesters,   \* concurrent requests
          Requests,     \* what they may ask for
          HookTopics,   \* topics an enabled webhook or function subscribes to
          Providers,    \* subset of {"sqlite", "postgres"}
          None,
          PageSize,     \* events a poll reads, LIMIT
          MaxRequests,  \* bound on the requests made
          MaxFaults     \* bound on broken connections and lost answers

ASSUME RequestAssumption ==
    /\ Providers \subseteq {"sqlite", "postgres"}
    /\ \A ask \in Requests : ask.kind = "create" => Len(ask.puts) \in Nat \ {0}
    /\ PageSize \in Nat \ {0}
    /\ MaxRequests \in Nat /\ MaxFaults \in Nat

VARIABLES
    provider,  \* the store's dialect
    rows,      \* the physical table: [rec, ver, vals]
    idem,      \* _trestle_record_idempotency: [key, rec]
    events,    \* committed events: [seq, topic, rec, ver]
    audit,     \* sequence numbers of the events that have an audit fact
    jobs,      \* sequence numbers of the events that have a job
    seq,       \* the last sequence number drawn
    req,       \* [pc, ask, at, cur, saw] of each requester
    tx,        \* the open transaction of each requester, or NoTx
    stream,    \* one subscriber: [after, got]
    made,      \* auxiliary: committed requests in commit order
    used,      \* requests made so far
    faults

data == <<rows, idem, events, audit, jobs>>
vars == <<provider, data, seq, req, tx, stream, made, used, faults>>

EmptyTx == [rows |-> {}, gone |-> {}, idem |-> {}, events |-> {}, audit |-> {}, jobs |-> {}]

NoTx    == [open |-> FALSE]

(* saw is auxiliary: the event by which the client of an update knows the     *)
(* version it sends.                                                         *)
Idle == [pc |-> "idle", ask |-> None, at |-> 1, cur |-> None, saw |-> 0]

Init ==
    /\ provider \in Providers
    /\ rows = {} /\ idem = {} /\ events = {} /\ audit = {} /\ jobs = {}
    /\ seq = 0
    /\ req = [c \in Requesters |-> Idle]
    /\ tx = [c \in Requesters |-> NoTx]
    /\ stream = [after |-> 0, got |-> {}]
    /\ made = <<>>
    /\ used = 0
    /\ faults = 0

-----------------------------------------------------------------------------
(* Helpers *)

At(c, pc) == req[c].pc = pc
Ask(c)    == req[c].ask
Put(c)    == Ask(c).puts[req[c].at]

RowOf(rec)  == {w \in rows : w.rec = rec}
Others(c)   == {d \in Requesters \ {c} : tx[d] # NoTx}

(* SQLite: whoever wants a connection waits until no transaction is open. *)
Connection(c) == provider = "postgres" \/ Others(c) = {}

Touched(t) == {w.rec : w \in t.rows} \cup t.gone

(* An INSERT waits for any open transaction on the same id or key; an UPDATE *)
(* or DELETE only for one that changes a row it can see.                    *)
WaitsFor(c, d) ==
    /\ d \in Others(c)
    /\ \/ /\ At(c, "write") /\ Ask(c).kind = "create"
          /\ Put(c).rec \in Touched(tx[d])
       \/ /\ At(c, "write") /\ Ask(c).kind # "create"
          /\ RowOf(Ask(c).rec) # {} /\ Ask(c).rec \in Touched(tx[d])
       \/ /\ At(c, "key")
          /\ \E i \in tx[d].idem : i.key = Ask(c).key

Blocked(c) == \E d \in Requesters : WaitsFor(c, d)

Merge(vals, patch) ==
    [f \in DOMAIN vals |-> IF f \in DOMAIN patch THEN patch[f] ELSE vals[f]]

(* The events by which a client can know the version it sends in If-Match. *)
Seen(ask) == {e \in events : e.topic # "record.deleted" /\ e.rec = ask.rec /\ e.ver = ask.ver}

Goto(c, pc) == req' = [req EXCEPT ![c].pc = pc]
Reply(c) == req' = [req EXCEPT ![c] = Idle]

(* The deferred Rollback: SQLite takes the sequence numbers back too. *)
RollbackForgotten(c) == Reply(c) /\ UNCHANGED <<tx, seq>>

Rollback(c) ==
    /\ tx' = [tx EXCEPT ![c] = NoTx]
    /\ seq' = IF provider = "sqlite" /\ tx[c] # NoTx
              THEN seq - Cardinality(tx[c].events) ELSE seq
    /\ Reply(c)

-----------------------------------------------------------------------------
(* Handlers *)

(* A request arrives.  Batches have no key. *)
Start(c, ask) ==
    /\ At(c, "idle")
    /\ used < MaxRequests
    /\ used' = used + 1
    /\ \/ /\ ask.kind = "create"
          /\ req' = [req EXCEPT ![c] = [Idle EXCEPT !.ask = ask,
                                           !.pc = IF ask.key # None THEN "lookup" ELSE "begin"]]
       \/ /\ ask.kind = "update"
          /\ \E e \in Seen(ask) :
               req' = [req EXCEPT ![c] = [Idle EXCEPT !.ask = ask, !.pc = "fetch", !.saw = e.seq]]
       \/ /\ ask.kind = "delete" /\ Seen(ask) # {}
          /\ req' = [req EXCEPT ![c] = [Idle EXCEPT !.ask = ask, !.pc = "begin"]]
    /\ UNCHANGED <<provider, data, seq, tx, stream, made, faults>>

(* create: has the key been used? *)
LookupKey(c) ==
    /\ At(c, "lookup")
    /\ Connection(c)
    /\ Goto(c, IF \E i \in idem : i.key = Ask(c).key THEN "replay" ELSE "begin")
    /\ UNCHANGED <<provider, data, seq, tx, stream, made, used, faults>>

(* Then the record it created is the answer, if it still exists. *)
ReplayKey(c) ==
    /\ At(c, "replay")
    /\ Connection(c)
    /\ \E i \in idem :
         /\ i.key = Ask(c).key
         /\ \/ /\ RowOf(i.rec) = {}
               /\ Goto(c, "begin")
            \/ /\ RowOf(i.rec) # {}
               /\ Reply(c)   \* 200 if sameValues, else 409
    /\ UNCHANGED <<provider, data, seq, tx, stream, made, used, faults>>

(* update reads the record it will merge the patch into. *)
Fetch(c) ==
    /\ At(c, "fetch")
    /\ Connection(c)
    /\ \/ /\ RowOf(Ask(c).rec) = {}
          /\ Reply(c)   \* 404
       \/ \E w \in RowOf(Ask(c).rec) :
            req' = [req EXCEPT ![c].pc = "begin", ![c].cur = w]
    /\ UNCHANGED <<provider, data, seq, tx, stream, made, used, faults>>

Begin(c) ==
    /\ At(c, "begin")
    /\ Connection(c)
    /\ tx' = [tx EXCEPT ![c] = EmptyTx]
    /\ Goto(c, "write")
    /\ UNCHANGED <<provider, data, seq, stream, made, used, faults>>

InsertRow(c) ==
    /\ At(c, "write") /\ Ask(c).kind = "create"
    /\ ~Blocked(c)
    /\ \/ /\ \E w \in rows \cup tx[c].rows : w.rec = Put(c).rec
          /\ Rollback(c)   \* 409
       \/ /\ \A w \in rows \cup tx[c].rows : w.rec # Put(c).rec
          /\ tx' = [tx EXCEPT ![c].rows = @ \cup
                      {[rec |-> Put(c).rec, ver |-> 1, vals |-> Put(c).vals]}]
          /\ Goto(c, "emit")
          /\ UNCHANGED seq
    /\ UNCHANGED <<provider, data, stream, made, used, faults>>

(* WHERE _id=? AND _version=?: the rows the statement affects. *)
MatchesAny(c) == RowOf(Ask(c).rec)

Matches(c) == {w \in RowOf(Ask(c).rec) : w.ver = Ask(c).ver}

UpdateRow(c) ==
    /\ At(c, "write") /\ Ask(c).kind = "update"
    /\ ~Blocked(c)
    /\ \/ /\ Matches(c) = {}
          /\ Rollback(c)   \* 412
       \/ \E w \in Matches(c) :
            /\ tx' = [tx EXCEPT ![c].rows =
                        {[rec |-> w.rec, ver |-> w.ver + 1,
                          vals |-> Merge(req[c].cur.vals, Ask(c).patch)]}]
            /\ Goto(c, "emit")
            /\ UNCHANGED seq
    /\ UNCHANGED <<provider, data, stream, made, used, faults>>

DeleteRow(c) ==
    /\ At(c, "write") /\ Ask(c).kind = "delete"
    /\ ~Blocked(c)
    /\ \/ /\ Matches(c) = {}
          /\ Rollback(c)   \* 412
       \/ /\ Matches(c) # {}
          /\ tx' = [tx EXCEPT ![c].gone = {Ask(c).rec}]
          /\ Goto(c, "emit")
          /\ UNCHANGED seq
    /\ UNCHANGED <<provider, data, stream, made, used, faults>>

(* What the event says of the mutation. *)
Announced(c) ==
    CASE Ask(c).kind = "create" -> [seq |-> seq + 1, topic |-> "record.created",
                                    rec |-> Put(c).rec, ver |-> 1]
      [] Ask(c).kind = "update" -> [seq |-> seq + 1, topic |-> "record.updated",
                                    rec |-> Ask(c).rec, ver |-> Ask(c).ver + 1]
      [] OTHER -> [seq |-> seq + 1, topic |-> "record.deleted",
                   rec |-> Ask(c).rec, ver |-> Ask(c).ver]

(* Dispatch enqueues a job if a definition subscribes to the topic, the       *)
(* auditor records all but deletes.                                          *)
Dispatched(e) == {n \in {e.seq} : e.topic \in HookTopics}
Audited(e)    == {n \in {e.seq} : e.topic # "record.deleted"}

(* The event, its jobs and its audit fact in the transaction; then the        *)
(* next record of a batch, the key of a keyed create, or the commit.         *)
Emit(c) ==
    LET e == Announced(c)
        create == Ask(c).kind = "create"
    IN  /\ At(c, "emit")
        /\ seq' = e.seq
        /\ tx' = [tx EXCEPT ![c].events = @ \cup {e},
                            ![c].jobs = @ \cup Dispatched(e),
                            ![c].audit = @ \cup Audited(e)]
        /\ \/ /\ create /\ req[c].at < Len(Ask(c).puts)
              /\ req' = [req EXCEPT ![c].pc = "write", ![c].at = @ + 1]
           \/ /\ create /\ req[c].at = Len(Ask(c).puts) /\ Ask(c).key # None
              /\ Goto(c, "key")
           \/ /\ create => req[c].at = Len(Ask(c).puts) /\ Ask(c).key = None
              /\ Goto(c, "commit")
        /\ UNCHANGED <<provider, data, stream, made, used, faults>>

KeyFreeAlways(c) == TRUE

KeyFree(c) == \A i \in idem : i.key # Ask(c).key

InsertKey(c) ==
    /\ At(c, "key")
    /\ ~Blocked(c)
    /\ \/ /\ ~KeyFree(c)
          /\ Rollback(c)   \* 409
       \/ /\ KeyFree(c)
          /\ tx' = [tx EXCEPT ![c].idem = {[key |-> Ask(c).key, rec |-> Put(c).rec]}]
          /\ Goto(c, "commit")
          /\ UNCHANGED seq
    /\ UNCHANGED <<provider, data, stream, made, used, faults>>

Committed(c) ==
    /\ rows'   = {w \in rows : w.rec \notin Touched(tx[c])} \cup tx[c].rows
    /\ idem'   = idem \cup tx[c].idem
    /\ events' = events \cup tx[c].events
    /\ audit'  = audit \cup tx[c].audit
    /\ jobs'   = jobs \cup tx[c].jobs
    /\ made'   = Append(made, Ask(c))
    /\ tx'     = [tx EXCEPT ![c] = NoTx]
    /\ Reply(c)
    /\ UNCHANGED <<provider, seq, stream, used>>

Commit(c) ==
    /\ At(c, "commit")
    /\ Committed(c)
    /\ UNCHANGED faults

Step(c) ==
    \/ LookupKey(c)
    \/ ReplayKey(c)
    \/ Fetch(c)
    \/ Begin(c)
    \/ InsertRow(c)
    \/ UpdateRow(c)
    \/ DeleteRow(c)
    \/ Emit(c)
    \/ InsertKey(c)
    \/ Commit(c)

-----------------------------------------------------------------------------
(* PostgreSQL, failures and the subscriber *)

(* PostgreSQL ends one transaction of a circular wait; the handler takes the *)
(* error for a conflict.                                                    *)
Victim(c) ==
    /\ \E ring \in SUBSET Requesters :
         /\ c \in ring
         /\ \A d \in ring : \E e \in ring : WaitsFor(d, e)
    /\ Rollback(c)   \* 409
    /\ UNCHANGED <<provider, data, stream, made, used, faults>>

(* The client goes away or the process dies before the commit. *)
Abort(c) ==
    /\ ~At(c, "idle")
    /\ faults < MaxFaults
    /\ faults' = faults + 1
    /\ Rollback(c)
    /\ UNCHANGED <<provider, data, stream, made, used>>

(* Or after it, before the answer arrives. *)
CommitUnseen(c) ==
    /\ At(c, "commit")
    /\ faults < MaxFaults
    /\ faults' = faults + 1
    /\ Committed(c)

(* send: the first PageSize events after the cursor, in order.  The client    *)
(* may lose the connection within a page; it reconnects with the id of the   *)
(* last event it received.                                                  *)
PageNewest(after) ==
    LET newer == {e \in events : e.seq > after}
    IN  {e \in newer : Cardinality({f \in newer : f.seq > e.seq}) < PageSize}

Page(after) ==
    LET newer == {e \in events : e.seq > after}
    IN  {e \in newer : Cardinality({f \in newer : f.seq < e.seq}) < PageSize}

Poll ==
    /\ provider = "postgres" \/ \A c \in Requesters : tx[c] = NoTx
    /\ \/ \E last \in Page(stream.after) :
            stream' = [after |-> last.seq,
                       got |-> stream.got \cup
                                 {e \in Page(stream.after) : e.seq <= last.seq}]
       \/ Page(stream.after) = {} /\ UNCHANGED stream
    /\ UNCHANGED <<provider, data, seq, req, tx, made, used, faults>>

Next ==
    \/ \E c \in Requesters, ask \in Requests : Start(c, ask)
    \/ \E c \in Requesters : Step(c) \/ Victim(c) \/ Abort(c) \/ CommitUnseen(c)
    \/ Poll

(* Handlers run to their end and PostgreSQL finds a deadlock.  A request that *)
(* waits for the connection or a lock is served in its turn (database/sql    *)
(* and PostgreSQL queue them), however many others come and go: strong       *)
(* fairness.                                                                *)
Fairness == \A c \in Requesters : SF_vars(Step(c)) /\ WF_vars(Victim(c))

Spec == Init /\ [][Next]_vars /\ Fairness

-----------------------------------------------------------------------------
(* Correctness *)

(* Types of the requests and the journal. *)
TypeOK ==
    /\ \A c \in Requesters :
         /\ req[c].pc \in {"idle", "lookup", "replay", "fetch", "begin", "write",
                           "emit", "key", "commit"}
         /\ tx[c] # NoTx <=> req[c].pc \in {"write", "emit", "key", "commit"}
         /\ At(c, "idle") \/ Ask(c) \in Requests
    /\ \A e \in events : e.seq \in 1..seq
    /\ audit \cup jobs \subseteq 1..seq
    /\ \A w, v \in rows : w.rec = v.rec => w = v

(* A key creates at most once, whatever retries, races and lost answers: of   *)
(* two creates that both looked the key up in vain, one is refused (create). *)
KeyedCreateOnce ==
    \A i, j \in DOMAIN made :
        /\ made[i].kind = "create" /\ made[j].kind = "create"
        /\ made[i].key # None /\ made[i].key = made[j].key
        => i = j

(* The journal tells the state of the table: the last event of a record, by   *)
(* sequence number, is its deletion iff the record is gone and otherwise      *)
(* names its version; and nothing that was rolled back left an audit fact or  *)
(* a job (insert, update, remove and Emit in one transaction, the row written *)
(* first).                                                                   *)
JournalMatchesRows ==
    /\ \A rec \in {e.rec : e \in events} \cup {w.rec : w \in rows} :
         LET about == {e \in events : e.rec = rec}
             last  == CHOOSE e \in about : \A f \in about : f.seq <= e.seq
         IN  /\ about # {}
             /\ {w.ver : w \in RowOf(rec)} =
                   IF last.topic = "record.deleted" THEN {} ELSE {last.ver}
    /\ audit = {e.seq : e \in {f \in events : f.topic # "record.deleted"}}
    /\ jobs = {e.seq : e \in {f \in events : f.topic \in HookTopics}}

(* Rows, keys and journal agree: a keyed create happens once and leaves one   *)
(* trace, and so does every other mutation, through races and lost answers.   *)
RequestsExact == TypeOK /\ KeyedCreateOnce /\ JournalMatchesRows

(* The record has been created again since the client saw its version: ids    *)
(* may be used again, and versions then repeat.                              *)
Reborn(c) ==
    \E e \in events : /\ e.rec = Ask(c).rec /\ e.topic = "record.created"
                      /\ e.seq > req[c].saw

(* No lost update: an update that succeeds changes the fields of its patch    *)
(* and keeps the others as the version it replaces had them, although they    *)
(* were read before its transaction began and the version that was read is    *)
(* compared with nothing.  A record that was deleted and created again under  *)
(* its id since the client saw the version is excepted.                       *)
MergedOverCurrent ==
    [][\A c \in Requesters :
         At(c, "commit") /\ made' # made /\ req'[c].pc = "idle"
           /\ Ask(c).kind = "update" /\ ~Reborn(c)
         => \E old \in RowOf(Ask(c).rec), new \in rows' :
              /\ new.rec = old.rec /\ new.ver = old.ver + 1
              /\ new.vals = Merge(old.vals, Ask(c).patch)]_vars

(* What the subscriber's cursor has passed, it has received.                  *)
NothingSkipped == \A e \in events : e.seq <= stream.after => e \in stream.got

(* On SQLite a subscriber that reconnects with its last event id misses       *)
(* nothing (stream, read).                                                   *)
SqliteNothingSkipped == provider = "sqlite" => NothingSkipped

(* Every request is answered: nobody waits for ever for the connection, a row *)
(* or a key, also when two batches take their rows in opposite orders.        *)
EventuallyAnswered == \A c \in Requesters : ~At(c, "idle") ~> At(c, "idle")
=============================================================================

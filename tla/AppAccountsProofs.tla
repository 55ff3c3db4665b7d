-------------------------- MODULE AppAccountsProofs --------------------------
(***************************************************************************)
(* Proofs about AppAccounts for any set of addresses, any number of         *)
(* requests served at the same time, invitations, access requests and       *)
(* sessions, on SQLite and on PostgreSQL.                                   *)
(***************************************************************************)
EXTENDS AppAccounts, FiniteSetTheorems, TLAPS

(* The places inside a transaction that holds SQLite's connection, and those *)
(* that may hold row locks on PostgreSQL.                                    *)
InTx    == {"register", "submit", "accept-policy", "accept", "sweep", "approve", "reissue", "rotate", "disable"}
LockPcs == {"register", "submit", "accept", "approve", "reissue"}

(* A request that relies on the policy it has read. *)
PolicyUse(q) ==
    \/ q.pc \in {"register", "submit"}
    \/ q.pc = "accept" /\ invites[q.id].kind = "self_register"

(* What request q of process o holds. *)
Held(o, q) ==
    /\ database = "sqlite" => locks = {} /\ (conn = o <=> q.pc \in InTx)
    /\ database = "postgres" =>
          /\ conn = Nobody
          /\ PolicyUse(q) => [row |-> PolicyRow, by |-> o] \in locks
          /\ q.pc \in {"approve", "reissue"} => [row |-> RequestRow(q.id), by |-> o] \in locks
    /\ \A l \in locks : l.by = o => q.pc \in LockPcs

LocksInv ==
    /\ \A l \in locks : l.by \in Procs
    /\ \A l, m \in locks : l.row = m.row => l.by = m.by
    /\ \A o \in Procs : Held(o, proc[o])

(* Invitation i was issued for access request r. *)
IssuedFor(i, r) == invites[i].origin = "request" /\ invites[i].request = r

(* What a request under way relies on: what it has read and nobody may have  *)
(* changed since.                                                            *)
Sound(q) ==
    /\ q.pc \in {"register", "submit", "invite", "issue", "disable"} => q.email \in Emails
    /\ q.pc = "register" => policy = "open"
    /\ q.pc = "submit" => policy = "approval"
    /\ q.pc = "invite" => q.kind \in Kinds
    /\ q.pc \in {"accept-policy", "accept"} =>
          /\ q.id \in DOMAIN invites /\ q.email = invites[q.id].email
          /\ database = "sqlite" => Outstanding(q.id)
    /\ PolicyUse(q) /\ q.pc = "accept" => policy = "invite"
    /\ q.pc = "sweep" => /\ q.seen \subseteq DOMAIN requests
                         /\ database = "sqlite" => \A r \in q.seen : Pending(r)
    /\ q.pc \in {"approve", "reissue"} => q.id \in DOMAIN requests
    /\ q.pc = "reissue" => /\ ~Pending(q.id)
                           /\ \A i \in DOMAIN invites : IssuedFor(i, q.id) /\ Outstanding(i) => i \in q.seen
    /\ q.pc = "rotate" => /\ q.id \in DOMAIN sessions
                          /\ database = "sqlite" => users[sessions[q.id].user].state = "active"
    /\ q.pc = "disable" => /\ UserCount(q.email)
                           /\ database = "sqlite" => \A s \in DOMAIN sessions :
                                  sessions[s].user = q.email /\ Live(s) => s \in q.seen

TypesInv ==
    /\ database \in {"sqlite", "postgres"} /\ policy \in Policies
    /\ users \in [Emails -> User] /\ facts \in [Emails -> Nat]
    /\ invites \in Seq(InviteRow) /\ requests \in Seq(AccessRow) /\ sessions \in Seq(SessionRow)
    /\ proc \in [Procs -> Process]
    /\ conn \in Procs \cup {Nobody}

ProcsInv == LocksInv /\ \A o \in Procs : Sound(proc[o])

UsersInv ==
    /\ \A e \in Emails : UserCount(e) <=> users[e].via # "none"
    /\ AdmittedByPolicy /\ UsersAudited

(* An invitation issued for a request was issued after its approval, to its  *)
(* address; no two of them are outstanding.                                  *)
InvitesInv ==
    /\ \A i \in DOMAIN invites : invites[i].origin = "request" =>
          LET r == invites[i].request
          IN  r \in DOMAIN requests /\ ~Pending(r)
              /\ invites[i].kind = "activate" /\ invites[i].email = requests[r].email
    /\ \A i, j \in DOMAIN invites :
          /\ invites[i].origin = "request" /\ IssuedFor(j, invites[i].request)
          /\ Outstanding(i) /\ Outstanding(j)
          => i = j

(* On SQLite: who was made by an invitation, and which. *)
UsedInv ==
    database = "sqlite" =>
        /\ \A i \in DOMAIN invites : invites[i].used \in Emails => users[invites[i].used].via \in Kinds
        /\ \A e \in Emails : users[e].via \in Kinds => \E i \in DOMAIN invites : invites[i].used = e
        /\ \A i, j \in DOMAIN invites : invites[i].used \in Emails /\ invites[i].used = invites[j].used => i = j

SessionsInv ==
    /\ \A s \in DOMAIN sessions : sessions[s].chain \in 1 .. s
    /\ SessionsEnd

AppInv == TypesInv /\ ProcsInv /\ UsersInv /\ InvitesInv /\ UsedInv /\ SessionsInv

-----------------------------------------------------------------------------
(* Rows and requests are typed. *)
LEMMA Typed ==
    ASSUME TypesInv
    PROVE  /\ \A o \in Procs : proc[o] \in Process /\ proc[o].id \in Nat
           /\ \A e \in Emails : users[e] \in User
           /\ \A i \in DOMAIN invites : /\ i \in Nat /\ invites[i] \in InviteRow
                                        /\ invites[i].email \in Emails /\ invites[i].kind \in Kinds
                                        /\ invites[i].request \in Nat
           /\ \A r \in DOMAIN requests : /\ r \in Nat /\ requests[r] \in AccessRow
                                         /\ requests[r].email \in Emails
           /\ \A s \in DOMAIN sessions : /\ s \in Nat /\ sessions[s] \in SessionRow
                                         /\ sessions[s].user \in Emails /\ sessions[s].chain \in Nat
<1>1. \A o \in Procs : proc[o] \in Process
  BY DEF TypesInv
<1>2. \A o \in Procs : proc[o].id \in Nat
  BY <1>1 DEF Process
<1>3. \A e \in Emails : users[e] \in User
  BY DEF TypesInv
<1>4. \A i \in DOMAIN invites : i \in Nat /\ invites[i] \in InviteRow
  BY DEF TypesInv
<1>5. \A i \in DOMAIN invites : /\ invites[i].email \in Emails /\ invites[i].kind \in Kinds
                                /\ invites[i].request \in Nat
  BY <1>4 DEF InviteRow
<1>6. \A r \in DOMAIN requests : r \in Nat /\ requests[r] \in AccessRow
  BY DEF TypesInv
<1>7. \A r \in DOMAIN requests : requests[r].email \in Emails
  BY <1>6 DEF AccessRow
<1>8. \A s \in DOMAIN sessions : s \in Nat /\ sessions[s] \in SessionRow
  BY DEF TypesInv
<1>9. \A s \in DOMAIN sessions : sessions[s].user \in Emails /\ sessions[s].chain \in Nat
  BY <1>8 DEF SessionRow
<1> QED
  BY <1>1, <1>2, <1>3, <1>4, <1>5, <1>6, <1>7, <1>8, <1>9

(* One request moves on; the others stay where they are. *)
LEMMA GotoMoves ==
    ASSUME TypesInv, NEW p \in Procs, NEW q \in Process, Goto(p, q)
    PROVE  /\ proc' \in [Procs -> Process] /\ proc'[p] = q
           /\ \A o \in Procs : o # p => proc'[o] = proc[o]
BY DEF TypesInv, Goto

(* A request that is not under way relies on nothing. *)
LEMMA IdleSound == Idle \in Process /\ Idle.pc = "idle" /\ Sound(Idle)
<1>1. Idle \in Process /\ Idle.pc = "idle"
  BY DEF Idle, Process
<1> QED
  BY <1>1 DEF Sound, PolicyUse

(* How the tables may change while requests are under way: rows are added,   *)
(* an invitation that is not outstanding stays so, a request that is decided *)
(* stays so, and an account stays.                                           *)
TablesGrow ==
    /\ UNCHANGED database
    /\ DOMAIN invites \subseteq DOMAIN invites'
    /\ \A i \in DOMAIN invites :
         /\ invites'[i].kind = invites[i].kind /\ invites'[i].email = invites[i].email
         /\ invites'[i].origin = invites[i].origin /\ invites'[i].request = invites[i].request
         /\ Outstanding(i)' => Outstanding(i)
    /\ DOMAIN requests \subseteq DOMAIN requests'
    /\ \A r \in DOMAIN requests : Pending(r)' => Pending(r)
    /\ DOMAIN sessions \subseteq DOMAIN sessions'
    /\ \A e \in Emails : UserCount(e) => UserCount(e)'

(* Process p writes in its turn: nobody else is inside SQLite's transaction, *)
(* and on PostgreSQL it holds or waits for the rows it relies on.            *)
MyTurn(p) ==
    \/ UNCHANGED tables
    \/ /\ CanRun(p)
       /\ UNCHANGED policy \/ RowFree(PolicyRow, p)
       /\ \A i \in DOMAIN invites' : i \notin DOMAIN invites /\ invites'[i].origin = "request"
                                        => RowFree(RequestRow(invites'[i].request), p)

(* What the other requests rely on is not touched. *)
LEMMA OthersKept ==
    ASSUME AppInv, NEW p \in Procs, TablesGrow, MyTurn(p), NEW o \in Procs, o # p, NEW q, q = proc[o]
    PROVE  Sound(q)'
<1>1. Sound(q) /\ Held(o, q) /\ q \in Process /\ database \in {"sqlite", "postgres"}
  BY Typed DEF AppInv, ProcsInv, LocksInv, TypesInv
<1>0. CASE UNCHANGED tables
  BY <1>0, <1>1 DEF Sound, tables, TablesGrow, PolicyUse, Outstanding, Pending, Live, UserCount, IssuedFor
<1>2. CASE ~UNCHANGED tables /\ database = "sqlite"
  <2>1. q.pc \notin InTx
    BY <1>1, <1>2, AccountsAssumption DEF MyTurn, CanRun, Held
  <2>2. q.pc \in {"idle", "invite", "issue"}
    BY <1>1, <2>1 DEF Process, InTx
  <2> QED
    BY <1>1, <2>2 DEF Sound, PolicyUse
<1>3. CASE ~UNCHANGED tables /\ database = "postgres"
  <2>1. database' = "postgres"
    BY <1>3 DEF TablesGrow
  <2>2. PolicyUse(q)' => PolicyUse(q)
    BY <1>1 DEF PolicyUse, TablesGrow, Sound
  <2>3. PolicyUse(q) => policy' = policy
    <3>1. PolicyUse(q) => [row |-> PolicyRow, by |-> o] \in locks
      BY <1>1, <1>3 DEF Held
    <3>2. RowFree(PolicyRow, p) => ~([row |-> PolicyRow, by |-> o] \in locks)
      BY DEF RowFree
    <3> QED
      BY <1>3, <3>1, <3>2 DEF MyTurn
  <2>4. q.pc = "register" => policy' = "open"
    BY <1>1, <2>3 DEF Sound, PolicyUse
  <2>5. q.pc = "submit" => policy' = "approval"
    BY <1>1, <2>3 DEF Sound, PolicyUse
  <2>6. q.pc \in {"accept-policy", "accept"} => q.id \in DOMAIN invites' /\ q.email = invites'[q.id].email
    BY <1>1 DEF Sound, TablesGrow
  <2>7. PolicyUse(q)' /\ q.pc = "accept" => policy' = "invite"
    BY <1>1, <2>2, <2>3 DEF Sound
  <2>8. q.pc = "sweep" => q.seen \subseteq DOMAIN requests'
    BY <1>1 DEF Sound, TablesGrow
  <2>9. /\ q.pc \in {"approve", "reissue"} => q.id \in DOMAIN requests'
        /\ q.pc = "reissue" => ~Pending(q.id)'
    BY <1>1 DEF Sound, TablesGrow
  <2>10. ASSUME q.pc = "reissue", NEW i \in DOMAIN invites', IssuedFor(i, q.id)', Outstanding(i)'
         PROVE  i \in q.seen
    <3>2. [row |-> RequestRow(q.id), by |-> o] \in locks
      BY <1>1, <1>3, <2>10 DEF Held
    <3>3. ~RowFree(RequestRow(q.id), p)
      BY <3>2 DEF RowFree
    <3>4. i \in DOMAIN invites
      BY <1>3, <2>10, <3>3 DEF MyTurn, IssuedFor
    <3>5. IssuedFor(i, q.id) /\ Outstanding(i)
      BY <2>10, <3>4 DEF TablesGrow, IssuedFor
    <3> QED
      BY <1>1, <2>10, <3>4, <3>5 DEF Sound
  <2>11. q.pc = "rotate" => q.id \in DOMAIN sessions'
    BY <1>1 DEF Sound, TablesGrow
  <2>12. q.pc = "disable" => UserCount(q.email)'
    BY <1>1 DEF Sound, TablesGrow
  <2>13. /\ q.pc \in {"register", "submit", "invite", "issue", "disable"} => q.email \in Emails
         /\ q.pc = "invite" => q.kind \in Kinds
    BY <1>1 DEF Sound
  <2> QED
    BY <2>1, <2>4, <2>5, <2>6, <2>7, <2>8, <2>9, <2>10, <2>11, <2>12, <2>13 DEF Sound
<1> QED
  BY <1>0, <1>1, <1>2, <1>3

(* Process p takes or frees the connection and rows of its own only. *)
LockStep(p) ==
    /\ \A l \in locks' : l \in locks \/ l.by = p
    /\ \A l \in locks : l.by # p => l \in locks'
    /\ \A l, m \in locks' : l.row = m.row => l.by = m.by
    /\ conn' = conn \/ (conn \in {p, Nobody} /\ conn' \in {p, Nobody})
    /\ database = "postgres" => conn' = Nobody
    /\ database = "sqlite" => locks' = {}

(* The requests keep what they hold and what they rely on when one of them   *)
(* moves in its turn.                                                        *)
LEMMA ProcsKept ==
    ASSUME AppInv, NEW p \in Procs, NEW q \in Process, Goto(p, q), TablesGrow, MyTurn(p),
           Sound(q)', Held(p, q)', LockStep(p)
    PROVE  ProcsInv' /\ proc' \in [Procs -> Process] /\ conn' \in Procs \cup {Nobody}
<1>1. /\ proc' \in [Procs -> Process] /\ proc'[p] = q
      /\ \A o \in Procs : o # p => proc'[o] = proc[o]
  BY GotoMoves DEF AppInv
<1>2. ASSUME NEW o \in Procs PROVE Sound(proc[o])'
  <2>1. PICK r : r = proc'[o]
    OBVIOUS
  <2>2. Sound(r)'
    <3>1. CASE o = p
      BY <1>1, <2>1, <3>1
    <3>2. CASE o # p
      BY <1>1, <2>1, <3>2, OthersKept
    <3> QED
      BY <3>1, <3>2
  <2> QED
    BY <2>1, <2>2
<1>3. ASSUME NEW o \in Procs PROVE Held(o, proc[o])'
  <2>1. PICK r : r = proc'[o]
    OBVIOUS
  <2>2. Held(o, r)'
    <3>1. CASE o = p
      BY <1>1, <2>1, <3>1
    <3>2. CASE o # p
      <4>1. Held(o, r) /\ Sound(r) /\ database' = database
        BY <1>1, <2>1, <3>2 DEF AppInv, ProcsInv, LocksInv, TablesGrow
      <4>2. PolicyUse(r)' => PolicyUse(r)
        BY <4>1 DEF PolicyUse, TablesGrow, Sound
      <4>3. database = "sqlite" => locks' = {} /\ (conn' = o <=> r.pc \in InTx)
        BY <3>2, <4>1, AccountsAssumption DEF Held, LockStep
      <4>4. database = "postgres" =>
               /\ conn' = Nobody
               /\ PolicyUse(r)' => [row |-> PolicyRow, by |-> o] \in locks'
               /\ r.pc \in {"approve", "reissue"} => [row |-> RequestRow(r.id), by |-> o] \in locks'
        BY <3>2, <4>1, <4>2 DEF Held, LockStep
      <4>5. \A l \in locks' : l.by = o => r.pc \in LockPcs
        BY <3>2, <4>1 DEF Held, LockStep
      <4> QED
        BY <4>1, <4>3, <4>4, <4>5 DEF Held
    <3> QED
      BY <3>1, <3>2
  <2> QED
    BY <2>1, <2>2
<1>4. LocksInv'
  BY <1>3 DEF AppInv, ProcsInv, LocksInv, LockStep
<1> QED
  BY <1>1, <1>2, <1>4 DEF ProcsInv, LockStep, AppInv, TypesInv

(* A request ends its transaction. *)
LEMMA Leaves ==
    ASSUME AppInv, NEW p \in Procs, Leave(p), CanRun(p), UNCHANGED database
    PROVE  LockStep(p) /\ Held(p, Idle)'
<1>1. Held(p, proc[p]) /\ database \in {"sqlite", "postgres"} /\ LocksInv
  BY DEF AppInv, ProcsInv, LocksInv, TypesInv
<1>2. Idle.pc \notin InTx /\ Idle.pc = "idle"
  BY IdleSound DEF InTx
<1>3. ~PolicyUse(Idle)'
  BY <1>2 DEF PolicyUse
<1>4. LockStep(p)
  BY <1>1 DEF LockStep, Leave, Held, LocksInv, CanRun
<1>5. Held(p, Idle)'
  BY <1>1, <1>2, <1>3, AccountsAssumption DEF Held, Leave
<1> QED
  BY <1>4, <1>5

(* A request outside transactions takes and frees nothing. *)
LEMMA Stays ==
    ASSUME AppInv, NEW p \in Procs, NEW q, UNCHANGED <<conn, locks, database>>,
           q.pc \in {"idle", "invite", "issue"}, proc[p].pc \in {"idle", "invite", "issue"}
    PROVE  LockStep(p) /\ Held(p, q)'
<1>1. Held(p, proc[p]) /\ LocksInv
  BY DEF AppInv, ProcsInv, LocksInv
<1>2. LockStep(p)
  BY <1>1 DEF LockStep, Held, LocksInv
<1>3. q.pc \notin InTx /\ proc[p].pc \notin InTx /\ proc[p].pc \notin LockPcs
  BY DEF InTx, LockPcs
<1>4. ~PolicyUse(q)'
  BY DEF PolicyUse
<1> QED
  BY <1>1, <1>2, <1>3, <1>4 DEF Held

(* A request begins its transaction, with or without a row lock. *)
LEMMA Enters ==
    ASSUME AppInv, NEW p \in Procs, NEW q, NEW row, UNCHANGED database, CanRun(p), Enter(p),
           q.pc \in InTx, proc[p].pc = "idle",
           \/ LockRow(row, p) /\ q.pc \in LockPcs
           \/ UNCHANGED locks /\ ~PolicyUse(q)' /\ q.pc \notin {"approve", "reissue"},
           PolicyUse(q)' => row = PolicyRow,
           q.pc \in {"approve", "reissue"} => row = RequestRow(q.id)
    PROVE  LockStep(p) /\ Held(p, q)'
<1>1. Held(p, proc[p]) /\ LocksInv /\ database \in {"sqlite", "postgres"}
  BY DEF AppInv, ProcsInv, LocksInv, TypesInv
<1>2. \A l \in locks : l.by # p
  BY <1>1 DEF Held, LockPcs
<1>3. CASE LockRow(row, p) /\ q.pc \in LockPcs
  <2>1. PICK lock : lock = [row |-> row, by |-> p]
    OBVIOUS
  <2>2. lock.row = row /\ lock.by = p
    BY <2>1
  <2>3. CASE database = "sqlite"
    BY <1>1, <1>3, <2>3 DEF Held, LockStep, LockRow, Enter, CanRun
  <2>4. CASE database = "postgres"
    <3>1. locks' = locks \cup {lock} /\ conn' = conn /\ conn = Nobody
      BY <1>1, <1>3, <2>1, <2>4 DEF Held, LockRow, Enter
    <3>2. \A l, m \in locks' : l.row = m.row => l.by = m.by
      BY <1>1, <1>3, <2>2, <3>1 DEF LocksInv, LockRow, RowFree
    <3>3. LockStep(p)
      BY <2>2, <2>4, <3>1, <3>2 DEF LockStep
    <3>4. Held(p, q)'
      BY <1>3, <2>1, <2>4, <3>1 DEF Held
    <3> QED
      BY <3>3, <3>4
  <2> QED
    BY <1>1, <2>3, <2>4
<1>4. CASE UNCHANGED locks /\ ~PolicyUse(q)' /\ q.pc \notin {"approve", "reissue"}
  BY <1>1, <1>2, <1>4 DEF Held, LockStep, Enter, LocksInv, CanRun
<1> QED
  BY <1>3, <1>4

-----------------------------------------------------------------------------
(* Steps that write nothing *)

(* What the tables promise depends on the tables alone. *)
LEMMA TablesSame ==
    ASSUME AppInv, UNCHANGED <<database, tables>>
    PROVE  UsersInv' /\ InvitesInv' /\ UsedInv' /\ SessionsInv' /\ TablesGrow
<1>1. UsersInv'
  BY DEF AppInv, tables, UsersInv, UserCount, AdmittedByPolicy, UsersAudited
<1>2. InvitesInv'
  BY DEF AppInv, tables, InvitesInv, IssuedFor, Outstanding, Pending
<1>3. UsedInv'
  BY DEF AppInv, tables, UsedInv
<1>4. SessionsInv'
  BY DEF AppInv, tables, SessionsInv, SessionsEnd, OneLiveSession, DisabledStaysOut, Authenticate, Live
<1>5. TablesGrow
  BY DEF tables, TablesGrow, Outstanding, Pending, UserCount
<1> QED
  BY <1>1, <1>2, <1>3, <1>4, <1>5

(* A request moves and reads. *)
LEMMA MoveStep ==
    ASSUME AppInv, NEW p \in Procs, NEW q \in Process, Goto(p, q), UNCHANGED <<database, tables>>,
           Sound(q), LockStep(p), Held(p, q)'
    PROVE  AppInv'
<1>1. UsersInv' /\ InvitesInv' /\ UsedInv' /\ SessionsInv' /\ TablesGrow
  BY TablesSame
<1>2. Sound(q)'
  BY DEF Sound, tables, PolicyUse, Outstanding, Pending, Live, UserCount, IssuedFor
<1>3. ProcsInv' /\ proc' \in [Procs -> Process] /\ conn' \in Procs \cup {Nobody}
  BY <1>1, <1>2, ProcsKept DEF MyTurn
<1>4. TypesInv'
  BY <1>3 DEF AppInv, TypesInv, tables
<1> QED
  BY <1>1, <1>3, <1>4 DEF AppInv

(* A read at the beginning of a request, outside a transaction. *)
LEMMA InviteCheckKeeps ==
    ASSUME AppInv, NEW p \in Procs, NEW kind \in Kinds, NEW e \in Emails, InviteCheck(p, kind, e)
    PROVE  AppInv'
<1>1. PICK q : q = [Idle EXCEPT !.pc = "invite", !.email = e, !.kind = kind]
  OBVIOUS
<1>2. q \in Process /\ q.pc = "invite" /\ q.email = e /\ q.kind = kind
  BY <1>1 DEF Idle, Process
<1>3. Goto(p, q) /\ proc[p].pc = "idle" /\ UNCHANGED <<database, tables, conn, locks>>
  BY <1>1 DEF InviteCheck, Begin, At
<1>4. Sound(q)
  BY <1>2 DEF Sound, PolicyUse
<1> QED
  BY <1>2, <1>3, <1>4, Stays, MoveStep

(* A login reads the user. *)
LEMMA LoginReadKeeps ==
    ASSUME AppInv, NEW p \in Procs, NEW e \in Emails, LoginRead(p, e)
    PROVE  AppInv'
<1>1. PICK q : q = [Idle EXCEPT !.pc = "issue", !.email = e]
  OBVIOUS
<1>2. q \in Process /\ q.pc = "issue" /\ q.email = e
  BY <1>1 DEF Idle, Process
<1>3. Goto(p, q) /\ proc[p].pc = "idle" /\ UNCHANGED <<database, tables, conn, locks>>
  BY <1>1 DEF LoginRead, Begin, At
<1>4. Sound(q)
  BY <1>2 DEF Sound, PolicyUse
<1> QED
  BY <1>2, <1>3, <1>4, Stays, MoveStep

(* A registration or an access request reads the policy under its lock. *)
LEMMA PolicyLockKeeps ==
    ASSUME AppInv, NEW p \in Procs, NEW e \in Emails, RegisterLock(p, e) \/ SubmitLock(p, e)
    PROVE  AppInv'
<1>0. PICK pc \in {"register", "submit"} :
          /\ Goto(p, [Idle EXCEPT !.pc = pc, !.email = e])
          /\ pc = "register" => policy = "open"
          /\ pc = "submit" => policy = "approval"
  BY DEF RegisterLock, SubmitLock
<1>1. PICK q : /\ q = [Idle EXCEPT !.pc = pc, !.email = e] /\ Goto(p, q)
               /\ pc = "register" => policy = "open"
               /\ pc = "submit" => policy = "approval"
  BY <1>0
<1>2. q \in Process /\ q.pc = pc /\ q.email = e
  BY <1>1 DEF Idle, Process
<1>3. /\ proc[p].pc = "idle" /\ CanRun(p) /\ UNCHANGED <<database, tables>>
      /\ LockRow(PolicyRow, p) /\ Enter(p)
  BY DEF RegisterLock, SubmitLock, Begin, At
<1>4. Sound(q)
  BY <1>1, <1>2 DEF Sound, PolicyUse
<1>5. q.pc \in InTx /\ q.pc \in LockPcs /\ q.pc \notin {"approve", "reissue"}
  BY <1>1, <1>2 DEF InTx, LockPcs
<1>6. LockStep(p) /\ Held(p, q)'
  BY <1>3, <1>5, Enters
<1> QED
  BY <1>1, <1>2, <1>3, <1>4, <1>6, MoveStep

(* An acceptance reads the invitation without a lock. *)
LEMMA AcceptReadKeeps ==
    ASSUME AppInv, NEW p \in Procs, NEW i \in DOMAIN invites, AcceptRead(p, i)
    PROVE  AppInv'
<1>1. PICK pc : pc = IF invites[i].kind = "self_register" THEN "accept-policy" ELSE "accept"
  OBVIOUS
<1>2. PICK q : q = [Idle EXCEPT !.pc = pc, !.id = i, !.email = invites[i].email]
  OBVIOUS
<1>3. i \in Nat /\ invites[i].email \in Emails
  BY Typed DEF AppInv
<1>4. q \in Process /\ q.pc = pc /\ q.id = i /\ q.email = invites[i].email
  BY <1>1, <1>2, <1>3 DEF Idle, Process
<1>5. /\ Goto(p, q) /\ proc[p].pc = "idle" /\ CanRun(p) /\ UNCHANGED <<database, tables, locks>>
      /\ Enter(p) /\ Outstanding(i)
  BY <1>1, <1>2 DEF AcceptRead, Begin, At, Redeemable
<1>6. ~PolicyUse(q) /\ ~PolicyUse(q)'
  BY <1>1, <1>4, <1>5 DEF PolicyUse, tables
<1>7. Sound(q)
  BY <1>1, <1>4, <1>5, <1>6 DEF Sound
<1>8. q.pc \in InTx /\ q.pc \notin {"approve", "reissue"}
  BY <1>1, <1>4 DEF InTx
<1>9. LockStep(p) /\ Held(p, q)'
  BY <1>5, <1>6, <1>8, Enters
<1> QED
  BY <1>4, <1>5, <1>7, <1>9, MoveStep

(* A refresh reads the session. *)
LEMMA RefreshReadKeeps ==
    ASSUME AppInv, NEW p \in Procs, NEW s \in DOMAIN sessions, RefreshRead(p, s)
    PROVE  AppInv'
<1>1. PICK q : q = [Idle EXCEPT !.pc = "rotate", !.id = s]
  OBVIOUS
<1>2. s \in Nat
  BY Typed DEF AppInv
<1>3. q \in Process /\ q.pc = "rotate" /\ q.id = s
  BY <1>1, <1>2 DEF Idle, Process
<1>4. /\ Goto(p, q) /\ proc[p].pc = "idle" /\ CanRun(p) /\ UNCHANGED <<database, tables, locks>>
      /\ Enter(p) /\ users[sessions[s].user].state = "active"
  BY <1>1 DEF RefreshRead, Begin, At, Refreshable
<1>5. Sound(q)
  BY <1>3, <1>4 DEF Sound, PolicyUse
<1>6. q.pc \in InTx /\ ~PolicyUse(q)' /\ q.pc \notin {"approve", "reissue"}
  BY <1>3 DEF InTx, PolicyUse
<1>7. LockStep(p) /\ Held(p, q)'
  BY <1>4, <1>6, Enters
<1> QED
  BY <1>3, <1>4, <1>5, <1>7, MoveStep

(* A disable finds the user's sessions. *)
LEMMA DisableScanKeeps ==
    ASSUME AppInv, NEW p \in Procs, NEW e \in Emails, DisableScan(p, e)
    PROVE  AppInv'
<1>1. PICK seen : seen = {s \in DOMAIN sessions : sessions[s].user = e /\ Live(s)}
  OBVIOUS
<1>2. PICK q : q = [Idle EXCEPT !.pc = "disable", !.email = e, !.seen = seen]
  OBVIOUS
<1>3. seen \in SUBSET Nat
  BY <1>1, Typed DEF AppInv
<1>4. q \in Process /\ q.pc = "disable" /\ q.email = e /\ q.seen = seen
  BY <1>2, <1>3 DEF Idle, Process
<1>5. /\ Goto(p, q) /\ proc[p].pc = "idle" /\ CanRun(p) /\ UNCHANGED <<database, tables, locks>>
      /\ Enter(p) /\ UserCount(e)
  BY <1>1, <1>2 DEF DisableScan, Begin, At
<1>6. Sound(q)
  BY <1>1, <1>4, <1>5 DEF Sound, PolicyUse
<1>7. q.pc \in InTx /\ ~PolicyUse(q)' /\ q.pc \notin {"approve", "reissue"}
  BY <1>4 DEF InTx, PolicyUse
<1>8. LockStep(p) /\ Held(p, q)'
  BY <1>5, <1>7, Enters
<1> QED
  BY <1>4, <1>5, <1>6, <1>8, MoveStep

(* A list chooses the rows it will sweep: pending ones. *)
LEMMA ListScanKeeps ==
    ASSUME AppInv, NEW p \in Procs, ListScan(p)
    PROVE  AppInv'
<1>1. PICK q : q = [Idle EXCEPT !.pc = "sweep", !.seen = Overdue]
  OBVIOUS
<1>2. Overdue \subseteq DOMAIN requests /\ \A r \in Overdue : Pending(r)
  BY DEF Overdue, Batch
<1>3. Overdue \in SUBSET Nat
  BY <1>2, Typed DEF AppInv
<1>4. q \in Process /\ q.pc = "sweep" /\ q.seen = Overdue
  BY <1>1, <1>3 DEF Idle, Process
<1>5. /\ Goto(p, q) /\ proc[p].pc = "idle" /\ CanRun(p) /\ UNCHANGED <<database, tables, locks>> /\ Enter(p)
  BY <1>1 DEF ListScan, Begin, At
<1>6. Sound(q)
  BY <1>2, <1>4 DEF Sound, PolicyUse
<1>7. q.pc \in InTx /\ ~PolicyUse(q)' /\ q.pc \notin {"approve", "reissue"}
  BY <1>4 DEF InTx, PolicyUse
<1>8. LockStep(p) /\ Held(p, q)'
  BY <1>5, <1>7, Enters
<1> QED
  BY <1>4, <1>5, <1>6, <1>8, MoveStep

(* An approval or a reissue reads the access request under its row lock; the *)
(* reissue finds every outstanding invitation of the request.                *)
LEMMA RequestLockKeeps ==
    ASSUME AppInv, NEW p \in Procs, NEW r \in DOMAIN requests, ApproveLock(p, r) \/ ReissueLock(p, r)
    PROVE  AppInv'
<1>1. r \in Nat
  BY Typed DEF AppInv
<1>2. PICK q \in Process :
          /\ q.pc \in {"approve", "reissue"} /\ q.id = r /\ Goto(p, q)
          /\ q.pc = "reissue" => /\ ~Pending(r)
                                 /\ \A i \in DOMAIN invites : IssuedFor(i, r) /\ Outstanding(i) => i \in q.seen
  <2>1. CASE ApproveLock(p, r)
    <3>1. PICK q : q = [Idle EXCEPT !.pc = "approve", !.id = r]
      OBVIOUS
    <3>2. q \in Process /\ q.pc = "approve" /\ q.id = r
      BY <1>1, <3>1 DEF Idle, Process
    <3> QED
      BY <2>1, <3>1, <3>2 DEF ApproveLock
  <2>2. CASE ReissueLock(p, r)
    <3>1. PICK seen : seen = {i \in DOMAIN invites : /\ Outstanding(i) /\ invites[i].kind = "activate"
                                                     /\ invites[i].email = requests[r].email}
      OBVIOUS
    <3>2. seen \in SUBSET Nat
      BY <3>1, Typed DEF AppInv
    <3>3. ~Pending(r)
      BY <2>2 DEF ReissueLock, Pending
    <3>4. \A i \in DOMAIN invites : IssuedFor(i, r) /\ Outstanding(i) => i \in seen
      BY <3>1 DEF AppInv, InvitesInv, IssuedFor
    <3>5. PICK q : q = [Idle EXCEPT !.pc = "reissue", !.id = r, !.seen = seen]
      OBVIOUS
    <3>6. q \in Process /\ q.pc = "reissue" /\ q.id = r /\ q.seen = seen
      BY <1>1, <3>2, <3>5 DEF Idle, Process
    <3>7. Goto(p, q)
      BY <2>2, <3>1, <3>5 DEF ReissueLock
    <3> QED
      BY <3>3, <3>4, <3>6, <3>7
  <2> QED
    BY <2>1, <2>2
<1>4. /\ proc[p].pc = "idle" /\ CanRun(p) /\ UNCHANGED <<database, tables>>
      /\ LockRow(RequestRow(r), p) /\ Enter(p)
  BY DEF ApproveLock, ReissueLock, Begin, At
<1>5. Sound(q)
  BY <1>2 DEF Sound, PolicyUse
<1>6. q.pc \in InTx /\ q.pc \in LockPcs /\ ~PolicyUse(q)'
  BY <1>2 DEF InTx, LockPcs, PolicyUse
<1>7. LockStep(p) /\ Held(p, q)'
  BY <1>2, <1>4, <1>6, Enters
<1> QED
  BY <1>2, <1>4, <1>5, <1>7, MoveStep

(* An acceptance that needs the policy reads it under its lock. *)
LEMMA AcceptPolicyKeeps ==
    ASSUME AppInv, NEW p \in Procs, AcceptPolicy(p)
    PROVE  AppInv'
<1>1. /\ proc[p].pc = "accept-policy" /\ CanRun(p) /\ UNCHANGED <<database, tables>>
      /\ proc[p] \in Process /\ Sound(proc[p]) /\ Held(p, proc[p])
  BY Typed DEF AcceptPolicy, Continue, At, AppInv, ProcsInv, LocksInv
<1>2. CASE Done(p)
  BY <1>1, <1>2, IdleSound, Leaves, MoveStep DEF Done
<1>3. CASE /\ policy = "invite" /\ LockRow(PolicyRow, p) /\ UNCHANGED conn
           /\ Goto(p, [proc[p] EXCEPT !.pc = "accept"])
  <2>1. PICK q : q = [proc[p] EXCEPT !.pc = "accept"]
    OBVIOUS
  <2>2. q \in Process /\ q.pc = "accept" /\ q.id = proc[p].id /\ q.email = proc[p].email
    BY <1>1, <2>1 DEF Process
  <2>3. Sound(q)
    BY <1>1, <1>3, <2>2 DEF Sound
  <2>4. database \in {"sqlite", "postgres"} /\ LocksInv
    BY DEF AppInv, TypesInv, ProcsInv
  <2>5. "accept-policy" \in InTx /\ "accept-policy" \notin LockPcs /\ "accept" \in InTx /\ "accept" \in LockPcs
    BY DEF InTx, LockPcs
  <2>6. ASSUME database = "sqlite" PROVE LockStep(p) /\ Held(p, q)'
    BY <1>1, <1>3, <2>2, <2>4, <2>5, <2>6 DEF LockStep, Held, LockRow
  <2>7. CASE database = "postgres"
    <3>1. PICK lock : lock = [row |-> PolicyRow, by |-> p]
      OBVIOUS
    <3>2. lock.row = PolicyRow /\ lock.by = p
      BY <3>1
    <3>3. locks' = locks \cup {lock} /\ conn' = conn /\ conn = Nobody
      BY <1>1, <1>3, <2>7, <3>1 DEF Held, LockRow
    <3>4. \A l, m \in locks' : l.row = m.row => l.by = m.by
      BY <1>3, <2>4, <3>2, <3>3 DEF LocksInv, LockRow, RowFree
    <3>5. LockStep(p)
      BY <2>7, <3>2, <3>3, <3>4 DEF LockStep
    <3>6. Held(p, q)'
      BY <1>1, <2>2, <2>5, <2>7, <3>1, <3>3 DEF Held
    <3> QED
      BY <1>1, <1>3, <2>1, <2>2, <2>3, <3>5, <3>6, MoveStep
  <2> QED
    BY <1>1, <1>3, <2>1, <2>2, <2>3, <2>4, <2>6, <2>7, MoveStep
<1> QED
  BY <1>2, <1>3 DEF AcceptPolicy

(* A request that is given up rolls back. *)
LEMMA AbortKeeps ==
    ASSUME AppInv, NEW p \in Procs, Abort(p)
    PROVE  AppInv'
<1>1. Goto(p, Idle) /\ UNCHANGED <<database, tables>> /\ Idle \in Process /\ Idle.pc = "idle" /\ Sound(Idle)
  BY IdleSound DEF Abort
<1>2. Held(p, proc[p]) /\ database \in {"sqlite", "postgres"} /\ LocksInv
  BY DEF AppInv, ProcsInv, LocksInv, TypesInv
<1>3. CASE Leave(p) /\ (conn = p \/ \E l \in locks : l.by = p)
  <2>1. CanRun(p)
    BY <1>2, <1>3 DEF CanRun, Held
  <2> QED
    BY <1>1, <1>3, <2>1, Leaves, MoveStep
<1>4. CASE UNCHANGED <<conn, locks>> /\ conn # p /\ \A l \in locks : l.by # p
  <2>1. LockStep(p)
    BY <1>2, <1>4 DEF LockStep, LocksInv, Held
  <2>2. Idle.pc \notin InTx /\ ~PolicyUse(Idle)'
    BY <1>1 DEF InTx, PolicyUse
  <2>3. Held(p, Idle)'
    BY <1>1, <1>2, <1>4, <2>2 DEF Held
  <2> QED
    BY <1>1, <2>1, <2>3, MoveStep
<1> QED
  BY <1>3, <1>4 DEF Abort

(* Reads change nothing. *)
LEMMA CapabilityKeeps ==
    ASSUME AppInv, UNCHANGED <<database, tables, proc, conn, locks>>
    PROVE  AppInv'
<1>1. TypesInv'
  BY DEF AppInv, TypesInv, tables
<1>2. LocksInv'
  BY DEF AppInv, ProcsInv, LocksInv, tables, Held, PolicyUse
<1>3. \A o \in Procs : Sound(proc[o])'
  BY DEF AppInv, ProcsInv, Sound, tables, PolicyUse, Outstanding, Pending, Live, UserCount, IssuedFor
<1> QED
  BY <1>1, <1>2, <1>3, TablesSame DEF AppInv, ProcsInv

-----------------------------------------------------------------------------
(* Steps that write *)

(* The requests after one of them has committed. *)
LEMMA DoneStep ==
    ASSUME AppInv, NEW p \in Procs, Done(p), CanRun(p), TablesGrow, MyTurn(p)
    PROVE  ProcsInv' /\ proc' \in [Procs -> Process] /\ conn' \in Procs \cup {Nobody}
<1>1. Goto(p, Idle) /\ Leave(p) /\ UNCHANGED database
  BY DEF Done, TablesGrow
<1>2. Sound(Idle)'
  BY IdleSound DEF Sound, PolicyUse
<1> QED
  BY <1>1, <1>2, IdleSound, Leaves, ProcsKept

(* The requests after one outside transactions has written. *)
LEMMA OutsideStep ==
    ASSUME AppInv, NEW p \in Procs, Goto(p, Idle) \/ (UNCHANGED proc /\ proc[p].pc = "idle"),
           UNCHANGED <<conn, locks>>,
           TablesGrow, MyTurn(p), proc[p].pc \in {"idle", "invite", "issue"}
    PROVE  ProcsInv' /\ proc' \in [Procs -> Process] /\ conn' \in Procs \cup {Nobody}
<1>1. PICK q \in Process : q.pc = "idle" /\ Goto(p, q)
  <2>1. CASE Goto(p, Idle)
    BY <2>1, IdleSound
  <2>2. CASE UNCHANGED proc /\ proc[p].pc = "idle"
    <3>1. proc[p] \in Process /\ proc' = [proc EXCEPT ![p] = proc[p]]
      BY <2>2 DEF AppInv, TypesInv
    <3> QED
      BY <2>2, <3>1 DEF Goto
  <2> QED
    BY <2>1, <2>2
<1>2. Sound(q)'
  BY <1>1 DEF Sound, PolicyUse
<1>3. UNCHANGED database
  BY DEF TablesGrow
<1> QED
  BY <1>1, <1>2, <1>3, Stays, ProcsKept


(* The tables that a step does not write. *)
LEMMA UsersSame ==
    ASSUME AppInv, UNCHANGED <<users, facts>>, \A r \in DOMAIN requests' : requests'[r].under = "approval"
    PROVE  UsersInv' /\ \A e \in Emails : UserCount(e) => UserCount(e)'
BY DEF AppInv, UsersInv, UserCount, AdmittedByPolicy, UsersAudited

(* Of the access requests, the invitations rely on what is decided. *)
LEMMA InvitesSame ==
    ASSUME AppInv, UNCHANGED invites, DOMAIN requests \subseteq DOMAIN requests',
           \A r \in DOMAIN requests : (Pending(r)' => Pending(r)) /\ requests'[r].email = requests[r].email
    PROVE  InvitesInv'
BY DEF AppInv, InvitesInv, IssuedFor, Outstanding

(* Sessions rely on the users. *)
LEMMA SessionsSame ==
    ASSUME AppInv, UNCHANGED <<database, sessions, users>>
    PROVE  SessionsInv'
BY DEF AppInv, SessionsInv, SessionsEnd, OneLiveSession, DisabledStaysOut, Authenticate, Live

(* An account is made: by a registration under the open policy, by the       *)
(* invitation of its own policy, or by an activation.                        *)
LEMMA UserCreated ==
    ASSUME AppInv, NEW e \in Emails, NEW path \in {"register"} \cup Kinds, ~UserCount(e), CreateUser(e, path),
           path = "register" => policy = "open", path = "self_register" => policy = "invite",
           UNCHANGED requests
    PROVE  /\ users' \in [Emails -> User] /\ facts' \in [Emails -> Nat] /\ UsersInv'
           /\ users'[e].via = path /\ users'[e].state = "active"
           /\ \A f \in Emails : f # e => users'[f] = users[f]
           /\ \A f \in Emails : UserCount(f) => UserCount(f)'
<1>1. PICK row : row = [state |-> "active", via |-> path, under |-> policy]
  OBVIOUS
<1>2. row \in User /\ row.state = "active" /\ row.via = path /\ row.under = policy
  BY <1>1 DEF User, AppInv, TypesInv
<1>3. users \in [Emails -> User] /\ facts \in [Emails -> Nat] /\ facts[e] = 0
  BY DEF AppInv, TypesInv, UsersInv, UsersAudited
<1>4. /\ users' \in [Emails -> User] /\ users'[e] = row
      /\ \A f \in Emails : f # e => users'[f] = users[f]
  BY <1>1, <1>2, <1>3 DEF CreateUser
<1>5. /\ facts' \in [Emails -> Nat] /\ facts'[e] = 1
      /\ \A f \in Emails : f # e => facts'[f] = facts[f]
  BY <1>3 DEF CreateUser
<1>6. path # "none" /\ path # "earlier"
  BY DEF Kinds
<1>7. \A f \in Emails : /\ UserCount(f)' <=> (f = e \/ UserCount(f))
                        /\ UserCount(f)' <=> users'[f].via # "none"
  BY <1>2, <1>4, <1>6 DEF UserCount, AppInv, UsersInv
<1>8. UsersAudited'
  BY <1>2, <1>4, <1>5, <1>6, <1>7 DEF AppInv, UsersInv, UsersAudited
<1>9. AdmittedByPolicy'
  BY <1>2, <1>4 DEF AppInv, UsersInv, AdmittedByPolicy
<1> QED
  BY <1>2, <1>4, <1>5, <1>7, <1>8, <1>9 DEF UsersInv

(* A registration commits. *)
LEMMA RegisterKeeps ==
    ASSUME AppInv, NEW p \in Procs, Register(p)
    PROVE  AppInv'
<1>1. /\ CanRun(p) /\ Done(p) /\ UNCHANGED <<database, policy, invites, requests, sessions>>
      /\ proc[p].pc = "register" /\ Sound(proc[p])
  BY DEF Register, Continue, At, AppInv, ProcsInv
<1>2. PICK e \in Emails : e = proc[p].email /\ policy = "open"
  BY <1>1 DEF Sound
<1>3. CASE UserCount(e) /\ UNCHANGED <<users, facts>>
  <2>1. UNCHANGED <<database, tables>>
    BY <1>1, <1>3 DEF tables
  <2> QED
    BY <1>1, <2>1, IdleSound, Leaves, MoveStep DEF Done
<1>4. CASE ~UserCount(e) /\ CreateUser(e, "register")
  <2>1. /\ users' \in [Emails -> User] /\ facts' \in [Emails -> Nat] /\ UsersInv'
        /\ users'[e].via = "register" /\ users'[e].state = "active"
        /\ \A f \in Emails : f # e => users'[f] = users[f]
        /\ \A f \in Emails : UserCount(f) => UserCount(f)'
    BY <1>1, <1>2, <1>4, UserCreated
  <2>2. TablesGrow /\ MyTurn(p)
    BY <1>1, <2>1 DEF TablesGrow, MyTurn, Outstanding, Pending
  <2>3. ProcsInv' /\ TypesInv'
    BY <1>1, <2>1, <2>2, DoneStep DEF AppInv, TypesInv
  <2>4. InvitesInv'
    BY <1>1, InvitesSame DEF Pending
  <2>5. UsedInv'
    <3>1. \A f \in Emails : users'[f].via \in Kinds <=> users[f].via \in Kinds
      BY <1>4, <2>1 DEF AppInv, UsersInv, Kinds
    <3> QED
      BY <1>1, <3>1 DEF AppInv, UsedInv
  <2>6. SessionsInv'
    BY <1>1, <2>1, Typed DEF AppInv, SessionsInv, SessionsEnd, OneLiveSession, DisabledStaysOut, Authenticate, Live
  <2> QED
    BY <2>1, <2>3, <2>4, <2>5, <2>6 DEF AppInv
<1> QED
  BY <1>2, <1>3, <1>4 DEF Register

(* The table of invitations with some of them used, revoked or expired. *)
EditOf(v) ==
    /\ v \in Seq(InviteRow) /\ DOMAIN v = DOMAIN invites
    /\ \A j \in DOMAIN invites :
         /\ v[j].kind = invites[j].kind /\ v[j].email = invites[j].email
         /\ v[j].origin = invites[j].origin /\ v[j].request = invites[j].request
         /\ v[j].used = Nobody /\ ~v[j].revoked => Outstanding(j)

(* The access requests keep their addresses and what is decided. *)
RequestsGrow ==
    /\ DOMAIN requests \subseteq DOMAIN requests'
    /\ \A r \in DOMAIN requests : (Pending(r)' => Pending(r)) /\ requests'[r].email = requests[r].email

(* What a changed table of invitations still promises. *)
LEMMA InvitesEdited ==
    ASSUME AppInv, NEW v, EditOf(v), invites' = v, RequestsGrow
    PROVE  InvitesInv'
<1>1. \A j \in DOMAIN invites' : j \in DOMAIN invites /\ (Outstanding(j)' => Outstanding(j))
  BY DEF EditOf, Outstanding
<1> QED
  BY <1>1 DEF AppInv, InvitesInv, EditOf, RequestsGrow, IssuedFor

(* The new invitation of an access request follows its approval, and no      *)
(* other of the request is outstanding.                                      *)
NewInvitation(v, row) ==
    row.origin = "request" =>
        /\ row.request \in DOMAIN requests /\ ~Pending(row.request)'
        /\ row.kind = "activate" /\ row.email = requests[row.request].email
        /\ \A j \in DOMAIN invites :
              invites[j].origin = "request" /\ invites[j].request = row.request => v[j].used # Nobody \/ v[j].revoked

(* An invitation is added. *)
LEMMA InvitesAppended ==
    ASSUME AppInv, NEW v, EditOf(v), NEW row \in InviteRow, invites' = Append(v, row), RequestsGrow,
           NewInvitation(v, row)
    PROVE  /\ invites' \in Seq(InviteRow) /\ DOMAIN invites \subseteq DOMAIN invites' /\ InvitesInv'
           /\ \A j \in DOMAIN invites : invites'[j] = v[j]
           /\ \A j \in DOMAIN invites' : j \notin DOMAIN invites => invites'[j] = row
<1>1. PICK n \in Nat : DOMAIN invites = 1 .. n /\ DOMAIN v = 1 .. n /\ Len(v) = n /\ v \in Seq(InviteRow)
  BY DEF EditOf, AppInv, TypesInv
<1>2. /\ invites' \in Seq(InviteRow) /\ DOMAIN invites' = 1 .. n + 1 /\ invites'[n + 1] = row
      /\ \A j \in DOMAIN invites : invites'[j] = v[j]
  BY <1>1
<1>3. /\ DOMAIN invites \subseteq DOMAIN invites'
      /\ \A j \in DOMAIN invites' : j \in DOMAIN invites \/ j = n + 1
      /\ n + 1 \notin DOMAIN invites
  BY <1>1, <1>2
<1>4. \A j \in DOMAIN invites :
         /\ Outstanding(j)' => Outstanding(j)
         /\ invites'[j].origin = invites[j].origin /\ invites'[j].request = invites[j].request
         /\ invites'[j].kind = invites[j].kind /\ invites'[j].email = invites[j].email
  BY <1>2 DEF EditOf, Outstanding
<1>5. ASSUME NEW j \in DOMAIN invites', invites'[j].origin = "request"
      PROVE  /\ invites'[j].request \in DOMAIN requests' /\ requests'[invites'[j].request].status # "pending"
             /\ invites'[j].kind = "activate" /\ invites'[j].email = requests'[invites'[j].request].email
  <2>1. CASE j \in DOMAIN invites
    BY <1>4, <1>5, <2>1 DEF AppInv, InvitesInv, RequestsGrow, Pending
  <2>2. CASE j = n + 1
    BY <1>2, <1>5, <2>2 DEF NewInvitation, RequestsGrow, Pending
  <2> QED
    BY <1>3, <2>1, <2>2
<1>6. ASSUME NEW i \in DOMAIN invites', NEW j \in DOMAIN invites', invites'[i].origin = "request",
             invites'[j].origin = "request", invites'[j].request = invites'[i].request,
             Outstanding(i)', Outstanding(j)'
      PROVE  i = j
  <2>1. CASE i \in DOMAIN invites /\ j \in DOMAIN invites
    BY <1>4, <1>6, <2>1 DEF AppInv, InvitesInv, IssuedFor
  <2>2. ASSUME NEW k \in DOMAIN invites, invites'[k].origin = "request", Outstanding(k)',
               row.origin = "request", invites'[k].request = row.request
        PROVE  FALSE
    BY <1>2, <1>4, <2>2 DEF NewInvitation, Outstanding
  <2> QED
    BY <1>2, <1>3, <1>6, <2>1, <2>2
<1>7. InvitesInv'
  BY <1>5, <1>6 DEF InvitesInv, IssuedFor, Pending
<1> QED
  BY <1>2, <1>3, <1>7

(* The invitations after an acceptance. *)
LEMMA AcceptedIs ==
    ASSUME AppInv, NEW i \in DOMAIN invites, NEW e \in Emails
    PROVE  LET v == Accepted(i, e)
           IN  /\ EditOf(v)
               /\ \A j \in DOMAIN invites : v[j].used = IF j = i /\ Outstanding(j) THEN e ELSE invites[j].used
<1>1. PICK v : v = Accepted(i, e)
  OBVIOUS
<1>2. PICK n \in Nat : DOMAIN invites = 1 .. n
  BY DEF AppInv, TypesInv
<1>3. ASSUME NEW j \in DOMAIN invites
      PROVE  /\ v[j] \in InviteRow
             /\ v[j].kind = invites[j].kind /\ v[j].email = invites[j].email
             /\ v[j].origin = invites[j].origin /\ v[j].request = invites[j].request
             /\ v[j].used = Nobody /\ ~v[j].revoked => Outstanding(j)
             /\ v[j].used = IF j = i /\ Outstanding(j) THEN e ELSE invites[j].used
  <2>1. invites[j] \in InviteRow
    BY Typed DEF AppInv
  <2>2. PICK a, b : a = [invites[j] EXCEPT !.used = e] /\ b = [invites[j] EXCEPT !.revoked = TRUE]
    OBVIOUS
  <2>3. /\ a \in InviteRow /\ a.kind = invites[j].kind /\ a.email = invites[j].email
        /\ a.origin = invites[j].origin /\ a.request = invites[j].request /\ a.used = e
    BY <2>1, <2>2 DEF InviteRow
  <2>4. /\ b \in InviteRow /\ b.kind = invites[j].kind /\ b.email = invites[j].email
        /\ b.origin = invites[j].origin /\ b.request = invites[j].request /\ b.used = invites[j].used /\ b.revoked
    BY <2>1, <2>2 DEF InviteRow
  <2>5. v[j] = CASE j = i /\ Outstanding(j) -> a
                 [] j # i /\ Outstanding(j) /\ invites[j].kind = "activate" /\ invites[j].email = e -> b
                 [] OTHER -> invites[j]
    BY <1>1, <2>2 DEF Accepted
  <2>6. CASE j = i /\ Outstanding(j)
    BY <2>3, <2>5, <2>6, AccountsAssumption
  <2>7. CASE j # i /\ Outstanding(j) /\ invites[j].kind = "activate" /\ invites[j].email = e
    BY <2>4, <2>5, <2>7
  <2>8. CASE ~(j = i /\ Outstanding(j)) /\ ~(j # i /\ Outstanding(j) /\ invites[j].kind = "activate" /\ invites[j].email = e)
    <3>1. v[j] = invites[j]
      BY <2>5, <2>8
    <3> QED
      BY <2>1, <2>8, <3>1 DEF Outstanding
  <2> QED
    BY <2>6, <2>7, <2>8
<1>4. v \in Seq(InviteRow) /\ DOMAIN v = DOMAIN invites
  <2>1. DOMAIN v = 1 .. n /\ v = [j \in 1 .. n |-> v[j]]
    BY <1>1, <1>2 DEF Accepted
  <2>2. v \in [1 .. n -> InviteRow]
    BY <1>2, <1>3, <2>1
  <2> QED
    BY <1>2, <2>1, <2>2
<1> QED
  BY <1>1, <1>3, <1>4 DEF EditOf

(* An acceptance commits. *)
LEMMA AcceptKeeps ==
    ASSUME AppInv, NEW p \in Procs, Accept(p)
    PROVE  AppInv'
<1>1. /\ CanRun(p) /\ Done(p) /\ UNCHANGED <<database, policy, requests, sessions>>
      /\ proc[p].pc = "accept" /\ Sound(proc[p])
  BY DEF Accept, Continue, At, AppInv, ProcsInv
<1>2. PICK i \in DOMAIN invites, e \in Emails :
          /\ i = proc[p].id /\ e = proc[p].email
          /\ database = "sqlite" => Outstanding(i)
          /\ invites[i].kind = "self_register" => policy = "invite"
  BY <1>1, Typed DEF Sound, PolicyUse, AppInv
<1>3. CASE UserCount(e) /\ UNCHANGED <<users, facts, invites>>
  <2>1. UNCHANGED <<database, tables>>
    BY <1>1, <1>3 DEF tables
  <2> QED
    BY <1>1, <2>1, IdleSound, Leaves, MoveStep DEF Done
<1>4. CASE ~UserCount(e) /\ CreateUser(e, invites[i].kind) /\ invites' = Accepted(i, e)
  <2>0. PICK kind \in Kinds : kind = invites[i].kind
    BY Typed DEF AppInv
  <2>1. /\ users' \in [Emails -> User] /\ facts' \in [Emails -> Nat] /\ UsersInv'
        /\ users'[e].via = kind /\ users'[e].state = "active"
        /\ \A f \in Emails : f # e => users'[f] = users[f]
        /\ \A f \in Emails : UserCount(f) => UserCount(f)'
    BY <1>1, <1>2, <1>4, <2>0, UserCreated DEF Kinds
  <2>2. /\ EditOf(invites')
        /\ \A j \in DOMAIN invites :
             invites'[j].used = IF j = i /\ Outstanding(j) THEN e ELSE invites[j].used
    BY <1>4, AcceptedIs
  <2>3. TablesGrow /\ MyTurn(p) /\ RequestsGrow
    BY <1>1, <2>1, <2>2 DEF TablesGrow, MyTurn, Outstanding, Pending, EditOf, RequestsGrow
  <2>4. ProcsInv' /\ TypesInv'
    BY <1>1, <2>1, <2>2, <2>3, DoneStep DEF AppInv, TypesInv, EditOf
  <2>5. InvitesInv'
    BY <2>2, <2>3, InvitesEdited
  <2>6. UsedInv'
    <3> SUFFICES ASSUME database = "sqlite"
                 PROVE  /\ \A j \in DOMAIN invites' : invites'[j].used \in Emails => users'[invites'[j].used].via \in Kinds
                        /\ \A f \in Emails : users'[f].via \in Kinds => \E j \in DOMAIN invites' : invites'[j].used = f
                        /\ \A j, k \in DOMAIN invites' :
                             invites'[j].used \in Emails /\ invites'[j].used = invites'[k].used => j = k
      BY <1>1 DEF UsedInv
    <3>1. users[e].via \notin Kinds
      BY <1>4 DEF AppInv, UsersInv, Kinds
    <3>2. \A j \in DOMAIN invites : invites[j].used # e
      BY <3>1 DEF AppInv, UsedInv
    <3>3. Outstanding(i) /\ DOMAIN invites' = DOMAIN invites
      BY <1>2, <2>2 DEF EditOf
    <3>4. invites[i].used = Nobody
      BY <3>3 DEF Outstanding
    <3>5. \A j \in DOMAIN invites' : invites'[j].used \in Emails => users'[invites'[j].used].via \in Kinds
      BY <2>0, <2>1, <2>2, <3>2, <3>3 DEF AppInv, UsedInv
    <3>6. \A f \in Emails : users'[f].via \in Kinds => \E j \in DOMAIN invites' : invites'[j].used = f
      <4> SUFFICES ASSUME NEW f \in Emails, users'[f].via \in Kinds
                   PROVE  \E j \in DOMAIN invites' : invites'[j].used = f
        OBVIOUS
      <4>1. CASE f = e
        BY <2>2, <3>3, <4>1
      <4>2. CASE f # e
        <5>1. PICK j \in DOMAIN invites : invites[j].used = f
          BY <2>1, <4>2 DEF AppInv, UsedInv
        <5>2. j # i
          BY <3>4, <5>1, AccountsAssumption
        <5> QED
          BY <2>2, <3>3, <5>1, <5>2
      <4> QED
        BY <4>1, <4>2
    <3>7. \A j, k \in DOMAIN invites' :
              invites'[j].used \in Emails /\ invites'[j].used = invites'[k].used => j = k
      BY <2>2, <3>2, <3>3 DEF AppInv, UsedInv
    <3> QED
      BY <3>5, <3>6, <3>7
  <2>7. SessionsInv'
    BY <1>1, <2>1, Typed DEF AppInv, SessionsInv, SessionsEnd, OneLiveSession, DisabledStaysOut, Authenticate, Live
  <2> QED
    BY <2>1, <2>4, <2>5, <2>6, <2>7 DEF AppInv
<1> QED
  BY <1>2, <1>3, <1>4 DEF Accept

(* No invitation is spent. *)
LEMMA UsedSame ==
    ASSUME AppInv, UNCHANGED <<database, users>>, DOMAIN invites \subseteq DOMAIN invites',
           \A j \in DOMAIN invites : invites'[j].used = invites[j].used,
           \A j \in DOMAIN invites' : j \notin DOMAIN invites => invites'[j].used = Nobody
    PROVE  UsedInv'
<1>1. \A j \in DOMAIN invites' : invites'[j].used \in Emails => j \in DOMAIN invites
  BY AccountsAssumption
<1> QED
  BY <1>1 DEF AppInv, UsedInv

(* An invitation as it is inserted. *)
LEMMA InvitationTyped ==
    ASSUME NEW kind \in Kinds, NEW e \in Emails, NEW r \in Nat, NEW origin \in {"admin", "request"},
           NEW row, row = Invitation(kind, e, r, origin)
    PROVE  /\ row \in InviteRow /\ row.kind = kind /\ row.email = e /\ row.request = r /\ row.origin = origin
           /\ row.used = Nobody /\ ~row.revoked
BY DEF Invitation, InviteRow

(* An administrator's invitation is inserted. *)
LEMMA CreateInvitationKeeps ==
    ASSUME AppInv, NEW p \in Procs, CreateInvitation(p)
    PROVE  AppInv'
<1>1. /\ CanRun(p) /\ Goto(p, Idle) /\ UNCHANGED <<database, policy, users, requests, sessions, facts, conn, locks>>
      /\ proc[p].pc = "invite" /\ Sound(proc[p])
  BY DEF CreateInvitation, Continue, At, AppInv, ProcsInv
<1>2. proc[p].kind \in Kinds /\ proc[p].email \in Emails
  BY <1>1 DEF Sound
<1>3. PICK row : row = Invitation(proc[p].kind, proc[p].email, 0, "admin")
  OBVIOUS
<1>4. row \in InviteRow /\ row.origin = "admin" /\ row.used = Nobody
  BY <1>2, <1>3, InvitationTyped
<1>5. EditOf(invites) /\ NewInvitation(invites, row) /\ RequestsGrow
  BY <1>1, <1>4 DEF EditOf, NewInvitation, RequestsGrow, AppInv, TypesInv, Outstanding, Pending
<1>6. invites' = Append(invites, row)
  BY <1>3 DEF CreateInvitation
<1>7. /\ invites' \in Seq(InviteRow) /\ DOMAIN invites \subseteq DOMAIN invites' /\ InvitesInv'
      /\ \A j \in DOMAIN invites : invites'[j] = invites[j]
      /\ \A j \in DOMAIN invites' : j \notin DOMAIN invites => invites'[j] = row
  BY <1>4, <1>5, <1>6, InvitesAppended
<1>8. TablesGrow /\ MyTurn(p)
  BY <1>1, <1>4, <1>7 DEF TablesGrow, MyTurn, Outstanding, Pending, UserCount
<1>9. ProcsInv' /\ TypesInv'
  BY <1>1, <1>7, <1>8, OutsideStep DEF AppInv, TypesInv
<1>10. UsersInv'
  BY <1>1, UsersSame DEF AppInv, UsersInv, AdmittedByPolicy
<1>11. UsedInv' /\ SessionsInv'
  BY <1>1, <1>4, <1>7, UsedSame, SessionsSame
<1> QED
  BY <1>7, <1>9, <1>10, <1>11 DEF AppInv

(* Row j of the invitations changes in a flag. *)
LEMMA FlagEdit ==
    ASSUME AppInv, NEW i \in DOMAIN invites,
           \/ invites' = [invites EXCEPT ![i].revoked = TRUE]
           \/ invites' = [invites EXCEPT ![i].expired = TRUE]
    PROVE  /\ EditOf(invites')
           /\ \A j \in DOMAIN invites : invites'[j].used = invites[j].used
           /\ invites' = [invites EXCEPT ![i].expired = TRUE] =>
                 \A j \in DOMAIN invites : invites'[j].revoked = invites[j].revoked
<1>1. invites[i] \in InviteRow /\ invites \in Seq(InviteRow)
  BY Typed DEF AppInv, TypesInv
<1>2. PICK a, b : a = [invites[i] EXCEPT !.revoked = TRUE] /\ b = [invites[i] EXCEPT !.expired = TRUE]
  OBVIOUS
<1>3. /\ a \in InviteRow /\ a.kind = invites[i].kind /\ a.email = invites[i].email /\ a.revoked
      /\ a.origin = invites[i].origin /\ a.request = invites[i].request /\ a.used = invites[i].used
  BY <1>1, <1>2 DEF InviteRow
<1>4. /\ b \in InviteRow /\ b.kind = invites[i].kind /\ b.email = invites[i].email
      /\ b.revoked = invites[i].revoked
      /\ b.origin = invites[i].origin /\ b.request = invites[i].request /\ b.used = invites[i].used
  BY <1>1, <1>2 DEF InviteRow
<1>5. CASE invites' = [invites EXCEPT ![i].expired = TRUE]
  <2>1. invites' = [invites EXCEPT ![i] = b]
    BY <1>2, <1>5
  <2>2. /\ invites' \in Seq(InviteRow) /\ DOMAIN invites' = DOMAIN invites
        /\ \A j \in DOMAIN invites : invites'[j] = IF j = i THEN b ELSE invites[j]
    BY <1>1, <1>4, <2>1
  <2>3. EditOf(invites')
    BY <1>4, <2>2 DEF EditOf, Outstanding
  <2> QED
    BY <1>4, <2>2, <2>3
<1>6. CASE invites' # [invites EXCEPT ![i].expired = TRUE]
  <2>1. invites' = [invites EXCEPT ![i] = a]
    BY <1>2, <1>6
  <2>2. /\ invites' \in Seq(InviteRow) /\ DOMAIN invites' = DOMAIN invites
        /\ \A j \in DOMAIN invites : invites'[j] = IF j = i THEN a ELSE invites[j]
    BY <1>1, <1>3, <2>1
  <2>3. EditOf(invites')
    BY <1>3, <2>2 DEF EditOf, Outstanding
  <2> QED
    BY <1>3, <1>6, <2>2, <2>3
<1> QED
  BY <1>5, <1>6

(* An administrator revokes an invitation. *)
LEMMA RevokeInvitationKeeps ==
    ASSUME AppInv, NEW p \in Procs, NEW i \in DOMAIN invites, RevokeInvitation(p, i)
    PROVE  AppInv'
<1>1. /\ CanRun(p) /\ UNCHANGED <<database, proc, conn, locks, policy, users, requests, sessions, facts>>
      /\ proc[p].pc = "idle" /\ invites' = [invites EXCEPT ![i].revoked = TRUE]
  BY DEF RevokeInvitation, OneShot, Begin, At
<1>2. EditOf(invites') /\ \A j \in DOMAIN invites : invites'[j].used = invites[j].used
  BY <1>1, FlagEdit
<1>3. TablesGrow /\ MyTurn(p) /\ RequestsGrow
  BY <1>1, <1>2 DEF TablesGrow, MyTurn, Outstanding, Pending, UserCount, EditOf, RequestsGrow
<1>4. ProcsInv' /\ TypesInv'
  BY <1>1, <1>2, <1>3, OutsideStep DEF AppInv, TypesInv, EditOf
<1>5. UsersInv'
  BY <1>1, UsersSame DEF AppInv, UsersInv, AdmittedByPolicy
<1>6. InvitesInv'
  BY <1>2, <1>3, InvitesEdited
<1>7. UsedInv' /\ SessionsInv'
  BY <1>1, <1>2, UsedSame, SessionsSame DEF EditOf
<1> QED
  BY <1>4, <1>5, <1>6, <1>7 DEF AppInv

(* The policy is set while nobody holds its row. *)
LEMMA SetPolicyKeeps ==
    ASSUME AppInv, NEW p \in Procs, NEW v \in Policies, SetPolicy(p, v)
    PROVE  AppInv'
<1>1. /\ CanRun(p) /\ UNCHANGED <<database, proc, conn, locks, users, invites, requests, sessions, facts>>
      /\ proc[p].pc = "idle" /\ policy' \in Policies /\ RowFree(PolicyRow, p)
  BY DEF SetPolicy, OneShot, Begin, At
<1>2. TablesGrow /\ MyTurn(p)
  BY <1>1 DEF TablesGrow, MyTurn, Outstanding, Pending, UserCount
<1>3. ProcsInv' /\ TypesInv'
  BY <1>1, <1>2, OutsideStep DEF AppInv, TypesInv
<1>4. UsersInv'
  BY <1>1, UsersSame DEF AppInv, UsersInv, AdmittedByPolicy
<1>5. InvitesInv'
  BY <1>1, InvitesSame DEF Pending
<1>6. UsedInv' /\ SessionsInv'
  BY <1>1, UsedSame, SessionsSame
<1> QED
  BY <1>3, <1>4, <1>5, <1>6 DEF AppInv

-----------------------------------------------------------------------------
(* Access requests *)

(* The table of access requests with some of them decided, swept or older. *)
Decided(v) ==
    /\ v \in Seq(AccessRow) /\ DOMAIN v = DOMAIN requests
    /\ \A r \in DOMAIN requests :
         /\ v[r].email = requests[r].email /\ v[r].under = requests[r].under
         /\ v[r].status = "pending" => Pending(r)

(* Such a step of one request, which may add an access request. *)
LEMMA RequestsWritten ==
    ASSUME AppInv, NEW p \in Procs, NEW v, Decided(v),
           \/ requests' = v
           \/ \E row \in AccessRow : row.under = "approval" /\ requests' = Append(v, row),
           CanRun(p), UNCHANGED <<database, policy, users, invites, sessions, facts>>,
           Done(p) \/ (UNCHANGED <<proc, conn, locks>> /\ proc[p].pc = "idle")
    PROVE  AppInv'
<1>1. PICK n \in Nat : DOMAIN requests = 1 .. n /\ DOMAIN v = 1 .. n /\ Len(v) = n /\ v \in Seq(AccessRow)
  BY DEF Decided, AppInv, TypesInv
<1>2. /\ requests' \in Seq(AccessRow) /\ DOMAIN requests \subseteq DOMAIN requests'
      /\ \A r \in DOMAIN requests : requests'[r] = v[r]
      /\ \A r \in DOMAIN requests' : r \in DOMAIN requests \/ requests'[r].under = "approval"
  BY <1>1
<1>3. RequestsGrow
  BY <1>2 DEF RequestsGrow, Decided, Pending
<1>4. TablesGrow /\ MyTurn(p)
  BY <1>2, <1>3 DEF TablesGrow, MyTurn, Outstanding, UserCount, RequestsGrow
<1>5. ProcsInv' /\ proc' \in [Procs -> Process] /\ conn' \in Procs \cup {Nobody}
  BY <1>4, DoneStep, OutsideStep
<1>6. TypesInv'
  BY <1>2, <1>5 DEF AppInv, TypesInv
<1>7. \A r \in DOMAIN requests' : requests'[r].under = "approval"
  BY <1>2 DEF Decided, AppInv, UsersInv, AdmittedByPolicy
<1>8. UsersInv'
  BY <1>7, UsersSame
<1>9. InvitesInv'
  BY <1>3, InvitesSame DEF RequestsGrow
<1>10. UsedInv' /\ SessionsInv'
  BY UsedSame, SessionsSame
<1> QED
  BY <1>5, <1>6, <1>8, <1>9, <1>10 DEF AppInv

(* Both statements of a sweep: what was decided is at most purged. *)
LEMMA SweptIs ==
    ASSUME AppInv, NEW overdue
    PROVE  /\ Decided(Swept(overdue))
           /\ \A r \in DOMAIN requests : r \notin overdue =>
                \/ Swept(overdue)[r].status = requests[r].status
                \/ requests[r].status \in {"expired", "rejected"} /\ Swept(overdue)[r].status = "purged"
<1>1. PICK expired : expired = [r \in DOMAIN requests |->
                                  IF r \in overdue THEN [requests[r] EXCEPT !.status = "expired"]
                                  ELSE requests[r]]
  OBVIOUS
<1>2. PICK purged : purged = Batch({r \in DOMAIN requests : /\ expired[r].status \in {"expired", "rejected"}
                                                            /\ expired[r].age = 2})
  OBVIOUS
<1>3. purged \subseteq {r \in DOMAIN requests : expired[r].status \in {"expired", "rejected"}}
  BY <1>2 DEF Batch
<1>4. PICK v : v = [r \in DOMAIN requests |->
                      IF r \in purged THEN [expired[r] EXCEPT !.status = "purged"] ELSE expired[r]]
  OBVIOUS
<1>5. v = Swept(overdue)
  BY <1>1, <1>2, <1>4 DEF Swept
<1>6. ASSUME NEW r \in DOMAIN requests
      PROVE  /\ v[r] \in AccessRow /\ v[r].email = requests[r].email /\ v[r].under = requests[r].under
             /\ v[r].status = "pending" => Pending(r)
             /\ r \notin overdue =>
                  \/ v[r].status = requests[r].status
                  \/ requests[r].status \in {"expired", "rejected"} /\ v[r].status = "purged"
  <2>1. requests[r] \in AccessRow
    BY Typed DEF AppInv
  <2>2. PICK a : a = expired[r]
    OBVIOUS
  <2>3. /\ a \in AccessRow /\ a.email = requests[r].email /\ a.under = requests[r].under
        /\ r \in overdue => a.status = "expired"
        /\ r \notin overdue => a.status = requests[r].status
    <3>1. PICK b : b = [requests[r] EXCEPT !.status = "expired"]
      OBVIOUS
    <3>2. b \in AccessRow /\ b.email = requests[r].email /\ b.under = requests[r].under /\ b.status = "expired"
      BY <2>1, <3>1 DEF AccessRow
    <3>3. a = IF r \in overdue THEN b ELSE requests[r]
      BY <1>1, <2>2, <3>1
    <3> QED
      BY <2>1, <3>2, <3>3
  <2>4. PICK c : c = [a EXCEPT !.status = "purged"]
    OBVIOUS
  <2>5. c \in AccessRow /\ c.email = a.email /\ c.under = a.under /\ c.status = "purged"
    BY <2>3, <2>4 DEF AccessRow
  <2>6. v[r] = IF r \in purged THEN c ELSE a
    BY <1>4, <2>2, <2>4
  <2>7. r \in purged => a.status \in {"expired", "rejected"}
    BY <1>3, <2>2
  <2> QED
    BY <2>3, <2>5, <2>6, <2>7 DEF Pending
<1>7. v \in Seq(AccessRow) /\ DOMAIN v = DOMAIN requests
  <2>1. PICK n \in Nat : DOMAIN requests = 1 .. n
    BY DEF AppInv, TypesInv
  <2>2. v \in [1 .. n -> AccessRow] /\ DOMAIN v = 1 .. n
    BY <1>4, <1>6, <2>1
  <2> QED
    BY <2>1, <2>2
<1> QED
  BY <1>5, <1>6, <1>7 DEF Decided

(* An access request is submitted after a sweep. *)
LEMMA SubmitKeeps ==
    ASSUME AppInv, NEW p \in Procs, SubmitAccessRequest(p)
    PROVE  AppInv'
<1>1. /\ CanRun(p) /\ Done(p) /\ UNCHANGED <<database, policy, users, invites, sessions, facts>>
      /\ proc[p].pc = "submit" /\ Sound(proc[p])
  BY DEF SubmitAccessRequest, Continue, At, AppInv, ProcsInv
<1>2. PICK e \in Emails : e = proc[p].email /\ policy = "approval"
  BY <1>1 DEF Sound
<1>3. PICK row : row = AccessRequest(e)
  OBVIOUS
<1>4. row \in AccessRow /\ row.under = "approval"
  BY <1>2, <1>3 DEF AccessRequest, AccessRow, Policies
<1>5. requests' = Swept(Overdue) \/ requests' = Append(Swept(Overdue), row)
  BY <1>2, <1>3 DEF SubmitAccessRequest
<1>6. Decided(Swept(Overdue))
  BY SweptIs
<1> QED
  BY <1>1, <1>4, <1>5, <1>6, RequestsWritten

(* A list sweeps the rows it has chosen. *)
LEMMA ListSweepKeeps ==
    ASSUME AppInv, NEW p \in Procs, ListSweep(p)
    PROVE  AppInv'
<1>1. CanRun(p) /\ Done(p) /\ UNCHANGED <<database, policy, users, invites, sessions, facts>>
  BY DEF ListSweep, Continue
<1>2. PICK chosen : requests' = Swept(chosen)
  BY DEF ListSweep
<1>3. Decided(Swept(chosen))
  BY SweptIs
<1> QED
  BY <1>1, <1>2, <1>3, RequestsWritten

(* A pending access request is decided. *)
LEMMA DecidedIs ==
    ASSUME AppInv, NEW r \in DOMAIN requests, NEW v,
           \/ v = [requests EXCEPT ![r].status = "rejected", ![r].age = 0]
           \/ v = [requests EXCEPT ![r].status = "approved"]
           \/ requests[r].age < 2 /\ v = [requests EXCEPT ![r].age = @ + 1]
    PROVE  /\ Decided(v)
           /\ \A q \in DOMAIN requests : q # r => v[q] = requests[q]
           /\ v = [requests EXCEPT ![r].status = "approved"] => v[r].status = "approved"
           /\ v = [requests EXCEPT ![r].age = @ + 1] => v[r].status = requests[r].status
<1>1. requests[r] \in AccessRow /\ requests \in Seq(AccessRow) /\ requests[r].age \in 0 .. 2
  <2>1. requests[r] \in AccessRow /\ requests \in Seq(AccessRow)
    BY Typed DEF AppInv, TypesInv
  <2> QED
    BY <2>1 DEF AccessRow
<1>2. PICK a, b, c : /\ a = [[requests[r] EXCEPT !.status = "rejected"] EXCEPT !.age = 0]
                     /\ b = [requests[r] EXCEPT !.status = "approved"]
                     /\ c = [requests[r] EXCEPT !.age = @ + 1]
  OBVIOUS
<1>3. a \in AccessRow /\ a.email = requests[r].email /\ a.under = requests[r].under /\ a.status = "rejected"
  <2>1. PICK d : d = [requests[r] EXCEPT !.status = "rejected"]
    OBVIOUS
  <2>2. d \in AccessRow /\ d.email = requests[r].email /\ d.under = requests[r].under /\ d.status = "rejected"
    BY <1>1, <2>1 DEF AccessRow
  <2>3. a = [d EXCEPT !.age = 0]
    BY <1>2, <2>1
  <2> QED
    BY <2>2, <2>3 DEF AccessRow
<1>4. b \in AccessRow /\ b.email = requests[r].email /\ b.under = requests[r].under /\ b.status = "approved"
  BY <1>1, <1>2 DEF AccessRow
<1>5. /\ requests[r].age < 2 => c \in AccessRow
      /\ c.email = requests[r].email /\ c.under = requests[r].under /\ c.status = requests[r].status
  BY <1>1, <1>2 DEF AccessRow
<1>6. ASSUME NEW d \in AccessRow, v = [requests EXCEPT ![r] = d], d.email = requests[r].email,
             d.under = requests[r].under, d.status = "pending" => Pending(r)
      PROVE  Decided(v) /\ v[r] = d /\ \A q \in DOMAIN requests : q # r => v[q] = requests[q]
  <2>1. /\ v \in Seq(AccessRow) /\ DOMAIN v = DOMAIN requests
        /\ \A q \in DOMAIN requests : v[q] = IF q = r THEN d ELSE requests[q]
    BY <1>1, <1>6
  <2> QED
    BY <1>6, <2>1 DEF Decided, Pending
<1>7. CASE v = [requests EXCEPT ![r].status = "approved"]
  <2>1. v = [requests EXCEPT ![r] = b]
    BY <1>2, <1>7
  <2>2. Decided(v) /\ v[r] = b /\ \A q \in DOMAIN requests : q # r => v[q] = requests[q]
    BY <1>4, <1>6, <2>1
  <2>3. v = [requests EXCEPT ![r].age = @ + 1] => v[r].status = requests[r].status
    BY <1>1, <1>2, <1>5, <2>2
  <2> QED
    BY <1>4, <2>2, <2>3
<1>8. CASE requests[r].age < 2 /\ v = [requests EXCEPT ![r].age = @ + 1]
  <2>1. v = [requests EXCEPT ![r] = c]
    BY <1>2, <1>8
  <2>2. Decided(v) /\ v[r] = c /\ \A q \in DOMAIN requests : q # r => v[q] = requests[q]
    BY <1>5, <1>6, <1>8, <2>1 DEF Pending
  <2>3. v = [requests EXCEPT ![r].status = "approved"] => v[r].status = "approved"
    BY <1>1, <1>2, <1>4, <2>2
  <2> QED
    BY <1>5, <2>2, <2>3
<1>9. CASE v = [requests EXCEPT ![r].status = "rejected", ![r].age = 0]
  <2>1. v = [requests EXCEPT ![r] = a]
    BY <1>1, <1>2, <1>9
  <2>2. Decided(v) /\ v[r] = a /\ \A q \in DOMAIN requests : q # r => v[q] = requests[q]
    BY <1>3, <1>6, <2>1
  <2>3. v = [requests EXCEPT ![r].status = "approved"] => v[r].status = "approved"
    BY <1>1, <1>2, <1>4, <2>2
  <2>4. v = [requests EXCEPT ![r].age = @ + 1] => v[r].status = requests[r].status
    BY <1>1, <1>2, <1>5, <2>2
  <2> QED
    BY <2>2, <2>3, <2>4
<1> QED
  BY <1>7, <1>8, <1>9

(* An access request is rejected. *)
LEMMA RejectKeeps ==
    ASSUME AppInv, NEW p \in Procs, NEW r \in DOMAIN requests, RejectRequest(p, r)
    PROVE  AppInv'
<1>1. /\ CanRun(p) /\ UNCHANGED <<database, proc, conn, locks, policy, users, invites, sessions, facts>>
      /\ proc[p].pc = "idle"
      /\ requests' = [requests EXCEPT ![r].status = "rejected", ![r].age = 0]
  BY DEF RejectRequest, OneShot, Begin, At
<1>2. Decided(requests')
  BY <1>1, DecidedIs
<1> QED
  BY <1>1, <1>2, RequestsWritten

(* The request that holds an access request's row may write it. *)
LEMMA RowMine ==
    ASSUME AppInv, NEW p \in Procs, NEW r, proc[p].pc \in {"approve", "reissue"}, r = proc[p].id
    PROVE  RowFree(RequestRow(r), p)
<1>1. Held(p, proc[p]) /\ LocksInv /\ database \in {"sqlite", "postgres"}
  BY DEF AppInv, ProcsInv, LocksInv, TypesInv
<1>2. CASE database = "sqlite"
  BY <1>1, <1>2 DEF Held, RowFree
<1>3. CASE database = "postgres"
  <2>1. PICK lock \in locks : lock = [row |-> RequestRow(r), by |-> p]
    BY <1>1, <1>3 DEF Held
  <2>2. lock.row = RequestRow(r) /\ lock.by = p
    BY <2>1
  <2> QED
    BY <1>1, <2>2 DEF LocksInv, RowFree
<1> QED
  BY <1>1, <1>2, <1>3

(* An approval or a reissue commits an invitation for its access request. *)
LEMMA InvitationIssued ==
    ASSUME AppInv, NEW p \in Procs, NEW r \in DOMAIN requests, proc[p].pc \in {"approve", "reissue"},
           r = proc[p].id, CanRun(p), Done(p), UNCHANGED <<database, policy, users, sessions, facts>>,
           NEW v, EditOf(v), \A j \in DOMAIN invites : v[j].used = invites[j].used,
           invites' = Append(v, Invitation("activate", requests[r].email, r, "request")),
           Decided(requests'), requests'[r].status # "pending",
           \A j \in DOMAIN invites : IssuedFor(j, r) => v[j].used # Nobody \/ v[j].revoked
    PROVE  AppInv'
<1>1. requests[r].email \in Emails /\ r \in Nat
  BY Typed DEF AppInv
<1>2. PICK row : row = Invitation("activate", requests[r].email, r, "request")
  OBVIOUS
<1>3. /\ row \in InviteRow /\ row.kind = "activate" /\ row.email = requests[r].email /\ row.request = r
      /\ row.origin = "request" /\ row.used = Nobody /\ ~row.revoked
  BY <1>1, <1>2, InvitationTyped DEF Kinds
<1>4. RequestsGrow
  BY DEF Decided, RequestsGrow, Pending
<1>5. NewInvitation(v, row)
  BY <1>3 DEF NewInvitation, Pending, IssuedFor
<1>6. /\ invites' \in Seq(InviteRow) /\ DOMAIN invites \subseteq DOMAIN invites' /\ InvitesInv'
      /\ \A j \in DOMAIN invites : invites'[j] = v[j]
      /\ \A j \in DOMAIN invites' : j \notin DOMAIN invites => invites'[j] = row
  BY <1>2, <1>3, <1>4, <1>5, InvitesAppended
<1>7. RowFree(RequestRow(r), p)
  BY RowMine
<1>8. TablesGrow
  BY <1>4, <1>6 DEF TablesGrow, Outstanding, UserCount, RequestsGrow, EditOf
<1>9. MyTurn(p)
  BY <1>3, <1>6, <1>7 DEF MyTurn
<1>10. ProcsInv' /\ proc' \in [Procs -> Process] /\ conn' \in Procs \cup {Nobody}
  BY <1>8, <1>9, DoneStep
<1>11. TypesInv'
  BY <1>6, <1>10 DEF AppInv, TypesInv, Decided
<1>12. UsersInv'
  BY UsersSame DEF AppInv, UsersInv, AdmittedByPolicy, Decided
<1>13. UsedInv' /\ SessionsInv'
  BY <1>3, <1>6, UsedSame, SessionsSame
<1> QED
  BY <1>6, <1>10, <1>11, <1>12, <1>13 DEF AppInv

(* An approval commits. *)
LEMMA ApproveKeeps ==
    ASSUME AppInv, NEW p \in Procs, ApproveRequest(p)
    PROVE  AppInv'
<1>1. /\ CanRun(p) /\ Done(p) /\ UNCHANGED <<database, policy, users, sessions, facts>>
      /\ proc[p].pc = "approve" /\ Sound(proc[p])
  BY DEF ApproveRequest, Continue, At, AppInv, ProcsInv
<1>2. PICK r \in DOMAIN requests : r = proc[p].id
  BY <1>1 DEF Sound
<1>3. CASE UNCHANGED <<requests, invites>>
  <2>1. UNCHANGED <<database, tables>>
    BY <1>1, <1>3 DEF tables
  <2> QED
    BY <1>1, <2>1, IdleSound, Leaves, MoveStep DEF Done
<1>4. CASE /\ Pending(r) /\ requests' = [requests EXCEPT ![r].status = "approved"]
           /\ invites' = Append(invites, Invitation("activate", requests[r].email, r, "request"))
  <2>1. Decided(requests') /\ requests'[r].status = "approved"
    BY <1>4, DecidedIs
  <2>2. EditOf(invites)
    BY DEF EditOf, AppInv, TypesInv, Outstanding
  <2>3. \A j \in DOMAIN invites : ~IssuedFor(j, r)
    BY <1>4 DEF AppInv, InvitesInv, IssuedFor
  <2> QED
    BY <1>1, <1>2, <1>4, <2>1, <2>2, <2>3, InvitationIssued
<1> QED
  BY <1>2, <1>3, <1>4 DEF ApproveRequest

(* A reissue commits: it has revoked every invitation it saw. *)
LEMMA ReissueKeeps ==
    ASSUME AppInv, NEW p \in Procs, ReissueInvitation(p)
    PROVE  AppInv'
<1>1. /\ CanRun(p) /\ Done(p) /\ UNCHANGED <<database, policy, users, requests, sessions, facts>>
      /\ proc[p].pc = "reissue" /\ Sound(proc[p])
  BY DEF ReissueInvitation, Continue, At, AppInv, ProcsInv
<1>2. PICK r, seen :
          /\ r \in DOMAIN requests
          /\ r = proc[p].id /\ seen = proc[p].seen /\ ~Pending(r)
          /\ \A i \in DOMAIN invites : IssuedFor(i, r) /\ Outstanding(i) => i \in seen
  BY <1>1 DEF Sound
<1>3. PICK v : v = [i \in DOMAIN invites |-> IF i \in seen /\ Outstanding(i)
                                             THEN [invites[i] EXCEPT !.revoked = TRUE] ELSE invites[i]]
  OBVIOUS
<1>4. ASSUME NEW i \in DOMAIN invites
      PROVE  /\ v[i] \in InviteRow /\ v[i].kind = invites[i].kind /\ v[i].email = invites[i].email
             /\ v[i].origin = invites[i].origin /\ v[i].request = invites[i].request
             /\ v[i].used = Nobody /\ ~v[i].revoked => Outstanding(i) /\ i \notin seen
             /\ v[i].used = invites[i].used
  <2>1. invites[i] \in InviteRow
    BY Typed DEF AppInv
  <2>2. PICK a : a = [invites[i] EXCEPT !.revoked = TRUE]
    OBVIOUS
  <2>3. /\ a \in InviteRow /\ a.kind = invites[i].kind /\ a.email = invites[i].email /\ a.revoked
        /\ a.origin = invites[i].origin /\ a.request = invites[i].request /\ a.used = invites[i].used
    BY <2>1, <2>2 DEF InviteRow
  <2>4. v[i] = IF i \in seen /\ Outstanding(i) THEN a ELSE invites[i]
    BY <1>3, <2>2
  <2> QED
    BY <2>1, <2>3, <2>4 DEF Outstanding
<1>5. v \in Seq(InviteRow) /\ DOMAIN v = DOMAIN invites
  <2>1. PICK n \in Nat : DOMAIN invites = 1 .. n
    BY DEF AppInv, TypesInv
  <2>2. v \in [1 .. n -> InviteRow] /\ DOMAIN v = 1 .. n
    BY <1>3, <1>4, <2>1
  <2> QED
    BY <2>1, <2>2
<1>6. EditOf(v)
  BY <1>4, <1>5 DEF EditOf
<1>7. \A j \in DOMAIN invites : IssuedFor(j, r) => v[j].used # Nobody \/ v[j].revoked
  BY <1>2, <1>4
<1>8. invites' = Append(v, Invitation("activate", requests[r].email, r, "request"))
  BY <1>2, <1>3 DEF ReissueInvitation
<1>9. Decided(requests') /\ requests'[r].status # "pending"
  BY <1>1, <1>2 DEF Decided, Pending, AppInv, TypesInv
<1> QED
  BY <1>1, <1>2, <1>4, <1>6, <1>7, <1>8, <1>9, InvitationIssued

-----------------------------------------------------------------------------
(* Sessions *)

(* Sessions with some of them ended or aged. *)
Ended(v) ==
    /\ v \in Seq(SessionRow) /\ DOMAIN v = DOMAIN sessions
    /\ \A s \in DOMAIN sessions : /\ v[s].user = sessions[s].user /\ v[s].chain = sessions[s].chain
                                  /\ sessions[s].revoked => v[s].revoked

(* What such a table keeps. *)
LEMMA SessionsEnded ==
    ASSUME AppInv, Ended(sessions'), UNCHANGED <<database, users>>
    PROVE  SessionsInv'
<1>1. \A s \in DOMAIN sessions' : /\ s \in DOMAIN sessions
                                  /\ Live(s)' => Live(s)
                                  /\ sessions'[s].user = sessions[s].user
                                  /\ sessions'[s].chain = sessions[s].chain
  BY DEF Ended, Live
<1>2. \A s \in DOMAIN sessions' : users'[sessions'[s].user].state = "disabled" => ~Authenticate(s)'
  BY DEF Authenticate
<1>3. DisabledStaysOut'
  BY <1>1, <1>2 DEF AppInv, SessionsInv, SessionsEnd, DisabledStaysOut
<1>4. OneLiveSession'
  BY <1>1 DEF AppInv, SessionsInv, SessionsEnd, OneLiveSession
<1> QED
  BY <1>1, <1>3, <1>4 DEF AppInv, SessionsInv, SessionsEnd

(* A new session is the only live one of its chain, and not of a disabled    *)
(* user unless it is a login's.                                              *)
LEMMA SessionAdded ==
    ASSUME AppInv, NEW v, Ended(v), NEW row \in SessionRow, sessions' = Append(v, row),
           UNCHANGED <<database, users>>,
           row.chain \in 1 .. Len(sessions) + 1,
           \A s \in DOMAIN sessions : sessions[s].chain = row.chain => v[s].revoked,
           database = "sqlite" => row.chain = Len(sessions) + 1 \/ users[row.user].state = "active"
    PROVE  sessions' \in Seq(SessionRow) /\ DOMAIN sessions \subseteq DOMAIN sessions' /\ SessionsInv'
<1>1. PICK n \in Nat : /\ DOMAIN sessions = 1 .. n /\ Len(sessions) = n /\ DOMAIN v = 1 .. n /\ Len(v) = n
                       /\ v \in Seq(SessionRow)
  BY DEF Ended, AppInv, TypesInv
<1>2. /\ sessions' \in Seq(SessionRow) /\ DOMAIN sessions' = 1 .. n + 1 /\ sessions'[n + 1] = row
      /\ \A s \in DOMAIN sessions : sessions'[s] = v[s]
  BY <1>1
<1>3. /\ DOMAIN sessions \subseteq DOMAIN sessions'
      /\ \A s \in DOMAIN sessions' : s \in DOMAIN sessions \/ s = n + 1
  BY <1>1, <1>2
<1>4. \A s \in DOMAIN sessions : /\ Live(s)' => Live(s) /\ ~v[s].revoked
                                 /\ sessions'[s].user = sessions[s].user
                                 /\ sessions'[s].chain = sessions[s].chain
  BY <1>2 DEF Ended, Live
<1>5. OneLiveSession'
  <2> SUFFICES ASSUME NEW s \in DOMAIN sessions', NEW t \in DOMAIN sessions',
                      sessions'[s].chain = sessions'[t].chain, Live(s)', Live(t)'
               PROVE  s = t
    BY DEF OneLiveSession
  <2>1. CASE s \in DOMAIN sessions /\ t \in DOMAIN sessions
    BY <1>4, <2>1 DEF AppInv, SessionsInv, SessionsEnd, OneLiveSession
  <2>2. \A x \in DOMAIN sessions : Live(x)' => sessions'[x].chain # row.chain
    BY <1>4
  <2> QED
    BY <1>2, <1>3, <2>1, <2>2
<1>6. \A s \in DOMAIN sessions' : users'[sessions'[s].user].state = "disabled" => ~Authenticate(s)'
  BY DEF Authenticate
<1>7. DisabledStaysOut'
  <2> SUFFICES ASSUME database = "sqlite", NEW s \in DOMAIN sessions',
                      users[sessions'[s].user].state = "disabled", Live(s)'
               PROVE  sessions'[s].chain = s
    BY <1>6 DEF DisabledStaysOut
  <2>1. CASE s \in DOMAIN sessions
    BY <1>4, <2>1 DEF AppInv, SessionsInv, SessionsEnd, DisabledStaysOut
  <2>2. CASE s = n + 1
    BY <1>1, <1>2, <2>2
  <2> QED
    BY <1>3, <2>1, <2>2
<1>8. \A s \in DOMAIN sessions' : sessions'[s].chain \in 1 .. s
  BY <1>1, <1>2, <1>3, <1>4 DEF AppInv, SessionsInv
<1> QED
  BY <1>2, <1>3, <1>5, <1>7, <1>8 DEF SessionsInv, SessionsEnd

(* A step that writes sessions only. *)
LEMMA SessionsStep ==
    ASSUME AppInv, NEW p \in Procs, CanRun(p), UNCHANGED <<database, policy, users, invites, requests, facts>>,
           sessions' \in Seq(SessionRow), DOMAIN sessions \subseteq DOMAIN sessions', SessionsInv',
           \/ Done(p)
           \/ /\ UNCHANGED <<conn, locks>> /\ proc[p].pc \in {"idle", "issue"}
              /\ Goto(p, Idle) \/ (UNCHANGED proc /\ proc[p].pc = "idle")
    PROVE  AppInv'
<1>1. TablesGrow /\ MyTurn(p)
  BY DEF TablesGrow, MyTurn, Outstanding, Pending, UserCount
<1>2. ProcsInv' /\ proc' \in [Procs -> Process] /\ conn' \in Procs \cup {Nobody}
  BY <1>1, DoneStep, OutsideStep
<1>3. TypesInv'
  BY <1>2 DEF AppInv, TypesInv
<1>4. UsersInv'
  BY UsersSame DEF AppInv, UsersInv, AdmittedByPolicy
<1>5. InvitesInv'
  BY InvitesSame DEF Pending
<1>6. UsedInv'
  BY UsedSame
<1> QED
  BY <1>2, <1>3, <1>4, <1>5, <1>6 DEF AppInv

(* A session as it is inserted. *)
LEMMA SessionTyped ==
    ASSUME NEW e \in Emails, NEW c \in Nat, NEW row, row = Session(e, c)
    PROVE  row \in SessionRow /\ row.user = e /\ row.chain = c
BY DEF Session, SessionRow

(* A login opens a session with a chain of its own. *)
LEMMA IssueKeeps ==
    ASSUME AppInv, NEW p \in Procs, Issue(p)
    PROVE  AppInv'
<1>1. /\ CanRun(p) /\ Goto(p, Idle) /\ UNCHANGED <<database, policy, users, invites, requests, facts, conn, locks>>
      /\ proc[p].pc = "issue" /\ Sound(proc[p])
  BY DEF Issue, Continue, At, AppInv, ProcsInv
<1>2. PICK e \in Emails : e = proc[p].email
  BY <1>1 DEF Sound
<1>3. PICK n \in Nat : n = Len(sessions) /\ DOMAIN sessions = 1 .. n
  BY DEF AppInv, TypesInv
<1>4. PICK row : row = Session(e, n + 1)
  OBVIOUS
<1>5. row \in SessionRow /\ row.user = e /\ row.chain = n + 1
  BY <1>4, SessionTyped
<1>6. sessions' = Append(sessions, row)
  BY <1>2, <1>3, <1>4 DEF Issue
<1>7. Ended(sessions)
  BY DEF Ended, AppInv, TypesInv
<1>8. \A s \in DOMAIN sessions : sessions[s].chain # row.chain
  BY <1>3, <1>5 DEF AppInv, SessionsInv
<1>9. sessions' \in Seq(SessionRow) /\ DOMAIN sessions \subseteq DOMAIN sessions' /\ SessionsInv'
  BY <1>1, <1>3, <1>5, <1>6, <1>7, <1>8, SessionAdded
<1> QED
  BY <1>1, <1>9, SessionsStep

(* A session is revoked, or its tokens run out. *)
LEMMA EndedIs ==
    ASSUME AppInv, NEW s \in DOMAIN sessions, NEW v,
           \/ v = [sessions EXCEPT ![s].revoked = TRUE]
           \/ v = [sessions EXCEPT ![s].stale = TRUE]
           \/ v = [sessions EXCEPT ![s].expired = TRUE]
    PROVE  /\ Ended(v)
           /\ v = [sessions EXCEPT ![s].revoked = TRUE] => v[s].revoked
           /\ (v = [sessions EXCEPT ![s].stale = TRUE] \/ v = [sessions EXCEPT ![s].expired = TRUE])
                 => \A t \in DOMAIN sessions : v[t].revoked = sessions[t].revoked
<1>1. sessions[s] \in SessionRow /\ sessions \in Seq(SessionRow)
  BY Typed DEF AppInv, TypesInv
<1>2. PICK a, b, c : /\ a = [sessions[s] EXCEPT !.revoked = TRUE]
                     /\ b = [sessions[s] EXCEPT !.stale = TRUE]
                     /\ c = [sessions[s] EXCEPT !.expired = TRUE]
  OBVIOUS
<1>3. a \in SessionRow /\ a.user = sessions[s].user /\ a.chain = sessions[s].chain /\ a.revoked
  BY <1>1, <1>2 DEF SessionRow
<1>4. /\ b \in SessionRow /\ b.user = sessions[s].user /\ b.chain = sessions[s].chain
      /\ b.revoked = sessions[s].revoked
  BY <1>1, <1>2 DEF SessionRow
<1>5. /\ c \in SessionRow /\ c.user = sessions[s].user /\ c.chain = sessions[s].chain
      /\ c.revoked = sessions[s].revoked
  BY <1>1, <1>2 DEF SessionRow
<1>6. ASSUME NEW d \in SessionRow, v = [sessions EXCEPT ![s] = d], d.user = sessions[s].user,
             d.chain = sessions[s].chain, sessions[s].revoked => d.revoked
      PROVE  Ended(v) /\ v[s] = d /\ \A t \in DOMAIN sessions : t # s => v[t] = sessions[t]
  <2>1. /\ v \in Seq(SessionRow) /\ DOMAIN v = DOMAIN sessions
        /\ \A t \in DOMAIN sessions : v[t] = IF t = s THEN d ELSE sessions[t]
    BY <1>1, <1>6
  <2> QED
    BY <1>6, <2>1 DEF Ended
<1>7. /\ v = [sessions EXCEPT ![s].revoked = TRUE] <=> v = [sessions EXCEPT ![s] = a]
      /\ v = [sessions EXCEPT ![s].stale = TRUE] <=> v = [sessions EXCEPT ![s] = b]
      /\ v = [sessions EXCEPT ![s].expired = TRUE] <=> v = [sessions EXCEPT ![s] = c]
  BY <1>2
<1>8. ASSUME v = [sessions EXCEPT ![s] = a] PROVE Ended(v) /\ v[s].revoked
  BY <1>3, <1>6, <1>8
<1>9. ASSUME v = [sessions EXCEPT ![s] = b] \/ v = [sessions EXCEPT ![s] = c]
      PROVE  Ended(v) /\ \A t \in DOMAIN sessions : v[t].revoked = sessions[t].revoked
  BY <1>4, <1>5, <1>6, <1>9
<1> QED
  BY <1>7, <1>8, <1>9

(* A refresh replaces the session it has read, unless that has ended. *)
LEMMA RotateKeeps ==
    ASSUME AppInv, NEW p \in Procs, Rotate(p)
    PROVE  AppInv'
<1>1. /\ CanRun(p) /\ Done(p) /\ UNCHANGED <<database, policy, users, invites, requests, facts>>
      /\ proc[p].pc = "rotate" /\ Sound(proc[p])
  BY DEF Rotate, Continue, At, AppInv, ProcsInv
<1>2. PICK s \in DOMAIN sessions :
          s = proc[p].id /\ (database = "sqlite" => users[sessions[s].user].state = "active")
  BY <1>1 DEF Sound
<1>3. CASE UNCHANGED sessions
  <2>1. UNCHANGED <<database, tables>>
    BY <1>1, <1>3 DEF tables
  <2> QED
    BY <1>1, <2>1, IdleSound, Leaves, MoveStep DEF Done
<1>4. CASE /\ Live(s)
           /\ sessions' = Append([sessions EXCEPT ![s].revoked = TRUE],
                                 Session(sessions[s].user, sessions[s].chain))
  <2>1. PICK n \in Nat : n = Len(sessions) /\ DOMAIN sessions = 1 .. n
    BY DEF AppInv, TypesInv
  <2>2. PICK row : row = Session(sessions[s].user, sessions[s].chain)
    OBVIOUS
  <2>3. row \in SessionRow /\ row.user = sessions[s].user /\ row.chain = sessions[s].chain
    BY <2>2, Typed, SessionTyped DEF AppInv
  <2>4. PICK v : v = [sessions EXCEPT ![s].revoked = TRUE]
    OBVIOUS
  <2>5. Ended(v) /\ v[s].revoked
    BY <2>4, EndedIs
  <2>6. ASSUME NEW t \in DOMAIN sessions, sessions[t].chain = row.chain PROVE v[t].revoked
    <3>1. CASE Live(t)
      BY <1>4, <2>3, <2>5, <2>6, <3>1 DEF AppInv, SessionsInv, SessionsEnd, OneLiveSession
    <3>2. CASE ~Live(t)
      BY <2>5, <3>2 DEF Ended, Live
    <3> QED
      BY <3>1, <3>2
  <2>7. row.chain \in 1 .. n + 1
    BY <2>1, <2>3 DEF AppInv, SessionsInv
  <2>8. sessions' \in Seq(SessionRow) /\ DOMAIN sessions \subseteq DOMAIN sessions' /\ SessionsInv'
    <3>1. sessions' = Append(v, row)
      BY <1>4, <2>2, <2>4
    <3>2. database = "sqlite" => users[row.user].state = "active"
      BY <1>2, <2>3
    <3> QED
      BY <1>1, <2>1, <2>3, <2>5, <2>6, <2>7, <3>1, <3>2, SessionAdded
  <2> QED
    BY <1>1, <2>8, SessionsStep
<1> QED
  BY <1>2, <1>3, <1>4 DEF Rotate, Rotates

(* A session is logged out. *)
LEMMA LogoutKeeps ==
    ASSUME AppInv, NEW p \in Procs, NEW s \in DOMAIN sessions, Logout(p, s)
    PROVE  AppInv'
<1>1. /\ CanRun(p) /\ UNCHANGED <<database, policy, users, invites, requests, facts, proc, conn, locks>>
      /\ proc[p].pc = "idle" /\ sessions' = [sessions EXCEPT ![s].revoked = TRUE]
  BY DEF Logout, OneShot, Begin, At
<1>2. Ended(sessions')
  BY <1>1, EndedIs
<1>3. SessionsInv' /\ sessions' \in Seq(SessionRow) /\ DOMAIN sessions \subseteq DOMAIN sessions'
  BY <1>1, <1>2, SessionsEnded DEF Ended
<1> QED
  BY <1>1, <1>3, SessionsStep

(* A disable commits: on SQLite it has ended every live session of the user. *)
LEMMA DisableKeeps ==
    ASSUME AppInv, NEW p \in Procs, Disable(p)
    PROVE  AppInv'
<1>1. /\ CanRun(p) /\ Done(p) /\ UNCHANGED <<database, policy, invites, requests, facts>>
      /\ proc[p].pc = "disable" /\ Sound(proc[p])
  BY DEF Disable, Continue, At, AppInv, ProcsInv
<1>2. PICK e, seen :
          /\ e \in Emails
          /\ e = proc[p].email /\ seen = proc[p].seen /\ UserCount(e)
          /\ database = "sqlite" => \A s \in DOMAIN sessions : sessions[s].user = e /\ Live(s) => s \in seen
  BY <1>1 DEF Sound
<1>3. PICK row : row = [users[e] EXCEPT !.state = "disabled"]
  OBVIOUS
<1>4. row \in User /\ row.state = "disabled" /\ row.via = users[e].via /\ row.under = users[e].under
  BY <1>2, <1>3, Typed DEF AppInv, User
<1>5. users' = [users EXCEPT ![e] = row]
  BY <1>2, <1>3 DEF Disable
<1>6. /\ users' \in [Emails -> User] /\ users'[e] = row
      /\ \A f \in Emails : f # e => users'[f] = users[f]
  BY <1>2, <1>4, <1>5 DEF AppInv, TypesInv
<1>7. \A f \in Emails : /\ users'[f].via = users[f].via /\ users'[f].under = users[f].under
                        /\ UserCount(f)' <=> UserCount(f)
  BY <1>2, <1>4, <1>6 DEF UserCount
<1>8. UsersInv'
  BY <1>1, <1>7 DEF AppInv, UsersInv, AdmittedByPolicy, UsersAudited
<1>9. sessions' = [s \in DOMAIN sessions |-> IF s \in seen THEN [sessions[s] EXCEPT !.revoked = TRUE]
                                             ELSE sessions[s]]
  BY <1>2 DEF Disable
<1>10. ASSUME NEW s \in DOMAIN sessions
       PROVE  /\ sessions'[s] \in SessionRow
              /\ sessions'[s].user = sessions[s].user /\ sessions'[s].chain = sessions[s].chain
              /\ sessions[s].revoked => sessions'[s].revoked
              /\ s \in seen => sessions'[s].revoked
  <2>1. sessions[s] \in SessionRow
    BY Typed DEF AppInv
  <2>2. PICK a : a = [sessions[s] EXCEPT !.revoked = TRUE]
    OBVIOUS
  <2>3. a \in SessionRow /\ a.user = sessions[s].user /\ a.chain = sessions[s].chain /\ a.revoked
    BY <2>1, <2>2 DEF SessionRow
  <2>4. sessions'[s] = IF s \in seen THEN a ELSE sessions[s]
    BY <1>9, <2>2
  <2> QED
    BY <2>1, <2>3, <2>4
<1>11. sessions' \in Seq(SessionRow) /\ DOMAIN sessions' = DOMAIN sessions
  <2>1. PICK n \in Nat : DOMAIN sessions = 1 .. n
    BY DEF AppInv, TypesInv
  <2>2. sessions' \in [1 .. n -> SessionRow] /\ DOMAIN sessions' = 1 .. n
    BY <1>9, <1>10, <2>1
  <2> QED
    BY <2>1, <2>2
<1>12. TablesGrow /\ MyTurn(p)
  BY <1>1, <1>7, <1>11 DEF TablesGrow, MyTurn, Outstanding, Pending
<1>13. ProcsInv' /\ proc' \in [Procs -> Process] /\ conn' \in Procs \cup {Nobody}
  BY <1>1, <1>12, DoneStep
<1>14. TypesInv'
  BY <1>1, <1>6, <1>11, <1>13 DEF AppInv, TypesInv
<1>15. InvitesInv'
  BY <1>1, InvitesSame DEF Pending
<1>16. UsedInv'
  BY <1>1, <1>7 DEF AppInv, UsedInv
<1>17. OneLiveSession'
  BY <1>10, <1>11 DEF AppInv, SessionsInv, SessionsEnd, OneLiveSession, Live
<1>18. DisabledStaysOut'
  <2>1. \A s \in DOMAIN sessions' : users'[sessions'[s].user].state = "disabled" => ~Authenticate(s)'
    BY DEF Authenticate
  <2> SUFFICES ASSUME database = "sqlite", NEW s \in DOMAIN sessions,
                      users'[sessions[s].user].state = "disabled", Live(s)'
               PROVE  sessions[s].chain = s
    BY <1>1, <1>10, <1>11, <2>1 DEF DisabledStaysOut
  <2>2. Live(s) /\ s \notin seen
    BY <1>10 DEF Live
  <2>3. sessions[s].user # e
    BY <1>2, <2>2
  <2>4. users[sessions[s].user].state = "disabled"
    BY <1>6, <2>3, Typed DEF AppInv
  <2> QED
    BY <2>2, <2>4 DEF AppInv, SessionsInv, SessionsEnd, DisabledStaysOut
<1>19. SessionsInv'
  BY <1>10, <1>11, <1>17, <1>18 DEF AppInv, SessionsInv, SessionsEnd
<1> QED
  BY <1>8, <1>13, <1>14, <1>15, <1>16, <1>19 DEF AppInv

(* Time passes: nothing a request relies on depends on it. *)
LEMMA ElapseKeeps ==
    ASSUME AppInv, Elapse
    PROVE  AppInv'
<1>1. UNCHANGED <<database, proc, conn, locks, policy, users, facts>>
  BY DEF Elapse, ExpireInvitation, ExpireSession, AgeRequest
<1>2. /\ EditOf(invites')
      /\ \A i \in DOMAIN invites : invites'[i].used = invites[i].used /\ invites'[i].revoked = invites[i].revoked
  <2>1. CASE UNCHANGED invites
    BY <2>1 DEF EditOf, AppInv, TypesInv, Outstanding
  <2>2. ASSUME NEW i \in DOMAIN invites, ExpireInvitation(i)
        PROVE  /\ EditOf(invites')
               /\ \A j \in DOMAIN invites : invites'[j].used = invites[j].used /\ invites'[j].revoked = invites[j].revoked
    BY <2>2, FlagEdit DEF ExpireInvitation
  <2> QED
    BY <2>1, <2>2 DEF Elapse, ExpireSession, AgeRequest
<1>3. /\ Ended(sessions')
      /\ \A s \in DOMAIN sessions : sessions'[s].revoked = sessions[s].revoked
  <2>1. CASE UNCHANGED sessions
    BY <2>1 DEF Ended, AppInv, TypesInv
  <2>2. ASSUME NEW s \in DOMAIN sessions, ExpireSession(s)
        PROVE  Ended(sessions') /\ \A t \in DOMAIN sessions : sessions'[t].revoked = sessions[t].revoked
    BY <2>2, EndedIs DEF ExpireSession
  <2> QED
    BY <2>1, <2>2 DEF Elapse, ExpireInvitation, AgeRequest
<1>4. /\ Decided(requests')
      /\ \A r \in DOMAIN requests : requests'[r].status = requests[r].status
  <2>1. CASE UNCHANGED requests
    BY <2>1 DEF Decided, AppInv, TypesInv, Pending
  <2>2. ASSUME NEW r \in DOMAIN requests, AgeRequest(r)
        PROVE  Decided(requests') /\ \A q \in DOMAIN requests : requests'[q].status = requests[q].status
    BY <2>2, DecidedIs DEF AgeRequest
  <2> QED
    BY <2>1, <2>2 DEF Elapse, ExpireInvitation, ExpireSession
<1>5. TypesInv'
  BY <1>1, <1>2, <1>3, <1>4 DEF AppInv, TypesInv, EditOf, Ended, Decided
<1>6. RequestsGrow
  BY <1>4 DEF RequestsGrow, Decided, Pending
<1>7. UsersInv' /\ InvitesInv' /\ UsedInv' /\ SessionsInv'
  <2>1. UsersInv'
    BY <1>1, <1>4, UsersSame DEF AppInv, UsersInv, AdmittedByPolicy, Decided
  <2>2. InvitesInv'
    BY <1>2, <1>6, InvitesEdited
  <2>3. UsedInv'
    BY <1>1, <1>2, UsedSame DEF EditOf
  <2>4. SessionsInv'
    BY <1>1, <1>3, SessionsEnded
  <2> QED
    BY <2>1, <2>2, <2>3, <2>4
<1>8. ASSUME NEW o \in Procs PROVE Sound(proc[o])' /\ Held(o, proc[o])'
  <2>1. PICK q : q = proc[o] /\ Sound(q) /\ Held(o, q)
    BY DEF AppInv, ProcsInv, LocksInv
  <2>2. /\ DOMAIN invites' = DOMAIN invites /\ DOMAIN requests' = DOMAIN requests /\ DOMAIN sessions' = DOMAIN sessions
        /\ \A i \in DOMAIN invites : /\ Outstanding(i)' <=> Outstanding(i)
                                     /\ IssuedFor(i, q.id)' <=> IssuedFor(i, q.id)
                                     /\ invites'[i].kind = invites[i].kind /\ invites'[i].email = invites[i].email
        /\ \A r \in DOMAIN requests : Pending(r)' <=> Pending(r)
        /\ \A s \in DOMAIN sessions : (Live(s)' <=> Live(s)) /\ sessions'[s].user = sessions[s].user
        /\ \A e \in Emails : UserCount(e)' <=> UserCount(e)
    BY <1>1, <1>2, <1>3, <1>4 DEF EditOf, Ended, Decided, Outstanding, IssuedFor, Pending, Live, UserCount
  <2>3. PolicyUse(q)' <=> PolicyUse(q)
    BY <2>1, <2>2 DEF PolicyUse, Sound
  <2>4. Held(o, q)'
    BY <1>1, <2>1, <2>3 DEF Held
  <2>5. Sound(q)'
    BY <1>1, <2>1, <2>2, <2>3 DEF Sound
  <2> QED
    BY <1>1, <2>1, <2>4, <2>5
<1>9. ProcsInv'
  BY <1>1, <1>8 DEF AppInv, ProcsInv, LocksInv
<1> QED
  BY <1>5, <1>7, <1>9 DEF AppInv

-----------------------------------------------------------------------------
(* A deployment starts sound. *)
LEMMA InitSound == Init => AppInv
<1> SUFFICES ASSUME Init PROVE AppInv
  OBVIOUS
<1>1. /\ database \in {"sqlite", "postgres"} /\ policy \in Policies
      /\ invites = <<>> /\ requests = <<>> /\ sessions = <<>> /\ facts = [e \in Emails |-> 0]
      /\ proc = [p \in Procs |-> Idle] /\ conn = Nobody /\ locks = {}
  BY DEF Init
<1>2. PICK earlier : earlier = [state |-> "active", via |-> "earlier", under |-> "open"]
  OBVIOUS
<1>3. /\ earlier \in User /\ earlier.state = "active" /\ earlier.via = "earlier"
      /\ NoUser \in User /\ NoUser.state = "none" /\ NoUser.via = "none"
  BY <1>2 DEF User, NoUser, Policies
<1>4. users \in [Emails -> {NoUser, earlier}]
  BY <1>2 DEF Init
<1>5. /\ users \in [Emails -> User]
      /\ \A e \in Emails : \/ users[e].state = "none" /\ users[e].via = "none"
                           \/ users[e].state = "active" /\ users[e].via = "earlier"
  BY <1>3, <1>4
<1>6. TypesInv
  <2>1. /\ invites \in Seq(InviteRow) /\ requests \in Seq(AccessRow) /\ sessions \in Seq(SessionRow)
    BY <1>1
  <2>2. proc \in [Procs -> Process] /\ facts \in [Emails -> Nat]
    BY <1>1, IdleSound
  <2> QED
    BY <1>1, <1>5, <2>1, <2>2 DEF TypesInv
<1>7. ProcsInv
  <2>1. \A o \in Procs : Sound(proc[o])
    BY <1>1, IdleSound
  <2>2. ~PolicyUse(Idle) /\ Idle.pc \notin InTx /\ Idle.pc \notin {"approve", "reissue"}
    BY IdleSound DEF PolicyUse, InTx
  <2>3. \A o \in Procs : Held(o, Idle)
    BY <1>1, <2>2, AccountsAssumption DEF Held
  <2> QED
    BY <1>1, <2>1, <2>3 DEF ProcsInv, LocksInv
<1>8. UsersInv
  BY <1>1, <1>5 DEF UsersInv, UserCount, AdmittedByPolicy, UsersAudited
<1>9. UsedInv
  BY <1>1, <1>5 DEF UsedInv, Kinds
<1>10. InvitesInv /\ SessionsInv
  BY <1>1 DEF InvitesInv, SessionsInv, SessionsEnd, OneLiveSession, DisabledStaysOut
<1> QED
  BY <1>6, <1>7, <1>8, <1>9, <1>10 DEF AppInv

(* Every request, the clock and every rollback keep the invariant. *)
LEMMA NextKeeps == AppInv /\ [Next]_vars => AppInv'
<1> SUFFICES ASSUME AppInv, [Next]_vars PROVE AppInv'
  OBVIOUS
<1>1. ASSUME NEW p \in Procs, Arrive(p) PROVE AppInv'
  BY <1>1, PolicyLockKeeps, LoginReadKeeps, DisableScanKeeps, InviteCheckKeeps, AcceptReadKeeps,
     RevokeInvitationKeeps, RequestLockKeeps, RejectKeeps, RefreshReadKeeps, LogoutKeeps, SetPolicyKeeps,
     ListScanKeeps DEF Arrive
<1>2. ASSUME NEW p \in Procs, Finish(p) PROVE AppInv'
  BY <1>2, RegisterKeeps, AcceptPolicyKeeps, AcceptKeeps, CreateInvitationKeeps, SubmitKeeps, ListSweepKeeps,
     ApproveKeeps, ReissueKeeps, IssueKeeps, RotateKeeps, DisableKeeps DEF Finish
<1>3. CASE UNCHANGED vars
  BY <1>3, CapabilityKeeps DEF vars
<1> QED
  BY <1>1, <1>2, <1>3, AbortKeeps, ElapseKeeps DEF Next, Capability

(* The inductive invariant always holds. *)
THEOREM AppInvAlways == Spec => []AppInv
<1> QED
  BY InitSound, NextKeeps, PTL DEF Spec

(* Every account is justified, for any number of requests at the same time:  *)
(* admitted by the policy in force when it was committed, and recorded once  *)
(* (register, inviteAccept, SubmitAccessRequest against SetPolicy).          *)
THEOREM AccountsJustifiedAlways == Spec => []AccountsJustified
<1>1. AppInv => AccountsJustified
  <2> SUFFICES ASSUME AppInv PROVE AccountsJustified
    OBVIOUS
  <2>1. \A l \in locks : l.by \in Procs /\ ~At(l.by, "idle")
    BY DEF AppInv, ProcsInv, LocksInv, Held, LockPcs, At
  <2> QED
    BY <2>1 DEF AppInv, TypesInv, UsersInv, AccountsJustified, TypeOK
<1> QED
  BY AppInvAlways, <1>1, PTL

(* Invitations are spent once: on SQLite each account made by an invitation  *)
(* is named by one, and an access request has at most one usable activation  *)
(* however approvals and reissues interleave.                                *)
THEOREM InvitationsSpentOnceAlways == Spec => []InvitationsSpentOnce
<1>1. AppInv => InvitationNamesUser
  <2> SUFFICES ASSUME AppInv, database = "sqlite", NEW e \in Emails
               PROVE  Cardinality({i \in DOMAIN invites : invites[i].used = e})
                         = IF users[e].via \in Kinds THEN 1 ELSE 0
    BY DEF InvitationNamesUser
  <2>1. CASE users[e].via \in Kinds
    <3>1. PICK i \in DOMAIN invites : invites[i].used = e
      BY <2>1 DEF AppInv, UsedInv
    <3>2. {j \in DOMAIN invites : invites[j].used = e} = {i}
      BY <3>1 DEF AppInv, UsedInv
    <3> QED
      BY <2>1, <3>2, FS_Singleton
  <2>2. CASE users[e].via \notin Kinds
    <3>1. {j \in DOMAIN invites : invites[j].used = e} = {}
      BY <2>2 DEF AppInv, UsedInv
    <3> QED
      BY <2>2, <3>1, FS_EmptySet
  <2> QED
    BY <2>1, <2>2
<1>2. AppInv => OneActivation
  <2> SUFFICES ASSUME AppInv, NEW r \in DOMAIN requests
               PROVE  Cardinality({i \in DOMAIN invites : /\ invites[i].origin = "request"
                                                          /\ invites[i].request = r
                                                          /\ Outstanding(i)}) <= 1
    BY DEF OneActivation
  <2>1. PICK S : S = {i \in DOMAIN invites : /\ invites[i].origin = "request" /\ invites[i].request = r
                                             /\ Outstanding(i)}
    OBVIOUS
  <2>2. \A i, j \in S : i = j
    BY <2>1 DEF AppInv, InvitesInv, IssuedFor
  <2>3. ASSUME S = {} PROVE Cardinality(S) <= 1
    BY <2>3, FS_EmptySet
  <2>4. ASSUME S # {} PROVE Cardinality(S) <= 1
    <3>1. PICK i : i \in S
      BY <2>4
    <3>2. S = {i}
      BY <2>2, <3>1
    <3> QED
      BY <3>2, FS_Singleton
  <2> QED
    BY <2>1, <2>3, <2>4
<1> QED
  BY AppInvAlways, <1>1, <1>2, PTL DEF InvitationsSpentOnce

(* Of the sessions of one login at most one is live, and on SQLite no        *)
(* refresh gets past a disable (refresh, disable, Authenticate).             *)
THEOREM SessionsEndAlways == Spec => []SessionsEnd
<1>1. AppInv => SessionsEnd
  BY DEF AppInv, SessionsInv
<1> QED
  BY AppInvAlways, <1>1, PTL

(* On SQLite a decision about an access request stands: a sweep has chosen   *)
(* pending rows and nobody has decided them since (sweepExpired,             *)
(* ApproveRequest, RejectRequest).                                           *)
THEOREM DecisionsStandAlways == Spec => DecisionsStand
<1> DEFINE Stand == database = "sqlite" => \A r \in DOMAIN requests :
                      /\ requests[r].status = "approved" => requests'[r].status = "approved"
                      /\ requests[r].status = "rejected" => requests'[r].status \in {"rejected", "purged"}
<1>1. AppInv /\ [Next]_vars => [Stand]_vars
  <2> SUFFICES ASSUME AppInv, [Next]_vars, database = "sqlite", NEW r \in DOMAIN requests,
                      requests[r].status \in {"approved", "rejected"}, ~UNCHANGED requests
               PROVE  \/ requests'[r].status = requests[r].status
                      \/ requests[r].status = "rejected" /\ requests'[r].status = "purged"
    OBVIOUS
  <2>1. ASSUME NEW overdue, \A q \in overdue : q \in DOMAIN requests => Pending(q)
        PROVE  LET v == Swept(overdue)
               IN  /\ DOMAIN v = DOMAIN requests
                   /\ \/ v[r].status = requests[r].status
                      \/ requests[r].status = "rejected" /\ v[r].status = "purged"
    <3>1. r \notin overdue
      BY <2>1 DEF Pending
    <3> QED
      BY <3>1, SweptIs DEF Decided
  <2>2. ASSUME NEW p \in Procs, SubmitAccessRequest(p)
        PROVE  \/ requests'[r].status = requests[r].status
               \/ requests[r].status = "rejected" /\ requests'[r].status = "purged"
    <3>1. PICK v : v = Swept(Overdue)
      OBVIOUS
    <3>2. Overdue \subseteq DOMAIN requests /\ \A q \in Overdue : Pending(q)
      BY DEF Overdue, Batch
    <3>3. /\ v \in Seq(AccessRow) /\ r \in DOMAIN v
          /\ \/ v[r].status = requests[r].status
             \/ requests[r].status = "rejected" /\ v[r].status = "purged"
      BY <2>1, <3>1, <3>2, SweptIs DEF Decided
    <3>4. requests' = v \/ \E row : requests' = Append(v, row)
      BY <2>2, <3>1 DEF SubmitAccessRequest
    <3>5. requests'[r] = v[r]
      BY <3>3, <3>4
    <3> QED
      BY <3>3, <3>5
  <2>3. ASSUME NEW p \in Procs, ListSweep(p)
        PROVE  \/ requests'[r].status = requests[r].status
               \/ requests[r].status = "rejected" /\ requests'[r].status = "purged"
    <3>1. Sound(proc[p]) /\ proc[p].pc = "sweep"
      BY <2>3 DEF AppInv, ProcsInv, ListSweep, Continue, At
    <3>2. PICK chosen : chosen = {q \in proc[p].seen : requests[q].status # "purged"}
      OBVIOUS
    <3>3. requests' = Swept(chosen) /\ \A q \in chosen : Pending(q)
      BY <2>3, <3>1, <3>2 DEF ListSweep, Sound
    <3> QED
      BY <2>1, <3>3
  <2>4. ASSUME NEW q \in DOMAIN requests, Pending(q),
               \/ requests' = [requests EXCEPT ![q].status = "rejected", ![q].age = 0]
               \/ requests' = [requests EXCEPT ![q].status = "approved"]
        PROVE  requests'[r].status = requests[r].status
    <3>1. q # r
      BY <2>4 DEF Pending
    <3> QED
      BY <2>4, <3>1, DecidedIs
  <2>5. ASSUME NEW p \in Procs, ApproveRequest(p) PROVE requests'[r].status = requests[r].status
    BY <2>4, <2>5 DEF ApproveRequest, Continue, At, AppInv, ProcsInv, Sound
  <2>6. ASSUME NEW p \in Procs, NEW q \in DOMAIN requests, RejectRequest(p, q)
        PROVE  requests'[r].status = requests[r].status
    BY <2>4, <2>6 DEF RejectRequest
  <2>7. ASSUME NEW q \in DOMAIN requests, AgeRequest(q) PROVE requests'[r].status = requests[r].status
    BY <2>7, DecidedIs DEF AgeRequest
  <2>8. ASSUME NEW p \in Procs, Arrive(p) PROVE \E q \in DOMAIN requests : RejectRequest(p, q)
    BY <2>8 DEF Arrive, RegisterLock, SubmitLock, LoginRead, DisableScan, InviteCheck, AcceptRead,
       RevokeInvitation, ApproveLock, ReissueLock, RefreshRead, Logout, SetPolicy, ListScan, tables
  <2>9. ASSUME NEW p \in Procs, Finish(p)
        PROVE  SubmitAccessRequest(p) \/ ListSweep(p) \/ ApproveRequest(p)
    BY <2>9 DEF Finish, Register, AcceptPolicy, Accept, CreateInvitation, ReissueInvitation, Issue, Rotate,
       Disable, tables
  <2>10. CASE Elapse
    BY <2>7, <2>10 DEF Elapse, ExpireInvitation, ExpireSession
  <2>11. ASSUME NEW p \in Procs PROVE ~Abort(p)
    BY DEF Abort, tables
  <2> QED
    BY <2>2, <2>3, <2>5, <2>6, <2>8, <2>9, <2>10, <2>11 DEF Next, Capability, vars, tables
<1> QED
  BY AppInvAlways, <1>1, PTL DEF Spec, DecisionsStand
=============================================================================

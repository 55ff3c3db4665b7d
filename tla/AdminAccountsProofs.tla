------------------------- MODULE AdminAccountsProofs -------------------------
(***************************************************************************)
(* Proofs about AdminAccounts for any set of accounts, any number of        *)
(* requests served at the same time, sessions, credentials and failed       *)
(* reloads, on SQLite and on PostgreSQL.                                    *)
(***************************************************************************)
EXTENDS AdminAccounts, TLAPS

(* What an update asks for, and the rows of the tables. *)
Change     == [enabled : BOOLEAN, role : Roles]
SessionRow == [admin : Admins, revoked : BOOLEAN, expired : BOOLEAN, born : Nat]
Places     == {"idle", "setup", "issue", "check", "begin", "write", "reload", "roles", "install", "note"}
Mutating   == {"password", "roles", "reset", "revoke", "create", "update"}
Request    == [pc : Places, op : Mutating \cup {"none", "setup", "cli", "login", "status", "credential"},
               session : Nat, target : Admins \cup {Nobody},
               arg : {Nobody} \cup Nat \cup Roles \cup Change]

TypesInv ==
    /\ database \in {"sqlite", "postgres"}
    /\ admins \in [Admins -> Account] /\ grant \in BOOLEAN /\ chosen \in BOOLEAN
    /\ sessions \in Seq(SessionRow)
    /\ proc \in [Procs -> Request]
    /\ conn \in Procs \cup {Nobody} /\ advisory \in Procs \cup {Nobody}
    /\ changer \in [Admins -> Nat]

(* Who is inside a transaction holds SQLite's connection, and who sets up    *)
(* on PostgreSQL the advisory lock; nobody else does.                        *)
HeldBy(p, pc) ==
    /\ database = "sqlite" => (pc \in {"setup", "write"} <=> conn = p)
    /\ database = "postgres" => conn = Nobody
    /\ advisory = p <=> database = "postgres" /\ pc = "setup"

(* An enabled account exists, and so do the accounts of the sessions. *)
AccountsInv ==
    /\ \A a \in Admins : admins[a].enabled => Exists(a)
    /\ \A s \in DOMAIN sessions : Exists(sessions[s].admin)

(* An update that takes the administrator role or the account away. *)
Demotes(q) == q.op = "update" /\ (~q.arg.enabled \/ q.arg.role # "administrator")

(* What a request under way relies on.  The check of canDemote still holds   *)
(* when SQLite's transaction writes.                                         *)
RequestSound(q) ==
    /\ q.pc = "setup" => q.target \in Admins /\ q.op \in {"setup", "cli"}
    /\ q.pc \in {"begin", "write"} =>
          /\ q.session \in DOMAIN sessions /\ q.target \in Admins /\ q.op \in Mutating
          /\ q.op = "create" => q.arg \in Roles
          /\ q.op = "update" => q.arg \in Change
    /\ q.pc = "check" \/ (q.pc \in {"reload", "roles", "install"} /\ q.op = "login") => q.target \in Admins
    /\ q.pc = "issue" \/ (q.pc \in {"reload", "roles", "install"} /\ q.op = "setup") =>
          q.target \in Admins /\ Exists(q.target)
    /\ database = "sqlite" /\ q.pc = "write" /\ Demotes(q) => CanDemote(q.target)

Locks       == \A o \in Procs : HeldBy(o, proc[o].pc)
RequestsInv == Locks /\ \A o \in Procs : RequestSound(proc[o])

AdminInv ==
    /\ TypesInv /\ AccountsInv /\ RequestsInv
    /\ OneSetup /\ AdministratorRemains /\ PasswordChangeEvicts

(* The copies of the tables: the account model, and what reloads have read. *)
Model   == [admins : [Admins -> Account], grant : BOOLEAN]
LoadRow == [model : Model, unread : SUBSET Admins, since : Nat]

CopiesInv ==
    /\ exclusive \in BOOLEAN /\ cache \in Model /\ load \in [Procs -> LoadRow]
    /\ changes \in Nat /\ fresh \in Nat /\ missed \in Nat
    /\ \A a \in Admins : cache.admins[a].enabled => Exists(a)
    /\ \A o \in Procs, a \in Admins : load[o].model.admins[a].enabled => Exists(a)

(* A reload that began after the last change has read what the tables hold,  *)
(* as far as it has come.                                                    *)
Loading(p) == proc[p].pc \in {"roles", "install"}

AsRead(p, a) == [admins[a] EXCEPT !.role = IF a \in load[p].unread THEN NoRole ELSE admins[a].role]

ReadSound(p) ==
    Loading(p) =>
        /\ proc[p].pc = "install" => load[p].unread = {}
        /\ load[p].since = changes =>
              /\ \A a \in Admins : load[p].model.admins[a] = AsRead(p, a)
              /\ proc[p].pc = "install" => load[p].model.grant = grant

(* Whose model the last change is in or will be in. *)
Pending(p) == Changed(p) /\ (proc[p].pc = "reload" \/ (Loading(p) /\ load[p].since = changes))

FollowInv ==
    /\ fresh <= changes /\ missed <= changes /\ \A o \in Procs : load[o].since <= changes
    /\ fresh = changes => cache = Tables
    /\ \A o \in Procs : ReadSound(o)
    /\ exclusive =>
          /\ fresh = changes \/ missed = changes \/ \E o \in Procs : Pending(o)
          /\ \A o \in Procs : Loading(o) => fresh <= load[o].since
          /\ \A o, r \in Procs : Loading(o) /\ Loading(r) => o = r

-----------------------------------------------------------------------------
(* One request moves on; the others stay where they are. *)
LEMMA GotoMoves ==
    ASSUME TypesInv, NEW p \in Procs, NEW q \in Request, Goto(p, q)
    PROVE  /\ proc' \in [Procs -> Request] /\ proc'[p] = q
           /\ \A o \in Procs : o # p => proc'[o] = proc[o]
BY DEF TypesInv, Goto

(* Rows are typed. *)
LEMMA Typed ==
    ASSUME TypesInv
    PROVE  /\ \A p \in Procs : proc[p] \in Request
           /\ \A a \in Admins : /\ admins[a] \in Account /\ admins[a].enabled \in BOOLEAN
                                /\ admins[a].role \in Roles \cup {NoRole} /\ admins[a].password \in Nat
           /\ \A s \in DOMAIN sessions : /\ s \in Nat /\ sessions[s] \in SessionRow
                                         /\ sessions[s].admin \in Admins /\ sessions[s].born \in Nat
<1>1. \A p \in Procs : proc[p] \in Request
  BY DEF TypesInv
<1>2. \A a \in Admins : /\ admins[a] \in Account /\ admins[a].enabled \in BOOLEAN
                        /\ admins[a].role \in Roles \cup {NoRole} /\ admins[a].password \in Nat
  BY DEF TypesInv, Account
<1>3. \A s \in DOMAIN sessions : /\ s \in Nat /\ sessions[s] \in SessionRow
                                 /\ sessions[s].admin \in Admins /\ sessions[s].born \in Nat
  <2> TAKE s \in DOMAIN sessions
  <2>1. s \in Nat /\ sessions[s] \in SessionRow
    BY DEF TypesInv
  <2> QED
    BY <2>1 DEF SessionRow
<1> QED
  BY <1>1, <1>2, <1>3

(* The place of a request changes, nothing else of it. *)
LEMMA PcMoves ==
    ASSUME NEW q \in Request,
           NEW pc \in Places,
           NEW r, r = [q EXCEPT !.pc = pc]
    PROVE  /\ r \in Request /\ r.pc = pc /\ r.op = q.op /\ r.session = q.session
           /\ r.target = q.target /\ r.arg = q.arg
BY DEF Request

(* A request that is not under way. *)
LEMMA IdleTyped == Idle \in Request /\ Idle.pc = "idle" /\ RequestSound(Idle)
BY DEF Idle, Request, Places, RequestSound

(* Requests that are not moved keep what they rely on while accounts and     *)
(* sessions are only added to.                                              *)
LEMMA RequestStable ==
    ASSUME NEW q, RequestSound(q), UNCHANGED database,
           DOMAIN sessions \subseteq DOMAIN sessions',
           \A a \in Admins : Exists(a) => Exists(a)',
           database = "sqlite" /\ q.pc = "write" => admins' = admins
    PROVE  RequestSound(q)'
<1>1. database = "sqlite" /\ q.pc = "write" => (CanDemote(q.target)' <=> CanDemote(q.target))
  BY DEF CanDemote
<1> QED
  BY <1>1 DEF RequestSound, Demotes

(* A step that leaves the accounts and their sessions alone. *)
LEMMA QuietStep ==
    ASSUME AdminInv, TypesInv', RequestsInv',
           UNCHANGED <<database, admins, grant, chosen, sessions, changer>>,
           \A p \in Procs : proc'[p].pc = "setup" => proc[p].pc = "setup" \/ ~chosen
    PROVE  AdminInv'
<1>1. AccountsInv'
  BY DEF AdminInv, AccountsInv, Exists
<1>2. OneSetup'
  BY DEF AdminInv, OneSetup, Exists, At
<1>3. AdministratorRemains' /\ PasswordChangeEvicts'
  BY DEF AdminInv, AdministratorRemains, PasswordChangeEvicts
<1> QED
  BY <1>1, <1>2, <1>3 DEF AdminInv

(* One request moves and nothing is written. *)
LEMMA MoveStep ==
    ASSUME AdminInv, NEW p \in Procs, NEW q \in Request, Goto(p, q),
           UNCHANGED <<database, admins, grant, chosen, sessions, changer>>,
           conn' \in Procs \cup {Nobody}, advisory' \in Procs \cup {Nobody},
           RequestSound(q), q.pc = "setup" => ~chosen,
           Locks'
    PROVE  AdminInv'
<1>1. /\ proc' \in [Procs -> Request] /\ proc'[p] = q
      /\ \A o \in Procs : o # p => proc'[o] = proc[o]
  BY GotoMoves DEF AdminInv
<1>2. TypesInv'
  BY <1>1 DEF AdminInv, TypesInv
<1>3. ASSUME NEW o \in Procs PROVE RequestSound(proc[o])'
  <2>1. PICK r : r = proc'[o]
    OBVIOUS
  <2>2. RequestSound(r)
    BY <1>1, <2>1 DEF AdminInv, RequestsInv
  <2>3. RequestSound(r)'
    BY <2>2, RequestStable DEF Exists
  <2> QED
    BY <2>1, <2>3
<1>4. RequestsInv'
  BY <1>3 DEF RequestsInv
<1> QED
  BY <1>1, <1>2, <1>4, QuietStep

(* It takes or frees neither the connection nor the advisory lock. *)
LEMMA StayStep ==
    ASSUME AdminInv, NEW p \in Procs, NEW q \in Request, Goto(p, q),
           UNCHANGED <<database, admins, grant, chosen, sessions, changer, conn, advisory>>,
           RequestSound(q), q.pc \notin {"setup", "write"}, proc[p].pc \notin {"setup", "write"}
    PROVE  AdminInv'
<1>1. /\ proc'[p] = q /\ \A o \in Procs : o # p => proc'[o] = proc[o]
  BY GotoMoves DEF AdminInv
<1>2. Locks'
  BY <1>1 DEF AdminInv, RequestsInv, Locks, HeldBy
<1>3. conn' \in Procs \cup {Nobody} /\ advisory' \in Procs \cup {Nobody}
  BY DEF AdminInv, TypesInv
<1> QED
  BY <1>2, <1>3, MoveStep

-----------------------------------------------------------------------------
(* The requests, one by one *)

(* The count of administrators begins the set-up's transaction. *)
LEMMA SetupCountKeeps ==
    ASSUME AdminInv, NEW p \in Procs, NEW a \in Admins, NEW via \in {"setup", "cli"}, SetupCount(p, a, via)
    PROVE  AdminInv'
<1>1. PICK q : q = [Idle EXCEPT !.pc = "setup", !.op = via, !.target = a]
  OBVIOUS
<1>2. q \in Request /\ q.pc = "setup" /\ q.op = via /\ q.target = a
  BY <1>1 DEF Idle, Request, Places
<1>3. /\ Goto(p, q) /\ proc[p].pc = "idle" /\ UNCHANGED <<database, store>>
      /\ \A b \in Admins : ~Exists(b)
      /\ advisory' = IF database = "postgres" THEN p ELSE advisory
      /\ database = "postgres" => advisory = Nobody
      /\ conn' = IF database = "sqlite" THEN p ELSE conn
      /\ database = "sqlite" => conn \in {Nobody, p}
  BY <1>1 DEF SetupCount, Begin, At, Enter, CanRun, setting
<1>4. /\ proc'[p] = q /\ \A o \in Procs : o # p => proc'[o] = proc[o]
  BY <1>2, <1>3, GotoMoves DEF AdminInv
<1>5. Locks'
  BY <1>2, <1>3, <1>4, AdminAssumption DEF AdminInv, RequestsInv, Locks, HeldBy, TypesInv
<1>6. ~chosen
  BY <1>3 DEF AdminInv, OneSetup
<1>7. RequestSound(q)
  BY <1>2 DEF RequestSound
<1>8. conn' \in Procs \cup {Nobody} /\ advisory' \in Procs \cup {Nobody}
  BY <1>3 DEF AdminInv, TypesInv
<1> QED
  BY <1>2, <1>3, <1>5, <1>6, <1>7, <1>8, MoveStep DEF store

(* A login and the status page begin with a reload. *)
LEMMA LoginKeeps ==
    ASSUME AdminInv, NEW p \in Procs,
           (\E a \in Admins : Login(p, a)) \/ SetupRequired(p)
    PROVE  AdminInv'
<1>1. PICK q \in Request : /\ Goto(p, q) /\ q.pc = "reload" /\ q.op \in {"login", "status"}
                           /\ q.op = "login" => q.target \in Admins
  <2>1. ASSUME NEW a \in Admins, NEW q, q = [Idle EXCEPT !.pc = "reload", !.op = "login", !.target = a]
        PROVE  q \in Request /\ q.pc = "reload" /\ q.op = "login" /\ q.target = a
    BY <2>1 DEF Idle, Request, Places
  <2>2. ASSUME NEW q, q = [Idle EXCEPT !.pc = "reload", !.op = "status"]
        PROVE  q \in Request /\ q.pc = "reload" /\ q.op = "status"
    BY <2>2 DEF Idle, Request, Places
  <2>3. CASE \E a \in Admins : Login(p, a)
    BY <2>1, <2>3 DEF Login
  <2>4. CASE SetupRequired(p)
    BY <2>2, <2>4 DEF SetupRequired
  <2> QED
    BY <2>3, <2>4
<1>2. proc[p].pc = "idle" /\ UNCHANGED <<database, store, conn, advisory>>
  BY DEF Login, SetupRequired, Begin, At, setting
<1>3. RequestSound(q)
  BY <1>1 DEF RequestSound
<1> QED
  BY <1>1, <1>2, <1>3, StayStep DEF store

(* What an update may ask for. *)
LEMMA UpdatesTyped == Updates \subseteq Change
<1> SUFFICES ASSUME NEW u \in Updates PROVE u \in Change
  OBVIOUS
<1>1. CASE \E r \in Roles : u = [enabled |-> TRUE, role |-> r]
  BY <1>1 DEF Change
<1>2. CASE u = [enabled |-> FALSE, role |-> "administrator"]
  BY <1>2 DEF Change, Roles
<1> QED
  BY <1>1, <1>2 DEF Updates

(* A mutation comes from a session, and asks for something sensible. *)
LEMMA AuthorizeKeeps ==
    ASSUME AdminInv, NEW p \in Procs, NEW s \in DOMAIN sessions, NEW m \in Mutations(s),
           Authorize(p, s, m[1], m[2], m[3])
    PROVE  AdminInv'
<1>0. s \in Nat /\ sessions[s].admin \in Admins /\ admins[sessions[s].admin].password \in Nat
  BY Typed DEF AdminInv
<1>1. PICK op, target, arg :
          /\ op = m[1] /\ target = m[2] /\ arg = m[3]
          /\ op \in Mutating
          /\ target \in Admins
          /\ arg \in {Nobody} \cup Nat \cup Roles \cup Change
          /\ op = "create" => arg \in Roles
          /\ op = "update" => arg \in Change
  BY <1>0, UpdatesTyped DEF Mutations, Mutating
<1>2. PICK q : q = [pc |-> "begin", op |-> op, session |-> s, target |-> target, arg |-> arg]
  OBVIOUS
<1>3. q \in Request /\ q.pc = "begin" /\ q.op = op /\ q.session = s /\ q.target = target /\ q.arg = arg
  BY <1>0, <1>1, <1>2 DEF Request, Places
<1>4. /\ Goto(p, q) /\ proc[p].pc = "idle"
      /\ UNCHANGED <<database, store, conn, advisory>>
  BY <1>1, <1>2 DEF Authorize, Begin, At, setting
<1>5. RequestSound(q)
  BY <1>1, <1>3 DEF RequestSound
<1> QED
  BY <1>3, <1>4, <1>5, StayStep DEF store

(* A credential is accepted. *)
LEMMA UseCredentialKeeps ==
    ASSUME AdminInv, NEW p \in Procs, NEW c \in Nat, UseCredential(p, c)
    PROVE  AdminInv'
<1>1. PICK q : q = [Idle EXCEPT !.pc = "note", !.op = "credential", !.session = c]
  OBVIOUS
<1>2. q \in Request /\ q.pc = "note"
  BY <1>1 DEF Idle, Request, Places
<1>3. /\ Goto(p, q) /\ proc[p].pc = "idle"
      /\ UNCHANGED <<database, store, conn, advisory>>
  BY <1>1 DEF UseCredential, Begin, At, setting
<1>4. RequestSound(q)
  BY <1>2 DEF RequestSound
<1> QED
  BY <1>2, <1>3, <1>4, StayStep DEF store

(* A mutation begins its transaction and reads what decides whether it goes on. *)
LEMMA BeginMutationKeeps ==
    ASSUME AdminInv, NEW p \in Procs, BeginMutation(p)
    PROVE  AdminInv'
<1>0. proc[p] \in Request /\ RequestSound(proc[p]) /\ HeldBy(p, proc[p].pc) /\ proc[p].pc = "begin"
  BY Typed DEF AdminInv, RequestsInv, Locks, BeginMutation, At
<1>1. UNCHANGED <<database, store, advisory>>
  BY DEF BeginMutation, setting
<1>2. CASE Goto(p, Idle) /\ UNCHANGED conn
  BY <1>0, <1>1, <1>2, IdleTyped, StayStep DEF store
<1>3. CASE /\ Permitted(proc[p].op, proc[p].session, proc[p].target, proc[p].arg)
           /\ Enter(p) /\ Goto(p, [proc[p] EXCEPT !.pc = "write"])
  <2>1. PICK q : q = [proc[p] EXCEPT !.pc = "write"]
    OBVIOUS
  <2>2. /\ q \in Request /\ q.pc = "write" /\ q.op = proc[p].op /\ q.session = proc[p].session
        /\ q.target = proc[p].target /\ q.arg = proc[p].arg
    BY <1>0, <2>1, PcMoves DEF Places
  <2>3. RequestSound(q)
    BY <1>0, <1>3, <2>2 DEF RequestSound, Permitted, Demotes
  <2>4. /\ Goto(p, q) /\ conn' = IF database = "sqlite" THEN p ELSE conn
        /\ database = "sqlite" => conn \in {Nobody, p}
    BY <1>3, <2>1 DEF BeginMutation, Enter, CanRun
  <2>5. /\ proc'[p] = q /\ \A o \in Procs : o # p => proc'[o] = proc[o]
    BY <2>2, <2>4, GotoMoves DEF AdminInv
  <2>6. Locks'
    BY <1>0, <1>1, <2>2, <2>4, <2>5, AdminAssumption DEF AdminInv, RequestsInv, Locks, HeldBy, TypesInv
  <2>7. conn' \in Procs \cup {Nobody} /\ advisory' \in Procs \cup {Nobody}
    BY <1>1, <2>4 DEF AdminInv, TypesInv
  <2> QED
    BY <1>0, <1>1, <2>2, <2>3, <2>4, <2>6, <2>7, MoveStep DEF store
<1> QED
  BY <1>2, <1>3 DEF BeginMutation

(* Nobody moves, and neither the accounts nor the sessions are written. *)
LEMMA ReadsKeep ==
    ASSUME AdminInv, UNCHANGED <<database, admins, grant, chosen, sessions, changer, proc, conn, advisory>>
    PROVE  AdminInv'
<1>1. TypesInv'
  BY DEF AdminInv, TypesInv
<1>2. RequestsInv'
  BY DEF AdminInv, RequestsInv, Locks, HeldBy, RequestSound, Exists, CanDemote
<1> QED
  BY <1>1, <1>2, QuietStep

(* The steps of a reload write nothing; what was read may be installed. *)
LEMMA LoadKeeps ==
    ASSUME AdminInv, NEW p \in Procs,
           LoadAccounts(p) \/ (\E a \in Admins : AccountRoles(p, a)) \/ LoadRoles(p)
    PROVE  AdminInv'
<1>0. proc[p] \in Request /\ RequestSound(proc[p])
  BY Typed DEF AdminInv, RequestsInv
<1>1. UNCHANGED <<database, store, conn, advisory>>
  BY DEF LoadAccounts, AccountRoles, LoadRoles, setting
<1>2. CASE \E a \in Admins : AccountRoles(p, a)
  BY <1>1, <1>2, ReadsKeep DEF AccountRoles, store
<1>3. CASE LoadAccounts(p) \/ LoadRoles(p)
  <2>1. PICK pc \in {"roles", "install"} :
            Goto(p, [proc[p] EXCEPT !.pc = pc]) /\ proc[p].pc \in {"reload", "roles"}
    BY <1>3 DEF LoadAccounts, LoadRoles, At
  <2>2. PICK q : q = [proc[p] EXCEPT !.pc = pc]
    OBVIOUS
  <2>3. q \in Request /\ q.pc = pc /\ q.op = proc[p].op /\ q.target = proc[p].target
    BY <1>0, <2>2, PcMoves DEF Places
  <2>4. RequestSound(q)
    BY <1>0, <2>1, <2>3 DEF RequestSound
  <2> QED
    BY <1>1, <2>1, <2>2, <2>3, <2>4, StayStep DEF store
<1> QED
  BY <1>2, <1>3

(* Where a request goes after its reload. *)
LEMMA ContinueGoes ==
    ASSUME AdminInv, NEW p \in Procs, proc[p].pc = "install", Continue(p)
    PROVE  \E q \in Request : Goto(p, q) /\ q.pc \in {"issue", "check", "idle"} /\ RequestSound(q)
<1>0. proc[p] \in Request /\ RequestSound(proc[p])
  BY Typed DEF AdminInv, RequestsInv
<1>1. CASE Goto(p, Idle)
  BY <1>1, IdleTyped
<1>2. ASSUME NEW pc \in {"issue", "check"}, Goto(p, [proc[p] EXCEPT !.pc = pc]),
             pc = "issue" => proc[p].op = "setup", pc = "check" => proc[p].op = "login"
      PROVE  \E q \in Request : Goto(p, q) /\ q.pc \in {"issue", "check", "idle"} /\ RequestSound(q)
  <2>1. PICK q : q = [proc[p] EXCEPT !.pc = pc]
    OBVIOUS
  <2>2. q \in Request /\ q.pc = pc /\ q.op = proc[p].op /\ q.target = proc[p].target
    BY <1>0, <2>1, PcMoves DEF Places
  <2>3. RequestSound(q)
    BY <1>0, <1>2, <2>2 DEF RequestSound
  <2> QED
    BY <1>2, <2>1, <2>2, <2>3
<1> QED
  BY <1>1, <1>2 DEF Continue

(* What was read is installed, or the reload fails. *)
LEMMA InstallKeeps ==
    ASSUME AdminInv, NEW p \in Procs, Install(p) \/ ReloadFails(p)
    PROVE  AdminInv'
<1>1. UNCHANGED <<database, store, conn, advisory>> /\ proc[p].pc \in {"reload", "roles", "install"}
  BY DEF Install, ReloadFails, Reloading, At, setting
<1>2. CASE Install(p)
  BY <1>1, <1>2, ContinueGoes, StayStep DEF Install, At, store
<1>3. CASE ReloadFails(p)
  BY <1>1, <1>3, IdleTyped, StayStep DEF ReloadFails, store
<1> QED
  BY <1>2, <1>3

(* A login whose password the model accepts: its account exists. *)
LEMMA AuthenticatePasswordKeeps ==
    ASSUME AdminInv, CopiesInv, NEW p \in Procs, AuthenticatePassword(p)
    PROVE  AdminInv'
<1>0. proc[p] \in Request /\ RequestSound(proc[p]) /\ proc[p].pc = "check"
  BY Typed DEF AdminInv, RequestsInv, AuthenticatePassword, At
<1>1. PICK a \in Admins : a = proc[p].target /\ Exists(a) /\ cache.admins[a].password \in Nat
  BY <1>0 DEF AuthenticatePassword, RequestSound, CopiesInv, Model, Account
<1>2. PICK q : q = [proc[p] EXCEPT !.pc = "issue", !.arg = cache.admins[a].password]
  OBVIOUS
<1>3. q \in Request /\ q.pc = "issue" /\ q.target = a
  BY <1>0, <1>1, <1>2 DEF Request, Places
<1>4. Goto(p, q) /\ UNCHANGED <<database, store, conn, advisory>>
  BY <1>1, <1>2 DEF AuthenticatePassword, setting
<1>5. RequestSound(q)
  BY <1>1, <1>3 DEF RequestSound
<1> QED
  BY <1>0, <1>3, <1>4, <1>5, StayStep DEF store

(* The use of a credential is noted. *)
LEMMA NoteUseKeeps ==
    ASSUME AdminInv, NEW p \in Procs, NoteUse(p)
    PROVE  AdminInv'
<1>1. /\ Goto(p, Idle) /\ proc[p].pc = "note"
      /\ UNCHANGED <<database, admins, grant, chosen, sessions, changer, conn, advisory>>
  BY DEF NoteUse, At, setting
<1> QED
  BY <1>1, IdleTyped, StayStep

(* A request leaves its transaction: what it held is free again. *)
LEMMA LeaveFrees ==
    ASSUME AdminInv, NEW p \in Procs, NEW q \in Request, Goto(p, q), UNCHANGED database,
           q.pc \notin {"setup", "write"},
           Leave(p), database = "sqlite" => conn \in {Nobody, p}
    PROVE  Locks' /\ conn' \in Procs \cup {Nobody} /\ advisory' \in Procs \cup {Nobody}
<1>1. /\ proc'[p] = q /\ \A o \in Procs : o # p => proc'[o] = proc[o]
  BY GotoMoves DEF AdminInv
<1>2. conn' = Nobody /\ advisory' = IF advisory = p THEN Nobody ELSE advisory
  BY DEF Leave
<1>3. Locks'
  <2> SUFFICES ASSUME NEW o \in Procs PROVE HeldBy(o, proc[o].pc)'
    BY DEF Locks
  <2>1. HeldBy(o, proc[o].pc) /\ HeldBy(p, proc[p].pc) /\ database \in {"sqlite", "postgres"}
    BY DEF AdminInv, RequestsInv, Locks, TypesInv
  <2>2. CASE o = p
    BY <1>1, <1>2, <2>1, <2>2, AdminAssumption DEF HeldBy
  <2>3. CASE o # p
    BY <1>1, <1>2, <2>1, <2>3, AdminAssumption DEF HeldBy
  <2> QED
    BY <2>2, <2>3
<1>4. conn' \in Procs \cup {Nobody} /\ advisory' \in Procs \cup {Nobody}
  BY <1>2 DEF AdminInv, TypesInv
<1> QED
  BY <1>3, <1>4

(* A request that is given up rolls back. *)
LEMMA AbortKeeps ==
    ASSUME AdminInv, NEW p \in Procs, Abort(p)
    PROVE  AdminInv'
<1>1. /\ Goto(p, Idle) /\ proc[p].pc \in {"setup", "begin", "write", "check", "issue"}
      /\ UNCHANGED <<database, store>>
  BY DEF Abort, setting
<1>2. Idle \in Request /\ Idle.pc = "idle" /\ RequestSound(Idle)
  BY IdleTyped
<1>3. CASE Leave(p) /\ (conn = p \/ advisory = p)
  <2>1. database = "sqlite" => conn \in {Nobody, p}
    BY <1>3 DEF AdminInv, RequestsInv, Locks, HeldBy, TypesInv
  <2> QED
    BY <1>1, <1>2, <1>3, <2>1, LeaveFrees, MoveStep DEF store
<1>4. CASE UNCHANGED <<conn, advisory>> /\ conn # p /\ advisory # p
  <2>1. /\ proc'[p] = Idle /\ \A o \in Procs : o # p => proc'[o] = proc[o]
    BY <1>1, <1>2, GotoMoves DEF AdminInv
  <2>2. Locks'
    <3> SUFFICES ASSUME NEW o \in Procs PROVE HeldBy(o, proc[o].pc)'
      BY DEF Locks
    <3>1. HeldBy(o, proc[o].pc) /\ database \in {"sqlite", "postgres"}
      BY DEF AdminInv, RequestsInv, Locks, TypesInv
    <3>2. CASE o = p
      BY <1>1, <1>2, <1>4, <2>1, <3>1, <3>2 DEF HeldBy
    <3>3. CASE o # p
      BY <1>1, <1>4, <2>1, <3>1, <3>3 DEF HeldBy
    <3> QED
      BY <3>2, <3>3
  <2>3. conn' \in Procs \cup {Nobody} /\ advisory' \in Procs \cup {Nobody}
    BY <1>4 DEF AdminInv, TypesInv
  <2> QED
    BY <1>1, <1>2, <2>2, <2>3, MoveStep DEF store
<1> QED
  BY <1>3, <1>4 DEF Abort

-----------------------------------------------------------------------------
(* Sessions *)

(* What becomes of session s: it may end, and is otherwise the same session. *)
Ends(s) ==
    /\ s \in DOMAIN sessions
    /\ sessions'[s].admin = sessions[s].admin /\ sessions'[s].born = sessions[s].born
    /\ sessions[s].revoked => sessions'[s].revoked

(* A new session is of an account that exists, with its present password. *)
Fresh(s) ==
    LET a == sessions'[s].admin
    IN  a \in Admins /\ Exists(a) /\ sessions'[s].born = admins[a].password

(* Sessions are opened and ended; nothing is written to the accounts. *)
LEMMA SessionsStep ==
    ASSUME AdminInv, sessions' \in Seq(SessionRow), DOMAIN sessions \subseteq DOMAIN sessions',
           \A s \in DOMAIN sessions' : Ends(s) \/ Fresh(s),
           UNCHANGED <<database, admins, grant, chosen, changer, conn, advisory>>,
           UNCHANGED proc \/ \E p \in Procs : Goto(p, Idle) /\ proc[p].pc = "issue"
    PROVE  AdminInv'
<1>0. Idle \in Request /\ Idle.pc = "idle" /\ RequestSound(Idle)
  BY IdleTyped
<1>1. /\ proc' \in [Procs -> Request]
      /\ \A o \in Procs : \/ proc'[o] = proc[o]
                          \/ proc'[o] = Idle /\ proc[o].pc = "issue"
  <2>1. CASE UNCHANGED proc
    BY <2>1 DEF AdminInv, TypesInv
  <2>2. CASE \E p \in Procs : Goto(p, Idle) /\ proc[p].pc = "issue"
    BY <1>0, <2>2, GotoMoves DEF AdminInv
  <2> QED
    BY <2>1, <2>2
<1>2. TypesInv'
  BY <1>1 DEF AdminInv, TypesInv
<1>3. AccountsInv'
  BY DEF AdminInv, AccountsInv, Ends, Fresh, Exists
<1>4. PasswordChangeEvicts'
  <2> SUFFICES ASSUME database = "sqlite", NEW s \in DOMAIN sessions', ~sessions'[s].revoked,
                      sessions'[s].born < admins[sessions'[s].admin].password
               PROVE  s = changer[sessions'[s].admin]
    BY DEF PasswordChangeEvicts
  <2>1. CASE Ends(s)
    BY <2>1 DEF Ends, AdminInv, PasswordChangeEvicts
  <2>2. CASE Fresh(s)
    BY <2>2, Typed DEF Fresh, AdminInv
  <2> QED
    BY <2>1, <2>2
<1>5. RequestsInv'
  <2>1. ASSUME NEW o \in Procs PROVE RequestSound(proc[o])'
    <3>1. PICK r : r = proc'[o]
      OBVIOUS
    <3>2. RequestSound(r)
      BY <1>0, <1>1, <3>1 DEF AdminInv, RequestsInv
    <3>3. RequestSound(r)'
      BY <3>2, RequestStable DEF Exists
    <3> QED
      BY <3>1, <3>3
  <2>2. ASSUME NEW o \in Procs PROVE HeldBy(o, proc[o].pc)'
    BY <1>0, <1>1 DEF AdminInv, RequestsInv, Locks, HeldBy
  <2> QED
    BY <2>1, <2>2 DEF RequestsInv, Locks
<1>6. OneSetup' /\ AdministratorRemains'
  BY <1>0, <1>1 DEF AdminInv, OneSetup, AdministratorRemains, At, Exists
<1> QED
  BY <1>2, <1>3, <1>4, <1>5, <1>6 DEF AdminInv

(* A login or the set-up opens its session. *)
LEMMA IssueSessionKeeps ==
    ASSUME AdminInv, NEW p \in Procs, IssueSession(p)
    PROVE  AdminInv'
<1>1. /\ Goto(p, Idle) /\ proc[p].pc = "issue"
      /\ UNCHANGED <<database, admins, grant, chosen, changer, conn, advisory>>
  BY DEF IssueSession, At, setting
<1>2. PICK a : a = proc[p].target /\ a \in Admins /\ Exists(a)
  BY <1>1 DEF AdminInv, RequestsInv, RequestSound
<1>3. PICK w : w = admins[a].password /\ w \in Nat
  BY <1>2, Typed DEF AdminInv
<1>4. PICK row : row = [admin |-> a, revoked |-> FALSE, expired |-> FALSE, born |-> w]
  OBVIOUS
<1>5. row \in SessionRow /\ row.admin = a /\ row.born = w
  BY <1>2, <1>3, <1>4 DEF SessionRow
<1>6. sessions' = Append(sessions, row) /\ sessions \in Seq(SessionRow)
  BY <1>2, <1>3, <1>4 DEF IssueSession, AdminInv, TypesInv
<1>7. /\ sessions' \in Seq(SessionRow) /\ DOMAIN sessions \subseteq DOMAIN sessions'
      /\ \A s \in DOMAIN sessions' : \/ s \in DOMAIN sessions /\ sessions'[s] = sessions[s]
                                     \/ sessions'[s] = row
  BY <1>5, <1>6
<1>8. \A s \in DOMAIN sessions' : Ends(s) \/ Fresh(s)
  BY <1>2, <1>3, <1>5, <1>7 DEF Ends, Fresh
<1> QED
  BY <1>1, <1>7, <1>8, SessionsStep

(* A session is revoked or runs out. *)
LEMMA EndKeeps ==
    ASSUME AdminInv, NEW s \in DOMAIN sessions,
           \/ sessions' = [sessions EXCEPT ![s].revoked = TRUE]
           \/ sessions' = [sessions EXCEPT ![s].expired = TRUE],
           UNCHANGED <<database, admins, grant, chosen, changer, proc, conn, advisory>>
    PROVE  AdminInv'
<1>1. sessions[s] \in SessionRow /\ sessions \in Seq(SessionRow)
  BY Typed DEF AdminInv, TypesInv
<1>2. PICK row : /\ row \in SessionRow /\ row.admin = sessions[s].admin /\ row.born = sessions[s].born
                 /\ sessions[s].revoked => row.revoked
                 /\ sessions' = [sessions EXCEPT ![s] = row]
  <2>1. CASE sessions' = [sessions EXCEPT ![s].revoked = TRUE]
    <3>1. PICK row : row = [sessions[s] EXCEPT !.revoked = TRUE]
      OBVIOUS
    <3>2. /\ row \in SessionRow /\ row.admin = sessions[s].admin /\ row.born = sessions[s].born
          /\ row.revoked
      BY <1>1, <3>1 DEF SessionRow
    <3> QED
      BY <2>1, <3>1, <3>2
  <2>2. CASE sessions' = [sessions EXCEPT ![s].expired = TRUE]
    <3>1. PICK row : row = [sessions[s] EXCEPT !.expired = TRUE]
      OBVIOUS
    <3>2. /\ row \in SessionRow /\ row.admin = sessions[s].admin /\ row.born = sessions[s].born
          /\ row.revoked = sessions[s].revoked
      BY <1>1, <3>1 DEF SessionRow
    <3> QED
      BY <2>2, <3>1, <3>2
  <2> QED
    BY <2>1, <2>2
<1>3. /\ sessions' \in Seq(SessionRow) /\ DOMAIN sessions' = DOMAIN sessions
      /\ \A t \in DOMAIN sessions : sessions'[t] = IF t = s THEN row ELSE sessions[t]
  BY <1>1, <1>2
<1>4. \A t \in DOMAIN sessions' : Ends(t)
  BY <1>2, <1>3 DEF Ends
<1> QED
  BY <1>3, <1>4, SessionsStep

-----------------------------------------------------------------------------
(* Writes to the accounts *)

(* One account is written, by a request that leaves its transaction. *)
Writes(p, target) ==
    /\ admins' \in [Admins -> Account]
    /\ \A a \in Admins : a # target => admins'[a] = admins[a]
    /\ Exists(target) => Exists(target)'
    /\ admins'[target].enabled => Exists(target)'
    /\ Leave(p) /\ UNCHANGED database

(* What the accounts and the other requests keep when one of them is         *)
(* written: nobody else is inside SQLite's transaction.                      *)
LEMMA WriteStep ==
    ASSUME AdminInv, NEW p \in Procs, NEW target \in Admins, NEW q \in Request,
           Goto(p, q), Writes(p, target), RequestSound(q)', q.pc \notin {"setup", "write"},
           proc[p].pc \in {"setup", "write"}, UNCHANGED DOMAIN sessions
    PROVE  /\ proc' \in [Procs -> Request] /\ RequestsInv'
           /\ conn' \in Procs \cup {Nobody} /\ advisory' \in Procs \cup {Nobody}
           /\ \A a \in Admins : (Exists(a) => Exists(a)') /\ (admins'[a].enabled => Exists(a)')
           /\ proc'[p] = q
           /\ \A o \in Procs : o # p => proc'[o] = proc[o]
<1>1. /\ proc' \in [Procs -> Request] /\ proc'[p] = q
      /\ \A o \in Procs : o # p => proc'[o] = proc[o]
  BY GotoMoves DEF AdminInv
<1>2. \A a \in Admins : (Exists(a) => Exists(a)') /\ (admins'[a].enabled => Exists(a)')
  BY DEF Writes, Exists, AdminInv, AccountsInv
<1>3. database = "sqlite" => conn = p
  BY DEF AdminInv, RequestsInv, Locks, HeldBy
<1>4. Locks' /\ conn' \in Procs \cup {Nobody} /\ advisory' \in Procs \cup {Nobody}
  BY <1>3, LeaveFrees DEF Writes
<1>5. ASSUME NEW o \in Procs PROVE RequestSound(proc[o])'
  <2>1. CASE o = p
    BY <1>1, <2>1
  <2>2. CASE o # p
    <3>1. PICK r : r = proc[o] /\ r = proc'[o] /\ RequestSound(r)
      BY <1>1, <2>2 DEF AdminInv, RequestsInv
    <3>2. database = "sqlite" => r.pc # "write"
      BY <1>3, <2>2, <3>1 DEF AdminInv, RequestsInv, Locks, HeldBy
    <3>3. RequestSound(r)'
      BY <1>2, <3>1, <3>2, RequestStable DEF Writes
    <3> QED
      BY <3>1, <3>3
  <2> QED
    BY <2>1, <2>2
<1> QED
  BY <1>1, <1>2, <1>4, <1>5 DEF RequestsInv

(* The first administrator is inserted, with the policy. *)
LEMMA SetupCommitKeeps ==
    ASSUME AdminInv, NEW p \in Procs, SetupCommit(p)
    PROVE  AdminInv'
<1>0. proc[p] \in Request /\ RequestSound(proc[p]) /\ HeldBy(p, proc[p].pc) /\ proc[p].pc = "setup"
  BY Typed DEF AdminInv, RequestsInv, Locks, SetupCommit, At
<1>1. PICK target \in Admins : target = proc[p].target
  BY <1>0 DEF RequestSound
<1>2. Leave(p) /\ UNCHANGED <<database, grant, sessions, changer>>
  BY DEF SetupCommit, setting
<1>3. Idle \in Request /\ Idle.pc = "idle" /\ RequestSound(Idle)
  BY IdleTyped
<1>4. CASE Exists(target) /\ Goto(p, Idle) /\ UNCHANGED <<admins, chosen>>
  <2>1. database = "sqlite" => conn \in {Nobody, p}
    BY <1>0 DEF HeldBy
  <2> QED
    BY <1>0, <1>2, <1>3, <1>4, <2>1, LeaveFrees, MoveStep
<1>5. CASE /\ ~Exists(target) /\ chosen' = TRUE
           /\ admins' = [admins EXCEPT ![target] =
                             [enabled |-> TRUE, role |-> "administrator", password |-> 1]]
           /\ \/ /\ proc[p].op = "setup"
                 /\ Goto(p, [proc[p] EXCEPT !.pc = "reload"])
              \/ proc[p].op = "cli" /\ Goto(p, Idle)
  <2>1. PICK row : row = [enabled |-> TRUE, role |-> "administrator", password |-> 1]
    OBVIOUS
  <2>2. row \in Account /\ row.enabled /\ row.role = "administrator"
    BY <2>1 DEF Account, Roles
  <2>3. /\ admins' \in [Admins -> Account] /\ admins'[target] = row
        /\ \A a \in Admins : a # target => admins'[a] = admins[a]
    BY <1>5, <2>1, <2>2 DEF AdminInv, TypesInv
  <2>4. Writes(p, target)
    BY <1>2, <2>2, <2>3 DEF Writes, Exists, NoRole
  <2>5. PICK q \in Request : /\ Goto(p, q) /\ q.pc \in {"reload", "idle"} /\ RequestSound(q)'
    <3>1. CASE proc[p].op = "cli" /\ Goto(p, Idle)
      <4>1. RequestSound(Idle)'
        BY <1>3 DEF RequestSound
      <4> QED
        BY <1>3, <3>1, <4>1
    <3>2. CASE proc[p].op = "setup" /\ Goto(p, [proc[p] EXCEPT !.pc = "reload"])
      <4>1. PICK q : q = [proc[p] EXCEPT !.pc = "reload"]
        OBVIOUS
      <4>2. q \in Request /\ q.pc = "reload" /\ q.target = target /\ q.op = "setup"
        BY <1>0, <1>1, <3>2, <4>1, PcMoves DEF Places
      <4>3. RequestSound(q)'
        BY <2>2, <2>3, <4>2 DEF RequestSound, Exists, NoRole
      <4> QED
        BY <3>2, <4>1, <4>2, <4>3
    <3> QED
      BY <1>5, <3>1, <3>2
  <2>6. /\ proc' \in [Procs -> Request] /\ RequestsInv'
        /\ conn' \in Procs \cup {Nobody} /\ advisory' \in Procs \cup {Nobody}
        /\ \A a \in Admins : (Exists(a) => Exists(a)') /\ (admins'[a].enabled => Exists(a)')
        /\ proc'[p] = q
        /\ \A o \in Procs : o # p => proc'[o] = proc[o]
    BY <1>0, <1>2, <2>4, <2>5, WriteStep
  <2>7. TypesInv'
    BY <1>2, <1>5, <2>3, <2>5, <2>6 DEF AdminInv, TypesInv
  <2>8. AccountsInv'
    BY <1>2, <2>6, Typed DEF AdminInv, AccountsInv
  <2>9. OneSetup'
    <3>1. Exists(target)'
      BY <2>2, <2>3 DEF Exists, NoRole
    <3>2. ASSUME NEW o \in Procs PROVE proc'[o].pc # "setup"
      BY <1>0, <2>5, <2>6, AdminAssumption DEF AdminInv, RequestsInv, Locks, HeldBy, TypesInv
    <3> QED
      BY <1>5, <3>1, <3>2 DEF OneSetup, At
  <2>10. AdministratorRemains'
    BY <2>2, <2>3 DEF AdministratorRemains
  <2>11. PasswordChangeEvicts'
    <3>1. \A s \in DOMAIN sessions : sessions[s].admin # target /\ sessions[s].admin \in Admins
      BY <1>5, Typed DEF AdminInv, AccountsInv
    <3> QED
      BY <1>2, <2>3, <3>1 DEF AdminInv, PasswordChangeEvicts
  <2> QED
    BY <2>6, <2>7, <2>8, <2>9, <2>10, <2>11 DEF AdminInv
<1> QED
  BY <1>1, <1>4, <1>5 DEF SetupCommit

(* What a mutation does to the account it is about: the account and its      *)
(* password, and with them the administrators, change as the request asked.  *)
LEMMA AccountWritten ==
    ASSUME AdminInv, NEW op, NEW target \in Admins, NEW arg,
           op = "create" => arg \in Roles, op = "update" => arg \in Change,
           WriteAccount(op, target, arg)
    PROVE  /\ admins' \in [Admins -> Account]
           /\ \A a \in Admins : a # target => admins'[a] = admins[a]
           /\ Exists(target) => Exists(target)'
           /\ admins'[target].enabled => Exists(target)'
           /\ op \notin {"create", "reset", "password"} => admins'[target].password = admins[target].password
           /\ \/ op = "update" /\ admins'[target].enabled = arg.enabled /\ admins'[target].role = arg.role
              \/ admins'[target].enabled = admins[target].enabled /\ admins'[target].role = admins[target].role
              \/ ~Exists(target)
           /\ op = "create" /\ Exists(target) => admins' = admins
<1>1. /\ admins \in [Admins -> Account] /\ admins[target] \in Account
      /\ admins[target].enabled \in BOOLEAN /\ admins[target].role \in Roles \cup {NoRole}
      /\ admins[target].password \in Nat /\ (admins[target].enabled => Exists(target))
  BY Typed DEF AdminInv, TypesInv, AccountsInv
<1>2. CASE op = "create" /\ ~Exists(target)
  <2>1. PICK row : row = [enabled |-> TRUE, role |-> arg, password |-> 1]
    OBVIOUS
  <2>2. row \in Account /\ row.role \in Roles
    BY <1>2, <2>1 DEF Account
  <2>3. admins' = [admins EXCEPT ![target] = row]
    BY <1>2, <2>1 DEF WriteAccount
  <2>4. /\ admins' \in [Admins -> Account] /\ admins'[target] = row
        /\ \A a \in Admins : a # target => admins'[a] = admins[a]
    BY <1>1, <2>2, <2>3
  <2> QED
    BY <1>2, <2>2, <2>4 DEF Exists, Roles, NoRole
<1>3. CASE op = "update"
  <2>0. arg.enabled \in BOOLEAN /\ arg.role \in Roles
    BY <1>3 DEF Change
  <2>1. PICK row : row = [[admins[target] EXCEPT !.enabled = arg.enabled] EXCEPT !.role = arg.role]
    OBVIOUS
  <2>2. /\ row \in Account /\ row.enabled = arg.enabled /\ row.role = arg.role
        /\ row.password = admins[target].password
    BY <1>1, <2>0, <2>1 DEF Account
  <2>3. admins' = [admins EXCEPT ![target].enabled = arg.enabled, ![target].role = arg.role]
    BY <1>3 DEF WriteAccount
  <2>4. admins' = [admins EXCEPT ![target] = row]
    BY <1>1, <2>1, <2>3
  <2>5. /\ admins' \in [Admins -> Account] /\ admins'[target] = row
        /\ \A a \in Admins : a # target => admins'[a] = admins[a]
    BY <1>1, <2>2, <2>4
  <2> QED
    BY <1>3, <2>0, <2>2, <2>5 DEF Exists, Roles, NoRole
<1>4. CASE op \in {"reset", "password"} /\ Exists(target)
  <2>1. PICK row : row = [admins[target] EXCEPT !.password = @ + 1]
    OBVIOUS
  <2>2. /\ row \in Account /\ row.enabled = admins[target].enabled /\ row.role = admins[target].role
    BY <1>1, <2>1 DEF Account
  <2>3. admins' = [admins EXCEPT ![target] = row]
    BY <1>4, <2>1 DEF WriteAccount
  <2>4. /\ admins' \in [Admins -> Account] /\ admins'[target] = row
        /\ \A a \in Admins : a # target => admins'[a] = admins[a]
    BY <1>1, <2>2, <2>3
  <2> QED
    BY <1>1, <1>4, <2>2, <2>4 DEF Exists
<1>5. CASE /\ ~(op = "create" /\ ~Exists(target)) /\ op # "update"
           /\ ~(op \in {"reset", "password"} /\ Exists(target))
  <2>1. admins' = admins
    BY <1>5 DEF WriteAccount
  <2> QED
    BY <1>1, <1>5, <2>1 DEF Exists
<1> QED
  BY <1>2, <1>3, <1>4, <1>5

(* The sessions after a mutation: some of the account's may have ended. *)
LEMMA SessionsEvicted ==
    ASSUME AdminInv, NEW target, NEW s
    PROVE  LET e == Evicted(target, s)
           IN  /\ e \in Seq(SessionRow) /\ DOMAIN e = DOMAIN sessions
               /\ \A t \in DOMAIN sessions :
                    /\ e[t].admin = sessions[t].admin /\ e[t].born = sessions[t].born
                    /\ sessions[t].revoked => e[t].revoked
                    /\ sessions[t].admin = target /\ t # s => e[t].revoked
<1>1. PICK n \in Nat : DOMAIN sessions = 1..n
  BY DEF AdminInv, TypesInv
<1>2. PICK e : e = Evicted(target, s)
  OBVIOUS
<1>3. ASSUME NEW t \in DOMAIN sessions
      PROVE  /\ e[t] \in SessionRow
             /\ e[t].admin = sessions[t].admin /\ e[t].born = sessions[t].born
             /\ sessions[t].revoked => e[t].revoked
             /\ sessions[t].admin = target /\ t # s => e[t].revoked
  <2>1. sessions[t] \in SessionRow
    BY Typed DEF AdminInv
  <2>2. PICK row : row = [sessions[t] EXCEPT !.revoked = TRUE]
    OBVIOUS
  <2>3. row \in SessionRow /\ row.admin = sessions[t].admin /\ row.born = sessions[t].born /\ row.revoked
    BY <2>1, <2>2 DEF SessionRow
  <2>4. e[t] = IF sessions[t].admin = target /\ t # s THEN row ELSE sessions[t]
    BY <1>2, <2>2 DEF Evicted
  <2> QED
    BY <2>1, <2>3, <2>4
<1>4. e \in [1..n -> SessionRow] /\ DOMAIN e = DOMAIN sessions
  BY <1>1, <1>2, <1>3 DEF Evicted
<1>5. e \in Seq(SessionRow)
  BY <1>1, <1>4
<1> QED
  BY <1>2, <1>3, <1>4, <1>5

(* A mutation commits. *)
LEMMA CommitMutationKeeps ==
    ASSUME AdminInv, NEW p \in Procs, CommitMutation(p)
    PROVE  AdminInv'
<1>0. proc[p] \in Request /\ RequestSound(proc[p]) /\ HeldBy(p, proc[p].pc) /\ proc[p].pc = "write"
  BY Typed DEF AdminInv, RequestsInv, Locks, CommitMutation, At
<1>1. PICK target, s, op, arg :
          /\ target \in Admins /\ s \in DOMAIN sessions
          /\ target = proc[p].target /\ s = proc[p].session /\ op = proc[p].op /\ arg = proc[p].arg
          /\ op = "create" => arg \in Roles
          /\ op = "update" => arg \in Change
          /\ op \in Mutating
  BY <1>0 DEF RequestSound
<1>2. /\ Leave(p) /\ UNCHANGED <<database, chosen>> /\ WriteAccount(op, target, arg)
      /\ grant' = IF op = "roles" THEN ~grant ELSE grant
      /\ sessions' = IF op \in {"reset", "password", "revoke"} THEN Evicted(target, s) ELSE sessions
      /\ changer' = IF op \in {"reset", "password"} THEN [changer EXCEPT ![target] = s] ELSE changer
  BY <1>1 DEF CommitMutation, setting
<1>3. PICK q : q = [proc[p] EXCEPT !.pc = "reload"]
  OBVIOUS
<1>4. q \in Request /\ q.pc = "reload" /\ q.op = op /\ Goto(p, q)
  BY <1>0, <1>1, <1>3, PcMoves DEF CommitMutation, Places
<1>5. RequestSound(q)'
  BY <1>1, <1>4 DEF RequestSound, Mutating
<1>6. /\ admins' \in [Admins -> Account]
      /\ \A a \in Admins : a # target => admins'[a] = admins[a]
      /\ Exists(target) => Exists(target)'
      /\ admins'[target].enabled => Exists(target)'
      /\ op \notin {"create", "reset", "password"} => admins'[target].password = admins[target].password
      /\ \/ op = "update" /\ admins'[target].enabled = arg.enabled /\ admins'[target].role = arg.role
         \/ admins'[target].enabled = admins[target].enabled /\ admins'[target].role = admins[target].role
         \/ ~Exists(target)
      /\ op = "create" /\ Exists(target) => admins' = admins
  <2>1. target \in Admins /\ (op = "create" => arg \in Roles) /\ (op = "update" => arg \in Change)
    BY <1>1
  <2>2. WriteAccount(op, target, arg)
    BY <1>2
  <2> QED
    BY <2>1, <2>2, AccountWritten
<1>7. /\ sessions' \in Seq(SessionRow) /\ DOMAIN sessions' = DOMAIN sessions
      /\ \A t \in DOMAIN sessions :
           /\ sessions'[t].admin = sessions[t].admin /\ sessions'[t].born = sessions[t].born
           /\ sessions[t].revoked => sessions'[t].revoked
           /\ op \in {"reset", "password"} /\ sessions[t].admin = target /\ t # s => sessions'[t].revoked
  <2>1. CASE op \in {"reset", "password", "revoke"}
    BY <1>2, <2>1, SessionsEvicted
  <2>2. CASE op \notin {"reset", "password", "revoke"}
    BY <1>2, <2>2 DEF AdminInv, TypesInv
  <2> QED
    BY <2>1, <2>2
<1>8. Writes(p, target)
  BY <1>2, <1>6 DEF Writes
<1>9. /\ proc' \in [Procs -> Request] /\ RequestsInv'
      /\ conn' \in Procs \cup {Nobody} /\ advisory' \in Procs \cup {Nobody}
      /\ \A a \in Admins : (Exists(a) => Exists(a)') /\ (admins'[a].enabled => Exists(a)')
      /\ proc'[p] = q
      /\ \A o \in Procs : o # p => proc'[o] = proc[o]
  BY <1>0, <1>1, <1>4, <1>5, <1>7, <1>8, WriteStep
<1>10. /\ changer' \in [Admins -> Nat] /\ grant' \in BOOLEAN
       /\ \A a \in Admins : changer'[a] = IF op \in {"reset", "password"} /\ a = target THEN s ELSE changer[a]
  <2>1. s \in Nat
    BY <1>1, Typed DEF AdminInv
  <2> QED
    BY <1>1, <1>2, <2>1 DEF AdminInv, TypesInv
<1>11. TypesInv'
  BY <1>2, <1>6, <1>7, <1>9, <1>10 DEF AdminInv, TypesInv
<1>12. AccountsInv'
  BY <1>7, <1>9, Typed DEF AdminInv, AccountsInv
<1>13. chosen
  BY <1>1, Typed DEF AdminInv, AccountsInv, OneSetup
<1>14. OneSetup'
  <2>1. \E a \in Admins : Exists(a)'
    BY <1>9, <1>13 DEF AdminInv, OneSetup
  <2>2. \A o \in Procs : proc'[o].pc # "setup"
    BY <1>4, <1>9, <1>13 DEF AdminInv, OneSetup, At
  <2> QED
    BY <1>2, <1>13, <2>1, <2>2 DEF OneSetup, At
<1>15. AdministratorRemains'
  <2> SUFFICES ASSUME database = "sqlite"
               PROVE  \E a \in Admins : admins'[a].enabled /\ admins'[a].role = "administrator"
    BY <1>2 DEF AdministratorRemains
  <2>1. PICK b \in Admins : admins[b].enabled /\ admins[b].role = "administrator"
    BY <1>13 DEF AdminInv, AdministratorRemains
  <2>2. CASE b # target
    BY <1>6, <2>1, <2>2
  <2>3. CASE b = target /\ ~(op = "update" /\ (~arg.enabled \/ arg.role # "administrator"))
    BY <1>6, <2>1, <2>3 DEF Exists, NoRole
  <2>4. CASE b = target /\ op = "update" /\ (~arg.enabled \/ arg.role # "administrator")
    <3>1. CanDemote(target)
      BY <1>0, <1>1, <2>4 DEF RequestSound, Demotes
    <3> QED
      BY <1>6, <2>1, <2>4, <3>1 DEF CanDemote
  <2> QED
    BY <2>2, <2>3, <2>4
<1>16. PasswordChangeEvicts'
  <2> SUFFICES ASSUME database = "sqlite", NEW t \in DOMAIN sessions, NEW a \in Admins,
                      a = sessions[t].admin, ~sessions'[t].revoked,
                      sessions'[t].born < admins'[a].password
               PROVE  t = changer'[a]
    BY <1>2, <1>7, Typed DEF PasswordChangeEvicts, AdminInv
  <2>1. /\ ~sessions[t].revoked /\ sessions[t].born < admins'[a].password
        /\ (sessions[t].born < admins[a].password => t = changer[a])
    BY <1>7 DEF AdminInv, PasswordChangeEvicts
  <2>2. Exists(a)
    BY DEF AdminInv, AccountsInv
  <2>3. CASE a = target /\ op \in {"reset", "password"}
    BY <1>7, <1>10, <2>3
  <2>4. CASE ~(a = target /\ op \in {"reset", "password"})
    <3>1. admins'[a].password = admins[a].password
      BY <1>6, <2>2, <2>4
    <3> QED
      BY <1>10, <2>1, <2>4, <3>1
  <2> QED
    BY <2>3, <2>4
<1> QED
  BY <1>9, <1>11, <1>12, <1>14, <1>15, <1>16 DEF AdminInv

-----------------------------------------------------------------------------
(* A new database, or one with administrators, is sound. *)
LEMMA InitSound == Init => AdminInv
<1> SUFFICES ASSUME Init PROVE AdminInv
  OBVIOUS
<1>1. /\ proc = [p \in Procs |-> Idle] /\ conn = Nobody /\ advisory = Nobody
      /\ database \in {"sqlite", "postgres"} /\ grant = FALSE
      /\ changer = [a \in Admins |-> 0]
  BY DEF Init
<1>2. PICK row \in Account :
          /\ admins = [a \in Admins |-> row]
          /\ \/ chosen = FALSE /\ row.role = NoRole /\ row.enabled = FALSE /\ sessions = <<>>
             \/ /\ chosen = TRUE /\ row.role = "administrator" /\ row.enabled = TRUE /\ row.password = 1
                /\ \E a \in Admins :
                     sessions = <<[admin |-> a, revoked |-> FALSE, expired |-> FALSE, born |-> 1]>>
  <2>1. PICK row : row = [enabled |-> TRUE, role |-> "administrator", password |-> 1]
    OBVIOUS
  <2>2. row \in Account /\ row.role = "administrator" /\ row.enabled = TRUE /\ row.password = 1
    BY <2>1 DEF Account, Roles
  <2>3. Absent \in Account /\ Absent.role = NoRole /\ Absent.enabled = FALSE
    BY DEF Absent, Account
  <2>4. CASE admins = [a \in Admins |-> Absent] /\ chosen = FALSE /\ sessions = <<>>
    BY <2>3, <2>4
  <2>5. CASE /\ admins = [a \in Admins |-> row] /\ chosen = TRUE
             /\ \E a \in Admins :
                  sessions = <<[admin |-> a, revoked |-> FALSE, expired |-> FALSE, born |-> 1]>>
    BY <2>2, <2>5
  <2> QED
    BY <2>1, <2>4, <2>5 DEF Init
<1>3. /\ sessions \in Seq(SessionRow)
      /\ \A s \in DOMAIN sessions : row.role = "administrator" /\ sessions[s].admin \in Admins
                                    /\ sessions[s].born = 1 /\ row.password = 1
  <2>1. CASE sessions = <<>>
    BY <2>1
  <2>2. ASSUME NEW a \in Admins, row.role = "administrator", row.password = 1,
               sessions = <<[admin |-> a, revoked |-> FALSE, expired |-> FALSE, born |-> 1]>>
        PROVE  /\ sessions \in Seq(SessionRow)
               /\ \A s \in DOMAIN sessions : row.role = "administrator" /\ sessions[s].admin \in Admins
                                             /\ sessions[s].born = 1 /\ row.password = 1
    <3>1. PICK r : r = [admin |-> a, revoked |-> FALSE, expired |-> FALSE, born |-> 1]
      OBVIOUS
    <3>2. r \in SessionRow /\ r.admin = a /\ r.born = 1
      BY <3>1 DEF SessionRow
    <3>3. sessions = <<r>>
      BY <2>2, <3>1
    <3>4. sessions \in Seq(SessionRow) /\ \A s \in DOMAIN sessions : sessions[s] = r
      BY <3>2, <3>3
    <3> QED
      BY <2>2, <3>2, <3>4
  <2> QED
    BY <1>2, <2>1, <2>2
<1>4. TypesInv
  <2>1. admins \in [Admins -> Account] /\ proc \in [Procs -> Request] /\ changer \in [Admins -> Nat]
    BY <1>1, <1>2, IdleTyped
  <2>2. chosen \in BOOLEAN
    BY <1>2, Zenon
  <2> QED
    BY <1>1, <1>3, <2>1, <2>2 DEF TypesInv
<1>5. AccountsInv
  BY <1>2, <1>3 DEF AccountsInv, Exists, NoRole
<1>6. RequestsInv
  BY <1>1, IdleTyped, AdminAssumption DEF RequestsInv, Locks, HeldBy
<1>7. \A p \in Procs : proc[p].pc = "idle"
  BY <1>1, IdleTyped
<1>8. OneSetup
  <2>1. chosen => \E a \in Admins : Exists(a)
    BY <1>2, AdminAssumption DEF Exists, NoRole
  <2>2. (\E a \in Admins : Exists(a)) => chosen
    BY <1>2 DEF Exists
  <2> QED
    BY <1>2, <1>7, <2>1, <2>2 DEF OneSetup, At
<1>9. AdministratorRemains
  BY <1>2, AdminAssumption DEF AdministratorRemains
<1>10. PasswordChangeEvicts
  BY <1>2, <1>3 DEF PasswordChangeEvicts
<1> QED
  BY <1>4, <1>5, <1>6, <1>8, <1>9, <1>10 DEF AdminInv

(* The table of credentials. *)
CredentialRow ==
    [kind : {"service", "personal"}, owner : Admins, revoked : BOOLEAN, expired : BOOLEAN, used : BOOLEAN]
CredsInv == creds \in Seq(CredentialRow)

(* A row of the table is replaced by another. *)
LEMMA CredReplaced ==
    ASSUME CredsInv, NEW c,
           \/ creds' = [creds EXCEPT ![c].revoked = TRUE]
           \/ creds' = [creds EXCEPT ![c].expired = TRUE]
           \/ creds' = [creds EXCEPT ![c].used = TRUE]
    PROVE  CredsInv'
<1>1. CASE c \in DOMAIN creds
  <2>1. creds[c] \in CredentialRow
    BY <1>1 DEF CredsInv
  <2>2. PICK a, b, d : /\ a = [creds[c] EXCEPT !.revoked = TRUE]
                       /\ b = [creds[c] EXCEPT !.expired = TRUE]
                       /\ d = [creds[c] EXCEPT !.used = TRUE]
    OBVIOUS
  <2>3. a \in CredentialRow /\ b \in CredentialRow /\ d \in CredentialRow
    BY <2>1, <2>2 DEF CredentialRow
  <2>4. \E r \in CredentialRow : creds' = [creds EXCEPT ![c] = r]
    BY <2>2, <2>3
  <2> QED
    BY <1>1, <2>4 DEF CredsInv
<1>2. CASE c \notin DOMAIN creds
  BY <1>2 DEF CredsInv
<1> QED
  BY <1>1, <1>2

(* A credential is added, revoked, used or runs out. *)
LEMMA CredsKept == AdminInv /\ CredsInv /\ [Next]_vars => CredsInv'
<1> SUFFICES ASSUME AdminInv, CredsInv, [Next]_vars PROVE CredsInv'
  OBVIOUS
<1>1. ASSUME NEW p \in Procs, NEW s \in DOMAIN sessions, NEW kind \in {"service", "personal"},
             CreateCredential(p, s, kind)
      PROVE  CredsInv'
  <2>1. PICK row : row = [kind |-> kind, owner |-> sessions[s].admin, revoked |-> FALSE,
                          expired |-> FALSE, used |-> FALSE]
    OBVIOUS
  <2>2. row \in CredentialRow
    BY <2>1, Typed DEF AdminInv, CredentialRow
  <2> QED
    BY <1>1, <2>1, <2>2 DEF CreateCredential, CredsInv
<1>2. ASSUME NEW p \in Procs, Arrive(p) PROVE CredsInv'
  <2>1. ASSUME NEW s, NEW c, RevokeCredential(p, s, c) PROVE CredsInv'
    BY <2>1, CredReplaced DEF RevokeCredential
  <2>2. CASE UNCHANGED creds
    BY <2>2 DEF CredsInv
  <2> QED
    BY <1>1, <1>2, <2>1, <2>2
       DEF Arrive, SetupCount, Login, Logout, Authorize, UseCredential, SetupRequired, store
<1>3. ASSUME NEW p \in Procs, Finish(p) PROVE CredsInv'
  <2>1. CASE NoteUse(p)
    BY <2>1, CredReplaced DEF NoteUse
  <2>2. CASE UNCHANGED creds
    BY <2>2 DEF CredsInv
  <2> QED
    BY <1>3, <2>1, <2>2
       DEF Finish, SetupCommit, AuthenticatePassword, IssueSession, BeginMutation, CommitMutation,
           LoadAccounts, AccountRoles, LoadRoles, Install, ReloadFails, Abort, store
<1>4. CASE Expire
  BY <1>4, CredReplaced DEF Expire, CredsInv
<1>5. CASE UNCHANGED vars
  BY <1>5 DEF vars, store, CredsInv
<1> QED
  BY <1>2, <1>3, <1>4, <1>5 DEF Next, List

(* Every request and the clock keep the invariant. *)
LEMMA NextKeeps == AdminInv /\ CopiesInv /\ CredsInv /\ [Next]_vars => AdminInv'
<1> SUFFICES ASSUME AdminInv, CopiesInv, CredsInv, [Next]_vars PROVE AdminInv'
  OBVIOUS
<1>1. ASSUME NEW p \in Procs, Arrive(p) PROVE AdminInv'
  <2>1. CASE \E a \in Admins, via \in {"setup", "cli"} : SetupCount(p, a, via)
    BY <2>1, SetupCountKeeps
  <2>2. CASE (\E a \in Admins : Login(p, a)) \/ SetupRequired(p)
    BY <2>2, LoginKeeps
  <2>3. ASSUME NEW s \in DOMAIN sessions, Logout(p, s) PROVE AdminInv'
    BY <2>3, EndKeeps DEF Logout, setting
  <2>4. ASSUME NEW s \in DOMAIN sessions, NEW m \in Mutations(s), Authorize(p, s, m[1], m[2], m[3])
        PROVE  AdminInv'
    BY <2>4, AuthorizeKeeps
  <2>5. ASSUME NEW s, NEW k, CreateCredential(p, s, k) PROVE AdminInv'
    BY <2>5, ReadsKeep DEF CreateCredential, setting
  <2>6. ASSUME NEW s, NEW c, RevokeCredential(p, s, c) PROVE AdminInv'
    BY <2>6, ReadsKeep DEF RevokeCredential, setting
  <2>7. ASSUME NEW c \in DOMAIN creds, UseCredential(p, c) PROVE AdminInv'
    BY <2>7, UseCredentialKeeps DEF CredsInv
  <2> QED
    BY <1>1, <2>1, <2>2, <2>3, <2>4, <2>5, <2>6, <2>7 DEF Arrive
<1>2. ASSUME NEW p \in Procs, Finish(p) PROVE AdminInv'
  BY <1>2, SetupCommitKeeps, AuthenticatePasswordKeeps, IssueSessionKeeps, BeginMutationKeeps,
     CommitMutationKeeps, LoadKeeps, InstallKeeps, NoteUseKeeps, AbortKeeps DEF Finish
<1>3. CASE Expire
  <2>1. ASSUME NEW s \in DOMAIN sessions, sessions' = [sessions EXCEPT ![s].expired = TRUE] PROVE AdminInv'
    BY <1>3, <2>1, EndKeeps DEF Expire, setting
  <2>2. CASE UNCHANGED sessions
    BY <1>3, <2>2, ReadsKeep DEF Expire, setting
  <2> QED
    BY <1>3, <2>1, <2>2 DEF Expire
<1>4. CASE UNCHANGED vars
  BY <1>4, ReadsKeep DEF vars, store, setting
<1> QED
  BY <1>1, <1>2, <1>3, <1>4 DEF Next, List

-----------------------------------------------------------------------------
(* The account model *)

(* No reload moves and nothing that a reload reads is written. *)
Aside ==
    /\ UNCHANGED <<exclusive, admins, grant, changes, cache, fresh, missed, load>>
    /\ \A o \in Procs : \/ proc'[o] = proc[o]
                        \/ ~Reloading(o) /\ proc'[o].pc \notin {"roles", "install"}

(* A transaction changes the accounts, and its request will reload, or is of *)
(* another process.                                                          *)
Alters ==
    /\ UNCHANGED <<exclusive, cache, fresh, load>>
    /\ changes' = changes + 1 /\ \A a \in Admins : Exists(a) => Exists(a)'
    /\ \E p \in Procs :
          /\ ~Reloading(p) /\ proc'[p].pc \notin {"roles", "install"}
          /\ \A o \in Procs : o # p => proc'[o] = proc[o]
          /\ \/ proc'[p].pc = "reload" /\ Changed(p)' /\ UNCHANGED missed
             \/ missed' = changes'

(* One request is at its reload. *)
Reloads(p) ==
    \/ LoadAccounts(p) \/ (\E a \in Admins : AccountRoles(p, a)) \/ LoadRoles(p)
    \/ Install(p) \/ ReloadFails(p)

(* Every step is one of these. *)
LEMMA StepKinds ==
    ASSUME AdminInv, CopiesInv, CredsInv, [Next]_vars
    PROVE  Aside \/ Alters \/ \E p \in Procs : Reloads(p)
<1>0. ASSUME NEW p \in Procs, NEW q, Goto(p, q)
      PROVE  proc'[p] = q /\ \A o \in Procs : o # p => proc'[o] = proc[o]
  BY <1>0 DEF AdminInv, TypesInv, Goto
<1>1. Idle.pc = "idle"
  BY IdleTyped
<1>2. ASSUME NEW p \in Procs, NEW pc
      PROVE  [proc[p] EXCEPT !.pc = pc].pc = pc /\ [proc[p] EXCEPT !.pc = pc].op = proc[p].op
  BY Typed DEF AdminInv, Request
<1>3. ASSUME NEW p \in Procs, NEW q, Goto(p, q), ~Reloading(p),
             q.pc \notin {"roles", "install"},
             UNCHANGED <<exclusive, admins, grant, changes, cache, fresh, missed, load>>
      PROVE  Aside
  BY <1>0, <1>3 DEF Aside
<1>4. ASSUME NEW p \in Procs, Arrive(p) PROVE Aside
  <2>1. /\ UNCHANGED <<exclusive, admins, grant, changes, cache, fresh, missed, load>>
        /\ proc[p].pc = "idle"
    BY <1>4 DEF Arrive, SetupCount, Login, Logout, Authorize, CreateCredential, RevokeCredential,
                UseCredential, SetupRequired, Begin, At, setting, store, model
  <2>2. ~Reloading(p)
    BY <2>1 DEF Reloading
  <2>3. CASE UNCHANGED proc
    BY <2>1, <2>3 DEF Aside
  <2>4. CASE \E a \in Admins, via \in {"setup", "cli"} : SetupCount(p, a, via)
    <3>1. PICK a, via : Goto(p, [Idle EXCEPT !.pc = "setup", !.op = via, !.target = a])
      BY <2>4 DEF SetupCount
    <3>2. [Idle EXCEPT !.pc = "setup", !.op = via, !.target = a].pc = "setup"
      BY DEF Idle
    <3> QED
      BY <1>3, <2>1, <2>2, <3>1, <3>2
  <2>5. CASE \E a \in Admins : Login(p, a)
    <3>1. PICK a : Goto(p, [Idle EXCEPT !.pc = "reload", !.op = "login", !.target = a])
      BY <2>5 DEF Login
    <3>2. [Idle EXCEPT !.pc = "reload", !.op = "login", !.target = a].pc = "reload"
      BY DEF Idle
    <3> QED
      BY <1>3, <2>1, <2>2, <3>1, <3>2
  <2>6. CASE SetupRequired(p)
    <3>1. [Idle EXCEPT !.pc = "reload", !.op = "status"].pc = "reload"
      BY DEF Idle
    <3> QED
      BY <1>3, <2>1, <2>2, <2>6, <3>1 DEF SetupRequired
  <2>7. CASE \E c \in DOMAIN creds : UseCredential(p, c)
    <3>1. PICK c : Goto(p, [Idle EXCEPT !.pc = "note", !.op = "credential", !.session = c])
      BY <2>7 DEF UseCredential
    <3>2. [Idle EXCEPT !.pc = "note", !.op = "credential", !.session = c].pc = "note"
      BY DEF Idle
    <3> QED
      BY <1>3, <2>1, <2>2, <3>1, <3>2
  <2>8. ASSUME NEW s \in DOMAIN sessions, NEW m \in Mutations(s), Authorize(p, s, m[1], m[2], m[3])
        PROVE  Aside
    BY <1>3, <2>1, <2>2, <2>8 DEF Authorize
  <2> QED
    BY <1>4, <2>3, <2>4, <2>5, <2>6, <2>7, <2>8 DEF Arrive, Logout, CreateCredential, RevokeCredential
<1>5. ASSUME NEW p \in Procs, Finish(p), ~Reloads(p) PROVE Aside \/ Alters
  <2>1. CASE SetupCommit(p)
    <3>1. /\ ~Reloading(p) /\ UNCHANGED <<exclusive, grant, cache, fresh, load>> /\ proc[p].target \in Admins
      BY <2>1 DEF SetupCommit, At, Reloading, setting, AdminInv, RequestsInv, RequestSound
    <3>2. CASE Goto(p, Idle) /\ UNCHANGED <<admins, changes, missed>>
      BY <1>1, <1>3, <3>1, <3>2
    <3>3. CASE /\ ~Exists(proc[p].target)
               /\ admins' = [admins EXCEPT ![proc[p].target] =
                               [enabled |-> TRUE, role |-> "administrator", password |-> 1]]
               /\ changes' = changes + 1
               /\ \/ /\ proc[p].op = "setup"
                     /\ Goto(p, [proc[p] EXCEPT !.pc = "reload"]) /\ UNCHANGED missed
                  \/ Goto(p, Idle) /\ missed' = changes + 1
      <4>1. \A a \in Admins : Exists(a) => Exists(a)'
        BY <3>1, <3>3 DEF Exists, AdminInv, TypesInv
      <4>2. CASE Goto(p, Idle) /\ missed' = changes + 1
        BY <1>0, <1>1, <3>1, <3>3, <4>1, <4>2 DEF Alters
      <4>3. CASE proc[p].op = "setup" /\ Goto(p, [proc[p] EXCEPT !.pc = "reload"]) /\ UNCHANGED missed
        <5>1. /\ proc'[p].pc = "reload" /\ proc'[p].op = "setup"
              /\ \A o \in Procs : o # p => proc'[o] = proc[o]
          <6>1. PICK q : q = [proc[p] EXCEPT !.pc = "reload"]
            OBVIOUS
          <6>2. q.pc = "reload" /\ q.op = proc[p].op
            BY <6>1, Typed DEF AdminInv, Request
          <6>3. Goto(p, q)
            BY <4>3, <6>1
          <6>4. proc'[p] = q /\ \A o \in Procs : o # p => proc'[o] = proc[o]
            BY <1>0, <6>3
          <6> QED
            BY <4>3, <6>2, <6>4
        <5>2. Changed(p)'
          BY <5>1 DEF Changed
        <5> QED
          BY <3>1, <3>3, <4>1, <4>3, <5>1, <5>2 DEF Alters
      <4> QED
        BY <3>3, <4>2, <4>3
    <3> QED
      BY <2>1, <3>2, <3>3 DEF SetupCommit
  <2>2. CASE CommitMutation(p)
    <3>1. PICK op, target, arg :
              /\ op = proc[p].op /\ target = proc[p].target /\ arg = proc[p].arg
              /\ target \in Admins /\ op \in Mutating
              /\ op = "create" => arg \in Roles
              /\ op = "update" => arg \in Change
              /\ ~Reloading(p)
      BY <2>2 DEF CommitMutation, At, Reloading, AdminInv, RequestsInv, RequestSound
    <3>2. /\ UNCHANGED <<exclusive, cache, fresh, missed, load>> /\ changes' = changes + 1
          /\ Goto(p, [proc[p] EXCEPT !.pc = "reload"]) /\ WriteAccount(op, target, arg)
      BY <2>2, <3>1 DEF CommitMutation, setting, model
    <3>3. \A a \in Admins : Exists(a) => Exists(a)'
      <4>1. /\ \A a \in Admins : a # target => admins'[a] = admins[a]
            /\ Exists(target) => Exists(target)'
        BY <3>1, <3>2, AccountWritten
      <4> QED
        BY <4>1 DEF Exists
    <3>4. /\ proc'[p].pc = "reload" /\ proc'[p].op \in Mutating
          /\ \A o \in Procs : o # p => proc'[o] = proc[o]
      <4>1. PICK q : q = [proc[p] EXCEPT !.pc = "reload"]
        OBVIOUS
      <4>2. q.pc = "reload" /\ q.op = proc[p].op
        BY <4>1, Typed DEF AdminInv, Request
      <4>3. Goto(p, q)
        BY <3>2, <4>1
      <4>4. proc'[p] = q /\ \A o \in Procs : o # p => proc'[o] = proc[o]
        BY <1>0, <4>3
      <4> QED
        BY <3>1, <4>2, <4>4
    <3>5. Changed(p)'
      BY <3>4 DEF Changed, Mutating
    <3> QED
      BY <3>1, <3>2, <3>3, <3>4, <3>5 DEF Alters
  <2>3. CASE AuthenticatePassword(p)
    <3>1. /\ ~Reloading(p) /\ proc[p].target \in Admins
          /\ UNCHANGED <<exclusive, admins, grant, changes, cache, fresh, missed, load>>
      BY <2>3 DEF AuthenticatePassword, At, Reloading, setting, store, model, AdminInv, RequestsInv, RequestSound
    <3>3. PICK q : q = [proc[p] EXCEPT !.pc = "issue", !.arg = cache.admins[proc[p].target].password]
      OBVIOUS
    <3>4. q.pc = "issue"
      BY <3>3, Typed DEF Request, AdminInv
    <3> QED
      BY <1>3, <2>3, <3>1, <3>3, <3>4 DEF AuthenticatePassword
  <2>4. CASE IssueSession(p) \/ NoteUse(p) \/ Abort(p)
    <3>1. /\ ~Reloading(p) /\ Goto(p, Idle)
          /\ UNCHANGED <<exclusive, admins, grant, changes, cache, fresh, missed, load>>
      BY <2>4 DEF IssueSession, NoteUse, Abort, At, Reloading, setting, store, model
    <3> QED
      BY <1>1, <1>3, <3>1
  <2>5. CASE BeginMutation(p)
    <3>1. /\ ~Reloading(p) /\ (Goto(p, Idle) \/ Goto(p, [proc[p] EXCEPT !.pc = "write"]))
          /\ UNCHANGED <<exclusive, admins, grant, changes, cache, fresh, missed, load>>
      BY <2>5 DEF BeginMutation, At, Reloading, setting, store, model
    <3>2. [proc[p] EXCEPT !.pc = "write"].pc = "write"
      BY <1>2
    <3> QED
      BY <1>1, <1>3, <3>1, <3>2
  <2> QED
    BY <1>5, <2>1, <2>2, <2>3, <2>4, <2>5 DEF Finish, Reloads
<1>6. CASE Expire \/ UNCHANGED vars
  BY <1>6 DEF Expire, vars, setting, store, model, Aside
<1> QED
  BY <1>4, <1>5, <1>6 DEF Next, List

(* The parts of a copy are typed. *)
LEMMA CopyTyped ==
    ASSUME TypesInv, CopiesInv
    PROVE  /\ Tables \in Model /\ Tables.admins = admins /\ Tables.grant = grant
           /\ cache.admins \in [Admins -> Account]
           /\ \A o \in Procs : /\ load[o] \in LoadRow /\ load[o].model \in Model
                               /\ load[o].model.admins \in [Admins -> Account]
                               /\ load[o].model.grant \in BOOLEAN
                               /\ load[o].unread \in SUBSET Admins /\ load[o].since \in Nat
BY DEF TypesInv, CopiesInv, Tables, Model, LoadRow

(* What a step of a reload reads, and where it leaves the others. *)
LEMMA LoadStep ==
    ASSUME AdminInv, CopiesInv, NEW p \in Procs, NEW r \in LoadRow, SetLoad(p, r)
    PROVE  /\ load' \in [Procs -> LoadRow] /\ load'[p] = r
           /\ \A o \in Procs : o # p => load'[o] = load[o]
BY DEF CopiesInv, SetLoad

(* Nothing is read. *)
LEMMA NoLoadTyped ==
    NoLoad \in LoadRow /\ NoLoad.since = 0 /\ \A a \in Admins : NoLoad.model.admins[a].enabled = FALSE
<1>1. Absent \in Account /\ Absent.enabled = FALSE
  BY DEF Absent, Account
<1>2. PICK m : m = [admins |-> [a \in Admins |-> Absent], grant |-> FALSE]
  OBVIOUS
<1>3. m \in Model /\ \A a \in Admins : m.admins[a].enabled = FALSE
  BY <1>1, <1>2 DEF Model
<1>4. NoLoad = [model |-> m, unread |-> {}, since |-> 0]
  BY <1>2 DEF NoLoad
<1> QED
  BY <1>3, <1>4 DEF LoadRow

(* Steps that are none of a reload's leave the model as sound as it was. *)
LEMMA AsideFollows ==
    ASSUME AdminInv, CopiesInv, FollowInv, Aside
    PROVE  CopiesInv' /\ FollowInv'
<1>1. CopiesInv'
  BY DEF CopiesInv, Aside, Exists
<1>2. ASSUME NEW o \in Procs
      PROVE  /\ Loading(o)' => Loading(o) /\ proc'[o] = proc[o]
             /\ Pending(o) => Pending(o)'
             /\ ReadSound(o)'
  <2>1. proc'[o] = proc[o] \/ (~Reloading(o) /\ proc'[o].pc \notin {"roles", "install"})
    BY DEF Aside
  <2>2. CASE proc'[o] = proc[o]
    BY <2>2 DEF Aside, Loading, Pending, Changed, ReadSound, AsRead, FollowInv
  <2>3. CASE ~Reloading(o) /\ proc'[o].pc \notin {"roles", "install"}
    BY <2>3 DEF Loading, Pending, Reloading, ReadSound
  <2> QED
    BY <2>1, <2>2, <2>3
<1>3. FollowInv'
  BY <1>2 DEF FollowInv, Aside, Tables
<1> QED
  BY <1>1, <1>3

(* A change that is not in the model is awaited or noted as missed. *)
LEMMA AltersFollows ==
    ASSUME AdminInv, CopiesInv, FollowInv, Alters, TypesInv'
    PROVE  CopiesInv' /\ FollowInv'
<1>0. PICK p \in Procs :
          /\ ~Reloading(p) /\ proc'[p].pc \notin {"roles", "install"}
          /\ \A o \in Procs : o # p => proc'[o] = proc[o]
          /\ \/ proc'[p].pc = "reload" /\ Changed(p)' /\ UNCHANGED missed
             \/ missed' = changes'
  BY DEF Alters
<1>1. /\ UNCHANGED <<exclusive, cache, fresh, load>> /\ changes' = changes + 1
      /\ \A a \in Admins : Exists(a) => Exists(a)'
      /\ changes \in Nat /\ fresh \in Nat /\ missed \in Nat /\ missed' \in Nat
  BY <1>0 DEF Alters, CopiesInv
<1>2. CopiesInv'
  BY <1>1 DEF CopiesInv
<1>3. ASSUME NEW o \in Procs
      PROVE  /\ load'[o] = load[o] /\ load[o].since \in Nat /\ load[o].since < changes'
             /\ Loading(o)' => Loading(o) /\ proc'[o] = proc[o]
             /\ ReadSound(o)'
  <2>1. load'[o] = load[o] /\ load[o].since \in Nat /\ load[o].since < changes'
    BY <1>1, CopyTyped DEF AdminInv, FollowInv
  <2>2. Loading(o)' => Loading(o) /\ proc'[o] = proc[o]
    BY <1>0 DEF Loading
  <2> QED
    BY <2>1, <2>2 DEF ReadSound, FollowInv
<1>4. fresh' < changes' /\ missed' <= changes'
  BY <1>0, <1>1 DEF FollowInv
<1>5. missed' = changes' \/ \E o \in Procs : Pending(o)'
  BY <1>0 DEF Pending
<1>6. fresh' = changes' => FALSE
  BY <1>1, <1>4
<1>7. FollowInv'
  BY <1>1, <1>3, <1>4, <1>5, <1>6 DEF FollowInv
<1> QED
  BY <1>2, <1>7

(* A reload begins: the accounts are read. *)
LEMMA LoadAccountsFollows ==
    ASSUME AdminInv, CopiesInv, FollowInv, NEW p \in Procs, LoadAccounts(p)
    PROVE  CopiesInv' /\ FollowInv'
<1>1. /\ UNCHANGED <<exclusive, admins, grant, changes, cache, fresh, missed>> /\ proc[p].pc = "reload"
      /\ Goto(p, [proc[p] EXCEPT !.pc = "roles"])
      /\ exclusive => \A o \in Procs : ~Loading(o)
  BY DEF LoadAccounts, At, Loading, setting, store, model
<1>2. /\ proc'[p].pc = "roles" /\ proc'[p].op = proc[p].op
      /\ \A o \in Procs : o # p => proc'[o] = proc[o]
  BY <1>1, Typed, PcMoves, GotoMoves DEF AdminInv, Places
<1>3. PICK m : m = [a \in Admins |-> [admins[a] EXCEPT !.role = NoRole]]
  OBVIOUS
<1>4. /\ m \in [Admins -> Account]
      /\ \A a \in Admins : m[a] = [admins[a] EXCEPT !.role = NoRole] /\ m[a].enabled = admins[a].enabled
  <2>1. ASSUME NEW a \in Admins
        PROVE  /\ [admins[a] EXCEPT !.role = NoRole] \in Account
               /\ [admins[a] EXCEPT !.role = NoRole].enabled = admins[a].enabled
    BY Typed DEF Account, AdminInv
  <2> QED
    BY <1>3, <2>1
<1>5. PICK r : r = [model |-> [admins |-> m, grant |-> FALSE], unread |-> {a \in Admins : Exists(a)},
                    since |-> changes]
  OBVIOUS
<1>6. /\ r \in LoadRow /\ r.model.admins = m /\ r.unread = {a \in Admins : Exists(a)} /\ r.since = changes
  BY <1>4, <1>5 DEF LoadRow, Model, CopiesInv
<1>7. SetLoad(p, r)
  BY <1>3, <1>5 DEF LoadAccounts
<1>8. /\ load' \in [Procs -> LoadRow] /\ load'[p] = r
      /\ \A o \in Procs : o # p => load'[o] = load[o]
  BY <1>6, <1>7, LoadStep
<1>9. CopiesInv'
  <2>1. ASSUME NEW o \in Procs, NEW a \in Admins, load'[o].model.admins[a].enabled PROVE Exists(a)
    BY <1>4, <1>6, <1>8, <2>1 DEF CopiesInv, AdminInv, AccountsInv
  <2>2. \A a \in Admins : Exists(a)' <=> Exists(a)
    BY <1>1 DEF Exists
  <2> QED
    BY <1>1, <1>8, <2>1, <2>2 DEF CopiesInv
<1>10. ReadSound(p)'
  <2>1. ASSUME NEW a \in Admins PROVE load'[p].model.admins[a] = AsRead(p, a)'
    <3>1. load'[p].model.admins[a] = [admins[a] EXCEPT !.role = NoRole]
      BY <1>4, <1>6, <1>8
    <3>2. AsRead(p, a)' = [admins[a] EXCEPT !.role = IF Exists(a) THEN NoRole ELSE admins[a].role]
      BY <1>1, <1>6, <1>8 DEF AsRead
    <3> QED
      BY <3>1, <3>2 DEF Exists
  <2> QED
    BY <1>2, <2>1 DEF ReadSound
<1>11. ASSUME NEW o \in Procs, o # p
       PROVE  (Loading(o)' <=> Loading(o)) /\ (Pending(o)' <=> Pending(o)) /\ ReadSound(o)'
  BY <1>1, <1>2, <1>8, <1>11 DEF Loading, Pending, Changed, ReadSound, AsRead, FollowInv
<1>12. Pending(p) => Pending(p)'
  BY <1>1, <1>2, <1>6, <1>8 DEF Pending, Changed, Loading
<1>13. FollowInv'
  <2>1. /\ fresh' <= changes' /\ missed' <= changes' /\ \A o \in Procs : load'[o].since <= changes'
        /\ (fresh' = changes' => cache' = Tables') /\ \A o \in Procs : ReadSound(o)'
    BY <1>1, <1>6, <1>8, <1>10, <1>11 DEF FollowInv, Tables, CopiesInv
  <2>2. ASSUME exclusive
        PROVE  /\ fresh' = changes' \/ missed' = changes' \/ \E o \in Procs : Pending(o)'
               /\ \A o \in Procs : Loading(o)' => fresh' <= load'[o].since
               /\ \A o, q \in Procs : Loading(o)' /\ Loading(q)' => o = q
    BY <1>1, <1>6, <1>8, <1>11, <1>12, <2>2 DEF FollowInv
  <2> QED
    BY <1>1, <2>1, <2>2 DEF FollowInv
<1> QED
  BY <1>9, <1>13

(* The roles of one account are read. *)
LEMMA AccountRolesFollows ==
    ASSUME AdminInv, CopiesInv, FollowInv, NEW p \in Procs, NEW b \in Admins, AccountRoles(p, b)
    PROVE  CopiesInv' /\ FollowInv'
<1>1. /\ UNCHANGED <<exclusive, admins, grant, changes, cache, fresh, missed, proc>> /\ proc[p].pc = "roles"
      /\ b \in load[p].unread
  BY DEF AccountRoles, At, setting, store, model
<1>2. PICK l \in LoadRow : l = load[p] /\ l.model \in Model /\ l.model.admins \in [Admins -> Account]
  BY CopyTyped DEF AdminInv
<1>3. PICK row : row = [l.model.admins[b] EXCEPT !.role = admins[b].role]
  OBVIOUS
<1>4. row \in Account /\ row.enabled = l.model.admins[b].enabled
  BY <1>2, <1>3, Typed DEF Account, AdminInv
<1>5. PICK r : r = [l EXCEPT !.model.admins[b].role = admins[b].role, !.unread = @ \ {b}]
  OBVIOUS
<1>6. r = [l EXCEPT !.model = [l.model EXCEPT !.admins = [l.model.admins EXCEPT ![b] = row]],
                    !.unread = l.unread \ {b}]
  BY <1>2, <1>3, <1>5 DEF LoadRow, Model, Account
<1>7. /\ r \in LoadRow /\ r.unread = l.unread \ {b} /\ r.since = l.since
      /\ \A a \in Admins : r.model.admins[a] = IF a = b THEN row ELSE l.model.admins[a]
  BY <1>2, <1>4, <1>6 DEF LoadRow, Model
<1>8. SetLoad(p, r)
  BY <1>2, <1>5 DEF AccountRoles
<1>9. /\ load' \in [Procs -> LoadRow] /\ load'[p] = r
      /\ \A o \in Procs : o # p => load'[o] = load[o]
  BY <1>7, <1>8, LoadStep
<1>10. CopiesInv'
  <2>1. ASSUME NEW o \in Procs, NEW a \in Admins, load'[o].model.admins[a].enabled PROVE Exists(a)
    BY <1>2, <1>4, <1>7, <1>9, <2>1 DEF CopiesInv
  <2>2. \A a \in Admins : Exists(a)' <=> Exists(a)
    BY <1>1 DEF Exists
  <2> QED
    BY <1>1, <1>9, <2>1, <2>2 DEF CopiesInv
<1>11. ReadSound(p)'
  <2>1. ASSUME load'[p].since = changes', NEW a \in Admins PROVE load'[p].model.admins[a] = AsRead(p, a)'
    <3>1. l.model.admins[a] = [admins[a] EXCEPT !.role = IF a \in l.unread THEN NoRole ELSE admins[a].role]
      BY <1>1, <1>2, <1>7, <1>9, <2>1 DEF FollowInv, ReadSound, Loading, AsRead
    <3>2. AsRead(p, a)' = [admins[a] EXCEPT !.role = IF a \in l.unread \ {b} THEN NoRole ELSE admins[a].role]
      BY <1>1, <1>7, <1>9 DEF AsRead
    <3>3. admins[a] \in Account
      BY Typed DEF AdminInv
    <3> QED
      BY <1>1, <1>2, <1>3, <1>7, <1>9, <3>1, <3>2, <3>3 DEF Account
  <2> QED
    BY <1>1, <2>1 DEF ReadSound
<1>12. ASSUME NEW o \in Procs
       PROVE  /\ (Loading(o)' <=> Loading(o)) /\ (Pending(o)' <=> Pending(o)) /\ ReadSound(o)'
              /\ load'[o].since = load[o].since
  BY <1>1, <1>2, <1>7, <1>9, <1>11 DEF Loading, Pending, Changed, ReadSound, AsRead, FollowInv
<1>13. FollowInv'
  BY <1>1, <1>12 DEF FollowInv, Tables
<1> QED
  BY <1>10, <1>13

(* The last query: what the roles carry. *)
LEMMA LoadRolesFollows ==
    ASSUME AdminInv, CopiesInv, FollowInv, NEW p \in Procs, LoadRoles(p)
    PROVE  CopiesInv' /\ FollowInv'
<1>1. /\ UNCHANGED <<exclusive, admins, grant, changes, cache, fresh, missed>> /\ proc[p].pc = "roles"
      /\ Goto(p, [proc[p] EXCEPT !.pc = "install"]) /\ load[p].unread = {}
  BY DEF LoadRoles, At, setting, store, model
<1>2. /\ proc'[p].pc = "install" /\ proc'[p].op = proc[p].op
      /\ \A o \in Procs : o # p => proc'[o] = proc[o]
  BY <1>1, Typed, PcMoves, GotoMoves DEF AdminInv, Places
<1>3. PICK l \in LoadRow : l = load[p] /\ l.model \in Model
  BY CopyTyped DEF AdminInv
<1>4. PICK r : r = [l EXCEPT !.model.grant = grant]
  OBVIOUS
<1>5. /\ r \in LoadRow /\ r.unread = l.unread /\ r.since = l.since /\ r.model.grant = grant
      /\ r.model.admins = l.model.admins
  BY <1>3, <1>4 DEF LoadRow, Model, AdminInv, TypesInv
<1>6. SetLoad(p, r)
  BY <1>3, <1>4 DEF LoadRoles
<1>7. /\ load' \in [Procs -> LoadRow] /\ load'[p] = r
      /\ \A o \in Procs : o # p => load'[o] = load[o]
  BY <1>5, <1>6, LoadStep
<1>8. CopiesInv'
  <2>1. \A o \in Procs : load'[o].model.admins = load[o].model.admins
    BY <1>3, <1>5, <1>7
  <2>2. \A a \in Admins : Exists(a)' <=> Exists(a)
    BY <1>1 DEF Exists
  <2> QED
    BY <1>1, <1>7, <2>1, <2>2 DEF CopiesInv
<1>9. ReadSound(p)'
  <2>1. ASSUME l.since = changes, NEW a \in Admins PROVE load'[p].model.admins[a] = AsRead(p, a)'
    BY <1>1, <1>3, <1>5, <1>7, <2>1 DEF FollowInv, ReadSound, Loading, AsRead
  <2> QED
    BY <1>1, <1>3, <1>5, <1>7, <2>1 DEF ReadSound
<1>10. ASSUME NEW o \in Procs
       PROVE  /\ (Loading(o)' <=> Loading(o)) /\ (Pending(o)' <=> Pending(o)) /\ ReadSound(o)'
              /\ load'[o].since = load[o].since
  BY <1>1, <1>2, <1>3, <1>5, <1>7, <1>9 DEF Loading, Pending, Changed, ReadSound, AsRead, FollowInv
<1>11. FollowInv'
  BY <1>1, <1>10 DEF FollowInv, Tables
<1> QED
  BY <1>8, <1>11

(* What was read is installed.  If reloads exclude each other, nothing newer *)
(* is in the model.                                                          *)
LEMMA InstallFollows ==
    ASSUME AdminInv, CopiesInv, FollowInv, NEW p \in Procs, Install(p)
    PROVE  CopiesInv' /\ FollowInv'
<1>1. /\ UNCHANGED <<exclusive, admins, grant, changes, missed>> /\ proc[p].pc = "install"
      /\ cache' = load[p].model /\ fresh' = load[p].since /\ SetLoad(p, NoLoad)
  BY DEF Install, At, setting, store
<1>2. PICK q \in Request : Goto(p, q) /\ q.pc \in {"issue", "check", "idle"}
  BY <1>1, ContinueGoes DEF Install
<1>3. /\ proc'[p].pc \in {"issue", "check", "idle"} /\ \A o \in Procs : o # p => proc'[o] = proc[o]
  BY <1>2, GotoMoves DEF AdminInv
<1>4. /\ load' \in [Procs -> LoadRow] /\ load'[p] = NoLoad
      /\ \A o \in Procs : o # p => load'[o] = load[o]
  BY <1>1, LoadStep, NoLoadTyped
<1>5. load[p].model \in Model /\ load[p].since \in Nat
  BY CopyTyped DEF AdminInv
<1>6. CopiesInv'
  <2>1. \A a \in Admins : Exists(a)' <=> Exists(a)
    BY <1>1 DEF Exists
  <2>2. \A o \in Procs, a \in Admins : load'[o].model.admins[a].enabled => Exists(a)
    BY <1>4, NoLoadTyped DEF CopiesInv
  <2> QED
    BY <1>1, <1>4, <1>5, <2>1, <2>2 DEF CopiesInv
<1>7. ASSUME load[p].since = changes PROVE cache' = Tables'
  <2>1. /\ load[p].model.grant = grant /\ load[p].unread = {}
        /\ \A a \in Admins : load[p].model.admins[a] = AsRead(p, a)
    BY <1>1, <1>7 DEF FollowInv, ReadSound, Loading
  <2>2. \A a \in Admins : load[p].model.admins[a] = admins[a]
    BY <2>1, Typed DEF AsRead, Account, AdminInv
  <2>3. load[p].model.admins = admins
    BY <2>2, CopyTyped DEF AdminInv, TypesInv
  <2> QED
    BY <1>1, <1>5, <2>1, <2>3 DEF Tables, Model
<1>8. ASSUME NEW o \in Procs
      PROVE  /\ Loading(o)' => o # p /\ Loading(o) /\ load'[o] = load[o]
             /\ o # p => (Pending(o)' <=> Pending(o))
             /\ ReadSound(o)' /\ load'[o].since <= changes
  <2>1. CASE o = p
    BY <1>3, <1>4, <2>1, NoLoadTyped DEF Loading, ReadSound, CopiesInv
  <2>2. CASE o # p
    BY <1>1, <1>3, <1>4, <2>2 DEF Loading, Pending, Changed, ReadSound, AsRead, FollowInv
  <2> QED
    BY <2>1, <2>2
<1>9. ASSUME exclusive
      PROVE  /\ fresh' = changes' \/ missed' = changes' \/ \E o \in Procs : Pending(o)'
             /\ \A o \in Procs : ~Loading(o)'
  <2>1. \A o \in Procs : ~Loading(o)'
    BY <1>1, <1>8, <1>9 DEF FollowInv, Loading
  <2>2. fresh <= load[p].since /\ load[p].since <= changes
    BY <1>1, <1>9 DEF FollowInv, Loading
  <2>3. CASE load[p].since = changes
    BY <1>1, <2>1, <2>3
  <2>4. CASE load[p].since # changes
    <3>1. fresh # changes /\ ~Pending(p)
      BY <1>1, <1>5, <2>2, <2>4 DEF Pending, CopiesInv
    <3> QED
      BY <1>1, <1>8, <1>9, <2>1, <3>1 DEF FollowInv
  <2> QED
    BY <2>3, <2>4
<1>10. FollowInv'
  BY <1>1, <1>7, <1>8, <1>9 DEF FollowInv
<1> QED
  BY <1>6, <1>10

(* A reload that fails after a change is noted as missed. *)
LEMMA ReloadFailsFollows ==
    ASSUME AdminInv, CopiesInv, FollowInv, NEW p \in Procs, ReloadFails(p)
    PROVE  CopiesInv' /\ FollowInv'
<1>1. /\ UNCHANGED <<exclusive, admins, grant, changes, cache, fresh>>
      /\ SetLoad(p, NoLoad) /\ Goto(p, Idle)
      /\ missed' = IF Changed(p) THEN changes ELSE missed
  BY DEF ReloadFails, setting, store
<1>2. /\ proc'[p].pc = "idle" /\ \A o \in Procs : o # p => proc'[o] = proc[o]
  BY <1>1, IdleTyped, GotoMoves DEF AdminInv
<1>3. /\ load' \in [Procs -> LoadRow] /\ load'[p] = NoLoad
      /\ \A o \in Procs : o # p => load'[o] = load[o]
  BY <1>1, LoadStep, NoLoadTyped
<1>4. CopiesInv'
  <2>1. \A a \in Admins : Exists(a)' <=> Exists(a)
    BY <1>1 DEF Exists
  <2>2. \A o \in Procs, a \in Admins : load'[o].model.admins[a].enabled => Exists(a)
    BY <1>3, NoLoadTyped DEF CopiesInv
  <2> QED
    BY <1>1, <1>3, <2>1, <2>2 DEF CopiesInv
<1>5. ASSUME NEW o \in Procs
      PROVE  /\ Loading(o)' => o # p /\ Loading(o) /\ load'[o] = load[o]
             /\ o # p => (Pending(o)' <=> Pending(o))
             /\ ReadSound(o)' /\ load'[o].since <= changes
  <2>1. CASE o = p
    BY <1>2, <1>3, <2>1, NoLoadTyped DEF Loading, ReadSound, CopiesInv
  <2>2. CASE o # p
    BY <1>1, <1>2, <1>3, <2>2 DEF Loading, Pending, Changed, ReadSound, AsRead, FollowInv
  <2> QED
    BY <2>1, <2>2
<1>6. missed' <= changes /\ (Pending(p) => missed' = changes) /\ (missed = changes => missed' = changes)
  BY <1>1 DEF Pending, FollowInv, CopiesInv
<1>7. exclusive => fresh' = changes' \/ missed' = changes' \/ \E o \in Procs : Pending(o)'
  BY <1>1, <1>5, <1>6 DEF FollowInv
<1>8. FollowInv'
  BY <1>1, <1>5, <1>6, <1>7 DEF FollowInv, Tables
<1> QED
  BY <1>4, <1>8

(* Every step keeps the copies sound. *)
LEMMA CopiesKept ==
    AdminInv /\ CopiesInv /\ FollowInv /\ CredsInv /\ [Next]_vars => CopiesInv' /\ FollowInv'
<1> SUFFICES ASSUME AdminInv, CopiesInv, FollowInv, CredsInv, [Next]_vars PROVE CopiesInv' /\ FollowInv'
  OBVIOUS
<1>1. TypesInv'
  BY NextKeeps DEF AdminInv
<1> QED
  BY <1>1, StepKinds, AsideFollows, AltersFollows, LoadAccountsFollows, AccountRolesFollows,
     LoadRolesFollows, InstallFollows, ReloadFailsFollows DEF Reloads

(* At the start the model is that of the tables. *)
LEMMA CopiesInit == Init => CopiesInv /\ FollowInv
<1> SUFFICES ASSUME Init PROVE CopiesInv /\ FollowInv
  OBVIOUS
<1>1. AdminInv
  BY InitSound
<1>2. /\ proc = [p \in Procs |-> Idle] /\ load = [p \in Procs |-> NoLoad] /\ cache = Tables
      /\ changes = 0 /\ fresh = 0 /\ missed = 0 /\ exclusive \in BOOLEAN
  BY DEF Init
<1>3. cache \in Model /\ \A a \in Admins : cache.admins[a] = admins[a]
  BY <1>1, <1>2 DEF AdminInv, TypesInv, Tables, Model
<1>4. CopiesInv
  BY <1>1, <1>2, <1>3, NoLoadTyped DEF CopiesInv, AdminInv, AccountsInv
<1>5. \A o \in Procs : ~Loading(o) /\ load[o].since = 0
  BY <1>2, IdleTyped, NoLoadTyped DEF Loading
<1>6. FollowInv
  BY <1>2, <1>5 DEF FollowInv, ReadSound
<1> QED
  BY <1>4, <1>6

-----------------------------------------------------------------------------
(* The inductive invariant always holds. *)
THEOREM AdminInvAlways == Spec => [](AdminInv /\ CopiesInv /\ FollowInv)
<1>1. Init => CredsInv
  BY DEF Init, CredsInv
<1> QED
  BY InitSound, CopiesInit, <1>1, CredsKept, NextKeeps, CopiesKept, PTL DEF Spec

(* The invariant the runs check follows from it. *)
LEMMA AdministratorFollows == AdminInv /\ CopiesInv => AdministratorAlways
<1> SUFFICES ASSUME AdminInv, CopiesInv PROVE AdministratorAlways
  OBVIOUS
<1>1. advisory # Nobody => At(advisory, "setup")
  BY DEF AdminInv, RequestsInv, Locks, HeldBy, TypesInv, At
<1>2. TypeOK
  BY <1>1 DEF AdminInv, TypesInv, AccountsInv, CopiesInv, Model, TypeOK
<1> QED
  BY <1>2 DEF AdminInv, AdministratorAlways

(* For any number of accounts and requests at the same time: one set-up has  *)
(* a winner, and on SQLite an enabled administrator remains from then on     *)
(* (setup, SetupAdministrator, canDemote).                                   *)
THEOREM AdministratorAlwaysHolds == Spec => []AdministratorAlways
<1> QED
  BY AdminInvAlways, AdministratorFollows, PTL

(* For any number of accounts, requests and reloads query by query at the    *)
(* same time: the account model that grants capabilities is the database's,  *)
(* unless whoever changed it last has still to reload or could not, or, if   *)
(* reloads do not exclude each other, the installed one began before that    *)
(* change (Reload after every commit).                                       *)
THEOREM ModelFollowsAlways == Spec => []ModelFollows
<1>1. CopiesInv /\ FollowInv => ModelFollows
  <2> SUFFICES ASSUME CopiesInv, FollowInv PROVE ModelFollows
    OBVIOUS
  <2>1. \A o \in Procs : Pending(o) => Reloading(o) /\ Changed(o)
    BY DEF Pending, Loading, Reloading
  <2> QED
    BY <2>1 DEF CopiesInv, FollowInv, ModelFollows
<1> QED
  BY AdminInvAlways, <1>1, PTL

(* On SQLite a changed password leaves no session of before the change but   *)
(* the one that changed it (changePassword, reset-password).                 *)
THEOREM PasswordChangeEvictsAlways == Spec => []PasswordChangeEvicts
<1>1. AdminInv => PasswordChangeEvicts
  BY DEF AdminInv
<1> QED
  BY AdminInvAlways, <1>1, PTL
=============================================================================

----------------------------- MODULE AppAccounts -----------------------------
(***************************************************************************)
(* Application users: registration under a policy, invitations and access  *)
(* requests (internal/appreg), and sessions with rotating refresh tokens   *)
(* (internal/appauth), as concurrent requests on SQLite or PostgreSQL.     *)
(*                                                                         *)
(* A request is a process: what it reads before it locks anything is one   *)
(* step, what it writes and commits another.  SQLite has one connection,   *)
(* so a transaction excludes everything else; on PostgreSQL only row locks *)
(* do.  Tokens are the identifiers of the rows that hold their hashes, and *)
(* a session has the one access token that was inserted with it.           *)
(***************************************************************************)
EXTENDS Integers, FiniteSets, Sequences

CONSTANTS Emails,         \* normalized addresses
          Procs,          \* requests served at the same time
          Nobody,         \* no process, and no address, request or session
          CleanupBatch,   \* rows a sweep touches per statement
          MaxOps,         \* bound on requests served
          MaxInvitations, MaxRequests, MaxSessions   \* bounds on rows

ASSUME AccountsAssumption ==
    /\ Nobody \notin Emails /\ Nobody \notin Procs
    /\ CleanupBatch \in Nat \ {0}
    /\ MaxOps \in Nat /\ MaxInvitations \in Nat /\ MaxRequests \in Nat /\ MaxSessions \in Nat

Policies == {"open", "invite", "approval", "closed"}
Kinds    == {"self_register", "activate"}

VARIABLES
    database,  \* "sqlite" or "postgres": fixed at start
    policy,    \* the singleton registration policy row
    users,     \* [state, via, under] by email; under is the policy at commit
    invites,   \* invitations by number
    requests,  \* access requests by number
    sessions,  \* sessions by number, with their access token
    facts,     \* user-creation audit facts by email
    proc,      \* [pc, email, kind, id, seen] of each process
    conn,      \* who is inside a transaction on SQLite's only connection
    locks,     \* [row, by]: row locks of PostgreSQL
    ops        \* requests served so far

tables == <<policy, users, invites, requests, sessions, facts>>
vars   == <<database, tables, proc, conn, locks, ops>>

Idle == [pc |-> "idle", email |-> Nobody, kind |-> "none", id |-> 0, seen |-> {}]

NoUser == [state |-> "none", via |-> "none", under |-> "none"]

(* A deployment with some policy, whose users were created before. *)
Init ==
    /\ database \in {"sqlite", "postgres"}
    /\ policy \in Policies
    /\ users \in [Emails -> {NoUser, [state |-> "active", via |-> "earlier", under |-> "open"]}]
    /\ invites = <<>> /\ requests = <<>> /\ sessions = <<>>
    /\ facts = [e \in Emails |-> 0]
    /\ proc = [p \in Procs |-> Idle]
    /\ conn = Nobody
    /\ locks = {}
    /\ ops = 0

-----------------------------------------------------------------------------
(* Transactions *)

At(p, pc) == proc[p].pc = pc

(* SQLite: BEGIN needs the connection, and every other statement waits. *)
CanRun(p) == database = "sqlite" => conn \in {Nobody, p}

Enter(p) == conn' = IF database = "sqlite" THEN p ELSE conn

LeaveForgotten(p) == conn' = conn /\ locks' = locks

(* Commit, or rollback on any error: the locks and the connection are freed. *)
Leave(p) ==
    /\ conn' = Nobody
    /\ locks' = {l \in locks : l.by # p}

RowFree(row, p) == \A l \in locks : l.row = row => l.by = p

LockRowIgnored(row, p) == UNCHANGED locks

(* SELECT ... FOR UPDATE; SQLite's BEGIN IMMEDIATE has locked everything. *)
LockRow(row, p) ==
    /\ RowFree(row, p)
    /\ locks' = IF database = "postgres" THEN locks \cup {[row |-> row, by |-> p]} ELSE locks

PolicyRow     == <<"policy", 1>>
RequestRow(r) == <<"request", r>>

Goto(p, s) == proc' = [proc EXCEPT ![p] = s]

(* A request arrives: its first statement. *)
Begin(p) ==
    /\ At(p, "idle")
    /\ ops < MaxOps
    /\ ops' = ops + 1
    /\ CanRun(p)

Continue(p, pc) ==
    /\ At(p, pc)
    /\ CanRun(p)
    /\ ops' = ops

(* A request that needs one transaction whose statements cannot be split. *)
OneShot(p) == Begin(p) /\ UNCHANGED <<database, proc, conn, locks>>

Done(p) == Goto(p, Idle) /\ Leave(p)

-----------------------------------------------------------------------------
(* Users *)

UserCount(e) == users[e].state # "none"

CreateUser(e, path) ==
    /\ users' = [users EXCEPT ![e] = [state |-> "active", via |-> path, under |-> policy]]
    /\ facts' = [facts EXCEPT ![e] = @ + 1]

(* register: policy read under the lock, then the INSERT, whose UNIQUE email *)
(* refuses a second account, and the audit fact.                            *)
RegisterLock(p, e) ==
    /\ Begin(p)
    /\ LockRow(PolicyRow, p) /\ Enter(p)
    /\ policy = "open"
    /\ Goto(p, [Idle EXCEPT !.pc = "register", !.email = e])
    /\ UNCHANGED <<database, tables>>

Register(p) ==
    LET e == proc[p].email
    IN  /\ Continue(p, "register")
        /\ Done(p)
        /\ \/ ~UserCount(e) /\ CreateUser(e, "register")
           \/ UserCount(e) /\ UNCHANGED <<users, facts>>
        /\ UNCHANGED <<database, policy, invites, requests, sessions>>

-----------------------------------------------------------------------------
(* Invitations *)

Outstanding(i) == invites[i].used = Nobody /\ ~invites[i].revoked

Redeemable(i) == Outstanding(i) /\ ~invites[i].expired

Invitation(kind, e, r, origin) ==
    [kind |-> kind, email |-> e, request |-> r, origin |-> origin,
     used |-> Nobody, revoked |-> FALSE, expired |-> FALSE]

(* Bounds: rows there are, and rows that requests under way will insert. *)
Underway(pcs) == Cardinality({p \in Procs : proc[p].pc \in pcs})
RoomForInvite  == Len(invites) + Underway({"invite", "approve", "reissue"}) < MaxInvitations
RoomForSession == Len(sessions) + Underway({"issue", "rotate"}) < MaxSessions

(* inviteAccept reads the invitation without a lock. *)
AcceptRead(p, i) ==
    /\ Begin(p)
    /\ i \in DOMAIN invites
    /\ Redeemable(i)
    /\ Enter(p)
    /\ Goto(p, [Idle EXCEPT !.pc = IF invites[i].kind = "self_register"
                                     THEN "accept-policy" ELSE "accept",
                            !.id = i, !.email = invites[i].email])
    /\ UNCHANGED <<database, tables, locks>>

AcceptPolicy(p) ==
    /\ Continue(p, "accept-policy")
    /\ \/ /\ policy = "invite"
          /\ LockRow(PolicyRow, p)
          /\ Goto(p, [proc[p] EXCEPT !.pc = "accept"])
          /\ UNCHANGED conn
       \/ /\ policy # "invite" /\ RowFree(PolicyRow, p)
          /\ Done(p)
    /\ UNCHANGED <<database, tables>>

(* The INSERT, the claim (whose number of rows is not looked at), and the   *)
(* revocation of the address' other activations.                           *)
Accepted(i, e) ==
    [j \in DOMAIN invites |->
        CASE j = i /\ Outstanding(j) -> [invites[j] EXCEPT !.used = e]
          [] j # i /\ Outstanding(j) /\ invites[j].kind = "activate" /\ invites[j].email = e
                -> [invites[j] EXCEPT !.revoked = TRUE]
          [] OTHER -> invites[j]]

Accept(p) ==
    LET e == proc[p].email
        i == proc[p].id
    IN  /\ Continue(p, "accept")
        /\ Done(p)
        /\ \/ /\ ~UserCount(e)
              /\ CreateUser(e, invites[i].kind)
              /\ invites' = Accepted(i, e)
           \/ UserCount(e) /\ UNCHANGED <<users, facts, invites>>
        /\ UNCHANGED <<database, policy, requests, sessions>>

(* CreateInvitation looks for the user before its transaction. *)
InviteCheck(p, kind, e) ==
    /\ Begin(p)
    /\ ~UserCount(e)
    /\ RoomForInvite
    /\ Goto(p, [Idle EXCEPT !.pc = "invite", !.email = e, !.kind = kind])
    /\ UNCHANGED <<database, tables, conn, locks>>

CreateInvitation(p) ==
    /\ Continue(p, "invite")
    /\ invites' = Append(invites, Invitation(proc[p].kind, proc[p].email, 0, "admin"))
    /\ Goto(p, Idle)
    /\ UNCHANGED <<database, policy, users, requests, sessions, facts, conn, locks>>

RevokeInvitation(p, i) ==
    /\ OneShot(p)
    /\ i \in DOMAIN invites
    /\ Outstanding(i)
    /\ invites' = [invites EXCEPT ![i].revoked = TRUE]
    /\ UNCHANGED <<policy, users, requests, sessions, facts>>

SetPolicyUnlocked(p, v) ==
    /\ OneShot(p)
    /\ policy' = v
    /\ UNCHANGED <<users, invites, requests, sessions, facts>>

(* SetPolicy waits for the policy row. *)
SetPolicy(p, v) ==
    /\ OneShot(p)
    /\ RowFree(PolicyRow, p)
    /\ policy' = v
    /\ UNCHANGED <<users, invites, requests, sessions, facts>>

-----------------------------------------------------------------------------
(* Access requests.  age: 1 past the pending limit, 2 past retention.       *)

Pending(r) == requests[r].status = "pending"

(* At most CleanupBatch of the rows, by id. *)
Batch(rows) == {r \in rows : Cardinality({q \in rows : q < r}) < CleanupBatch}

OverdueAnyStatus == Batch({r \in DOMAIN requests : requests[r].age >= 1 /\ requests[r].status # "purged"})

Overdue == Batch({r \in DOMAIN requests : Pending(r) /\ requests[r].age >= 1})

(* Both statements of sweepExpired, on what the first has chosen. *)
Swept(overdue) ==
    LET expired == [r \in DOMAIN requests |->
                      IF r \in overdue THEN [requests[r] EXCEPT !.status = "expired"]
                      ELSE requests[r]]
        purged  == Batch({r \in DOMAIN requests : /\ expired[r].status \in {"expired", "rejected"}
                                                  /\ expired[r].age = 2})
    IN  [r \in DOMAIN requests |->
            IF r \in purged THEN [expired[r] EXCEPT !.status = "purged"] ELSE expired[r]]

AccessRequest(e) == [email |-> e, status |-> "pending", age |-> 0, under |-> policy]

SubmitLock(p, e) ==
    /\ Begin(p)
    /\ LockRow(PolicyRow, p) /\ Enter(p)
    /\ policy = "approval"
    /\ Goto(p, [Idle EXCEPT !.pc = "submit", !.email = e])
    /\ UNCHANGED <<database, tables>>

(* Sweep, then one pending request per address and none for a user. *)
SubmitAccessRequest(p) ==
    LET e     == proc[p].email
        swept == Swept(Overdue)
        taken == UserCount(e) \/ \E r \in DOMAIN swept : swept[r].email = e /\ swept[r].status = "pending"
    IN  /\ Continue(p, "submit")
        /\ \A r \in Overdue : RowFree(RequestRow(r), p)
        /\ requests' = IF taken \/ Len(requests) = MaxRequests THEN swept
                       ELSE Append(swept, AccessRequest(e))
        /\ Done(p)
        /\ UNCHANGED <<database, policy, users, invites, sessions, facts>>

(* ListAccessRequests: the subquery chooses the rows; the update waits for  *)
(* their locks but, on PostgreSQL, does not look at their status again.    *)
ListScan(p) ==
    /\ Begin(p)
    /\ Overdue # {} \/ Swept({}) # requests
    /\ Enter(p)
    /\ Goto(p, [Idle EXCEPT !.pc = "sweep", !.seen = Overdue])
    /\ UNCHANGED <<database, tables, locks>>

ListSweep(p) ==
    LET chosen == {r \in proc[p].seen : requests[r].status # "purged"}
    IN  /\ Continue(p, "sweep")
        /\ \A r \in chosen : RowFree(RequestRow(r), p)
        /\ requests' = Swept(chosen)
        /\ Done(p)
        /\ UNCHANGED <<database, policy, users, invites, sessions, facts>>

(* ApproveRequest and ReissueInvitation read the request under its row lock. *)
ApproveLock(p, r) ==
    /\ Begin(p)
    /\ r \in DOMAIN requests
    /\ LockRow(RequestRow(r), p) /\ Enter(p)
    /\ Pending(r)
    /\ RoomForInvite
    /\ Goto(p, [Idle EXCEPT !.pc = "approve", !.id = r])
    /\ UNCHANGED <<database, tables>>

ApproveRequest(p) ==
    LET r == proc[p].id
    IN  /\ Continue(p, "approve")
        /\ Done(p)
        /\ \/ /\ Pending(r)
              /\ requests' = [requests EXCEPT ![r].status = "approved"]
              /\ invites' = Append(invites, Invitation("activate", requests[r].email, r, "request"))
           \/ /\ ~Pending(r)
              /\ UNCHANGED <<requests, invites>>
        /\ UNCHANGED <<database, policy, users, sessions, facts>>

RejectRequest(p, r) ==
    /\ OneShot(p)
    /\ r \in DOMAIN requests
    /\ Pending(r) /\ RowFree(RequestRow(r), p)
    /\ requests' = [requests EXCEPT ![r].status = "rejected", ![r].age = 0]
    /\ UNCHANGED <<policy, users, invites, sessions, facts>>

ReissueLock(p, r) ==
    /\ Begin(p)
    /\ r \in DOMAIN requests
    /\ LockRow(RequestRow(r), p) /\ Enter(p)
    /\ requests[r].status = "approved"
    /\ ~UserCount(requests[r].email)
    /\ RoomForInvite
    /\ Goto(p, [Idle EXCEPT !.pc = "reissue", !.id = r,
                            !.seen = {i \in DOMAIN invites :
                                        /\ Outstanding(i)
                                        /\ invites[i].kind = "activate"
                                        /\ invites[i].email = requests[r].email}])
    /\ UNCHANGED <<database, tables>>

(* The outstanding activations the UPDATE saw are revoked, one is issued. *)
ReissueInvitation(p) ==
    LET r       == proc[p].id
        revoked == [i \in DOMAIN invites |->
                      IF i \in proc[p].seen /\ Outstanding(i)
                      THEN [invites[i] EXCEPT !.revoked = TRUE] ELSE invites[i]]
    IN  /\ Continue(p, "reissue")
        /\ invites' = Append(revoked, Invitation("activate", requests[r].email, r, "request"))
        /\ Done(p)
        /\ UNCHANGED <<database, policy, users, requests, sessions, facts>>

-----------------------------------------------------------------------------
(* Sessions *)

Live(s) == ~sessions[s].revoked

Session(e, chain) ==
    [user |-> e, chain |-> chain, revoked |-> FALSE, expired |-> FALSE, stale |-> FALSE]

(* login reads user and password hash, issue inserts session and access token. *)
LoginRead(p, e) ==
    /\ Begin(p)
    /\ users[e].state = "active"
    /\ RoomForSession
    /\ Goto(p, [Idle EXCEPT !.pc = "issue", !.email = e])
    /\ UNCHANGED <<database, tables, conn, locks>>

Issue(p) ==
    /\ Continue(p, "issue")
    /\ sessions' = Append(sessions, Session(proc[p].email, Len(sessions) + 1))
    /\ Goto(p, Idle)
    /\ UNCHANGED <<database, policy, users, invites, requests, facts, conn, locks>>

Refreshable(s) ==
    /\ Live(s) /\ ~sessions[s].expired
    /\ users[sessions[s].user].state = "active"

RefreshRead(p, s) ==
    /\ Begin(p)
    /\ s \in DOMAIN sessions
    /\ Refreshable(s)
    /\ RoomForSession
    /\ Enter(p)
    /\ Goto(p, [Idle EXCEPT !.pc = "rotate", !.id = s])
    /\ UNCHANGED <<database, tables, locks>>

(* The rows UPDATE ... WHERE id=? AND revoked_at IS NULL affects. *)
RotatedAnyway(s) == TRUE
Rotates(s) == Live(s)

Rotate(p) ==
    LET s == proc[p].id
    IN  /\ Continue(p, "rotate")
        /\ \/ /\ Rotates(s)
              /\ sessions' = Append([sessions EXCEPT ![s].revoked = TRUE],
                                    Session(sessions[s].user, sessions[s].chain))
           \/ /\ ~Rotates(s)
              /\ UNCHANGED sessions
        /\ Done(p)
        /\ UNCHANGED <<database, policy, users, invites, requests, facts>>

Logout(p, s) ==
    /\ OneShot(p)
    /\ s \in DOMAIN sessions
    /\ Live(s)
    /\ sessions' = [sessions EXCEPT ![s].revoked = TRUE]
    /\ UNCHANGED <<policy, users, invites, requests, facts>>

(* disable: the UPDATE of the sessions sees those committed when it starts. *)
DisableScan(p, e) ==
    /\ Begin(p)
    /\ UserCount(e)
    /\ Enter(p)
    /\ Goto(p, [Idle EXCEPT !.pc = "disable", !.email = e,
                            !.seen = {s \in DOMAIN sessions : sessions[s].user = e /\ Live(s)}])
    /\ UNCHANGED <<database, tables, locks>>

Disable(p) ==
    /\ Continue(p, "disable")
    /\ users' = [users EXCEPT ![proc[p].email].state = "disabled"]
    /\ sessions' = [s \in DOMAIN sessions |->
                      IF s \in proc[p].seen THEN [sessions[s] EXCEPT !.revoked = TRUE]
                      ELSE sessions[s]]
    /\ Done(p)
    /\ UNCHANGED <<database, policy, invites, requests, facts>>

(* Authenticate: whether the access token of session s is accepted. *)
Authenticate(s) ==
    /\ Live(s)
    /\ users[sessions[s].user].state # "disabled"
    /\ ~sessions[s].stale

-----------------------------------------------------------------------------
(* Time, and requests that end early *)

(* An invitation, a refresh token or an access token expires. *)
ExpireInvitation(i) ==
    /\ ~invites[i].expired
    /\ invites' = [invites EXCEPT ![i].expired = TRUE]
    /\ UNCHANGED <<policy, users, requests, sessions, facts>>

ExpireSession(s) ==
    /\ \/ /\ ~sessions[s].stale
          /\ sessions' = [sessions EXCEPT ![s].stale = TRUE]
       \/ /\ sessions[s].stale /\ ~sessions[s].expired
          /\ sessions' = [sessions EXCEPT ![s].expired = TRUE]
    /\ UNCHANGED <<policy, users, invites, requests, facts>>

AgeRequest(r) ==
    /\ requests[r].age < 2
    /\ requests' = [requests EXCEPT ![r].age = @ + 1]
    /\ UNCHANGED <<policy, users, invites, sessions, facts>>

Elapse ==
    /\ \/ \E i \in DOMAIN invites : ExpireInvitation(i)
       \/ \E s \in DOMAIN sessions : ExpireSession(s)
       \/ \E r \in DOMAIN requests : AgeRequest(r)
    /\ UNCHANGED <<database, proc, conn, locks, ops>>

(* The client goes away, an audit write or the commit fails: rollback. *)
Abort(p) ==
    /\ ~At(p, "idle")
    /\ Goto(p, Idle)
    /\ IF conn = p \/ \E l \in locks : l.by = p THEN Leave(p) ELSE UNCHANGED <<conn, locks>>
    /\ UNCHANGED <<database, tables, ops>>

Arrive(p) ==
    \/ \E e \in Emails : \/ RegisterLock(p, e) \/ SubmitLock(p, e)
                         \/ LoginRead(p, e) \/ DisableScan(p, e)
                         \/ \E k \in Kinds : InviteCheck(p, k, e)
    \/ \E i \in DOMAIN invites : AcceptRead(p, i) \/ RevokeInvitation(p, i)
    \/ \E r \in DOMAIN requests : ApproveLock(p, r) \/ RejectRequest(p, r) \/ ReissueLock(p, r)
    \/ \E s \in DOMAIN sessions : RefreshRead(p, s) \/ Logout(p, s)
    \/ \E v \in Policies \ {policy} : SetPolicy(p, v)
    \/ ListScan(p)

Finish(p) ==
    \/ Register(p) \/ AcceptPolicy(p) \/ Accept(p) \/ CreateInvitation(p)
    \/ SubmitAccessRequest(p) \/ ListSweep(p) \/ ApproveRequest(p) \/ ReissueInvitation(p)
    \/ Issue(p) \/ Rotate(p) \/ Disable(p)

(* capability and the lists read and change nothing. *)
Capability == UNCHANGED vars

Next ==
    \/ \E p \in Procs : Arrive(p) \/ Finish(p) \/ Abort(p)
    \/ Elapse
    \/ Capability

(* Whoever waits for a row or for the connection is queued for it. *)
Fairness == \A p \in Procs : SF_vars(Finish(p))

Spec == Init /\ [][Next]_vars /\ Fairness

-----------------------------------------------------------------------------
(* Correctness *)

User       == [state : {"none", "active", "disabled"}, via : {"none", "earlier", "register"} \cup Kinds,
               under : Policies \cup {"none"}]
InviteRow  == [kind : Kinds, email : Emails, request : Nat, origin : {"admin", "request"},
               used : Emails \cup {Nobody}, revoked : BOOLEAN, expired : BOOLEAN]
AccessRow  == [email : Emails, status : {"pending", "approved", "rejected", "expired", "purged"},
               age : 0 .. 2, under : Policies]
SessionRow == [user : Emails, chain : Nat, revoked : BOOLEAN, expired : BOOLEAN, stale : BOOLEAN]
Process    == [pc : {"idle", "register", "accept-policy", "accept", "invite", "submit", "sweep", "approve",
                     "reissue", "issue", "rotate", "disable"},
               email : Emails \cup {Nobody}, kind : Kinds \cup {"none"}, id : Nat, seen : SUBSET Nat]

(* Types of the tables and of the requests. *)
TypeOK ==
    /\ database \in {"sqlite", "postgres"} /\ policy \in Policies
    /\ users \in [Emails -> User] /\ facts \in [Emails -> Nat]
    /\ invites \in Seq(InviteRow) /\ requests \in Seq(AccessRow) /\ sessions \in Seq(SessionRow)
    /\ proc \in [Procs -> Process]
    /\ conn \in Procs \cup {Nobody}
    /\ \A l \in locks : l.by \in Procs /\ ~At(l.by, "idle")

(* Nobody gets in under a policy that no longer admits them: the policy is    *)
(* still the one that was checked when the account or the request commits    *)
(* (register, inviteAccept and SubmitAccessRequest against SetPolicy).       *)
AdmittedByPolicy ==
    /\ \A e \in Emails : /\ users[e].via = "register" => users[e].under = "open"
                         /\ users[e].via = "self_register" => users[e].under = "invite"
    /\ \A r \in DOMAIN requests : requests[r].under = "approval"

(* Every account created here has one creation fact, and no refused or        *)
(* aborted attempt leaves one (AuditUserCreation).                           *)
UsersAudited ==
    \A e \in Emails : facts[e] = IF UserCount(e) /\ users[e].via # "earlier" THEN 1 ELSE 0

(* Every account is justified: admitted by the policy in force when it was    *)
(* committed, and recorded once (register, inviteAccept, SetPolicy).          *)
AccountsJustified == TypeOK /\ AdmittedByPolicy /\ UsersAudited

(* On SQLite an account made by an invitation is the account its invitation   *)
(* names, so a revoked invitation made none (inviteAccept).  On PostgreSQL    *)
(* the invitation is read without a lock and may be revoked under the reader. *)
InvitationNamesUser ==
    database = "sqlite" => \A e \in Emails :
        Cardinality({i \in DOMAIN invites : invites[i].used = e})
            = IF users[e].via \in Kinds THEN 1 ELSE 0

(* Approval and its reissues leave at most one usable activation, however     *)
(* they interleave (ReissueInvitation's row lock).                           *)
OneActivation ==
    \A r \in DOMAIN requests :
        Cardinality({i \in DOMAIN invites : /\ invites[i].origin = "request"
                                           /\ invites[i].request = r
                                           /\ Outstanding(i)}) <= 1

(* Invitations are spent once, whoever accepts, revokes or reissues them at   *)
(* the same time (inviteAccept, RevokeInvitation, ReissueInvitation).         *)
InvitationsSpentOnce == InvitationNamesUser /\ OneActivation

(* A refresh token is good for one successor: of the sessions that descend    *)
(* from one login at most one is live, although two requests may have read    *)
(* the same token (refresh's conditional update).                            *)
OneLiveSession ==
    \A s, t \in DOMAIN sessions :
        sessions[s].chain = sessions[t].chain /\ Live(s) /\ Live(t) => s = t

(* On SQLite the only session a disabled user may still have is that of a     *)
(* login that had read the user before (no refresh gets past disable), and    *)
(* its access token is not accepted.  On PostgreSQL a refresh may get past,   *)
(* too.                                                                       *)
DisabledStaysOut ==
    database = "sqlite" => \A s \in DOMAIN sessions :
        users[sessions[s].user].state = "disabled" /\ Live(s) => sessions[s].chain = s /\ ~Authenticate(s)

(* Sessions end when they are replaced or their user is disabled, whatever    *)
(* another request had read before (refresh, disable, Authenticate).          *)
SessionsEnd == OneLiveSession /\ DisabledStaysOut

(* On SQLite a decision about an access request stands: neither the other     *)
(* decision nor a sweep that has chosen its rows before overrides it.         *)
DecisionsStand ==
    [][database = "sqlite" => \A r \in DOMAIN requests :
          /\ requests[r].status = "approved" => requests'[r].status = "approved"
          /\ requests[r].status = "rejected" => requests'[r].status \in {"rejected", "purged"}]_vars

(* Every request that has started is answered: no refusal keeps the policy    *)
(* row, a request row or the connection.                                      *)
AlwaysAnswered == \A p \in Procs : ~At(p, "idle") ~> At(p, "idle")
=============================================================================

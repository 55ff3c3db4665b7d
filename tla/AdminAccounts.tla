---------------------------- MODULE AdminAccounts ----------------------------
(***************************************************************************)
(* Administrators: first-run set-up over HTTP and from the command line,   *)
(* sessions, password changes, user and role management                    *)
(* (internal/adminauth), and the credentials they issue                    *)
(* (internal/identities).                                                  *)
(*                                                                         *)
(* Sessions are checked in the database, capabilities and passwords in the *)
(* account model, a copy of the tables that the process keeps in memory    *)
(* (gantry-core; external) and reloads after every change, at every login  *)
(* and for the set-up status.  A reload is a query for the accounts, one   *)
(* for the roles of each, one for the roles, and the installation of what  *)
(* was read.  Whether two reloads exclude each other is gantry-core's      *)
(* affair and not visible here: the model has both.  A password is a       *)
(* number that grows with every change; CSRF tokens are left out.          *)
(***************************************************************************)
EXTENDS Integers, FiniteSets, Sequences

CONSTANTS Admins,       \* accounts
          Procs,        \* requests served at the same time
          Nobody,       \* no process
          MaxOps,       \* bound on requests
          MaxSessions,  \* bound on sessions
          MaxFaults     \* bound on reloads that fail

ASSUME AdminAssumption ==
    /\ Admins # {}
    /\ Nobody \notin Procs
    /\ MaxOps \in Nat /\ MaxSessions \in Nat /\ MaxFaults \in Nat

Roles  == {"administrator", "operator"}
NoRole == "none"

VARIABLES
    database,  \* "sqlite" or "postgres": fixed at start
    exclusive, \* whether one reload waits for another: fixed at start
    admins,    \* [enabled, role, password] of each account; role "none" if absent
    grant,     \* whether the operator role carries accounts.manage
    chosen,    \* whether the registration policy has been chosen by a set-up
    sessions,  \* sessions by number
    creds,     \* credentials by number
    cache,     \* the account model: [admins, grant]
    proc,      \* [pc, op, session, target, arg] of each request
    load,      \* [model, unread, since] of each request's reload: what it has read,
               \* the accounts whose roles it has not, and (auxiliary) after which change
    conn,      \* who is inside a transaction on SQLite's only connection
    advisory,  \* who holds PostgreSQL's advisory lock of the set-up
    changer,   \* auxiliary: the session that last changed an account's password
    changes,   \* auxiliary: how many transactions have changed the accounts
    fresh,     \* auxiliary: after which of them the load of the model began
    missed,    \* auxiliary: the last of them that nobody reloads the model after
    ops, faults

setting == <<database, exclusive>>
store   == <<admins, grant, chosen, sessions, creds, changer, changes>>
model   == <<cache, fresh, missed>>
vars    == <<setting, store, model, proc, load, conn, advisory, ops, faults>>

Idle    == [pc |-> "idle", op |-> "none", session |-> 0, target |-> Nobody, arg |-> Nobody]
Absent  == [enabled |-> FALSE, role |-> NoRole, password |-> 0]
Exists(a) == admins[a].role # NoRole

Tables == [admins |-> admins, grant |-> grant]
NoLoad == [model |-> [admins |-> [a \in Admins |-> Absent], grant |-> FALSE], unread |-> {}, since |-> 0]

(* A new database, or one with administrators, one of them signed in. *)
Init ==
    /\ database \in {"sqlite", "postgres"} /\ exclusive \in BOOLEAN
    /\ \/ admins = [a \in Admins |-> Absent] /\ chosen = FALSE /\ sessions = <<>>
       \/ /\ admins = [a \in Admins |-> [enabled |-> TRUE, role |-> "administrator", password |-> 1]]
          /\ chosen = TRUE
          /\ \E a \in Admins :
                sessions = <<[admin |-> a, revoked |-> FALSE, expired |-> FALSE, born |-> 1]>>
    /\ grant = FALSE /\ creds = <<>>
    /\ cache = Tables
    /\ proc = [p \in Procs |-> Idle] /\ load = [p \in Procs |-> NoLoad]
    /\ conn = Nobody /\ advisory = Nobody
    /\ changer = [a \in Admins |-> 0]
    /\ changes = 0 /\ fresh = 0 /\ missed = 0
    /\ ops = 0 /\ faults = 0

-----------------------------------------------------------------------------
At(p, pc)  == proc[p].pc = pc
Goto(p, s) == proc' = [proc EXCEPT ![p] = s]
CanRun(p)  == database = "sqlite" => conn \in {Nobody, p}

Enter(p)   == conn' = IF database = "sqlite" THEN p ELSE conn

Leave(p) == conn' = Nobody /\ advisory' = IF advisory = p THEN Nobody ELSE advisory

Begin(p) == At(p, "idle") /\ CanRun(p) /\ ops < MaxOps /\ ops' = ops + 1

(* authenticate: the session and its account, in the database. *)
Authenticate(s) ==
    /\ s \in DOMAIN sessions
    /\ ~sessions[s].revoked /\ ~sessions[s].expired
    /\ admins[sessions[s].admin].enabled

(* Capabilities: what the account model grants; administrators have all. *)
Capable(a) ==
    /\ cache.admins[a].enabled
    /\ \/ cache.admins[a].role = "administrator"
       \/ cache.admins[a].role = "operator" /\ cache.grant

-----------------------------------------------------------------------------
(* Set-up: count the administrators, insert the first one with its role and *)
(* the registration policy in one transaction.                              *)

SetupCount(p, a, via) ==
    /\ Begin(p)
    /\ database = "postgres" => advisory = Nobody
    /\ advisory' = IF database = "postgres" THEN p ELSE advisory
    /\ \A b \in Admins : ~Exists(b)
    /\ Enter(p)
    /\ Goto(p, [Idle EXCEPT !.pc = "setup", !.op = via, !.target = a])
    /\ UNCHANGED <<setting, store, model, load, faults>>

(* The command line is another process, so its reload is not the server's;   *)
(* on SQLite the second of two writers that started from one snapshot fails. *)
SetupCommit(p) ==
    /\ At(p, "setup") /\ CanRun(p)
    /\ Leave(p)
    /\ \/ /\ ~Exists(proc[p].target)
          /\ admins' = [admins EXCEPT ![proc[p].target] =
                            [enabled |-> TRUE, role |-> "administrator", password |-> 1]]
          /\ chosen' = TRUE /\ changes' = changes + 1
          /\ \/ /\ proc[p].op = "setup"
                /\ Goto(p, [proc[p] EXCEPT !.pc = "reload"])
                /\ UNCHANGED missed
             \/ proc[p].op = "cli" /\ Goto(p, Idle) /\ missed' = changes + 1
       \/ /\ Exists(proc[p].target)
          /\ Goto(p, Idle)
          /\ UNCHANGED <<admins, chosen, changes, missed>>
    /\ UNCHANGED <<setting, grant, sessions, creds, changer, cache, fresh, load, ops, faults>>

-----------------------------------------------------------------------------
(* Sessions *)

(* login reloads the model and asks it for the password; the set-up status   *)
(* reloads too.                                                             *)
Login(p, a) ==
    /\ Begin(p)
    /\ Goto(p, [Idle EXCEPT !.pc = "reload", !.op = "login", !.target = a])
    /\ UNCHANGED <<setting, store, model, load, conn, advisory, faults>>

SetupRequired(p) ==
    /\ Begin(p)
    /\ Goto(p, [Idle EXCEPT !.pc = "reload", !.op = "status"])
    /\ UNCHANGED <<setting, store, model, load, conn, advisory, faults>>

(* AuthenticatePassword: whoever gives the password that the model has.      *)
AuthenticatePassword(p) ==
    /\ At(p, "check")
    /\ cache.admins[proc[p].target].enabled
    /\ Goto(p, [proc[p] EXCEPT !.pc = "issue", !.arg = cache.admins[proc[p].target].password])
    /\ UNCHANGED <<setting, store, model, load, conn, advisory, ops, faults>>

(* issueSession.  born is the password at that moment, not the one given. *)
IssueSession(p) ==
    /\ At(p, "issue") /\ CanRun(p)
    /\ Len(sessions) < MaxSessions
    /\ sessions' = Append(sessions, [admin |-> proc[p].target, revoked |-> FALSE, expired |-> FALSE,
                                     born |-> admins[proc[p].target].password])
    /\ Goto(p, Idle)
    /\ UNCHANGED <<setting, admins, grant, chosen, creds, changer, changes, model, load, conn, advisory, ops, faults>>

Logout(p, s) ==
    /\ Begin(p)
    /\ Authenticate(s)
    /\ sessions' = [sessions EXCEPT ![s].revoked = TRUE]
    /\ UNCHANGED <<setting, admins, grant, chosen, creds, changer, changes, model, proc, load, conn, advisory, faults>>

-----------------------------------------------------------------------------
(* Mutations: authorize, begin, write and commit, reload. *)

(* manageUsers, manageRoles and changePassword check the session, and all    *)
(* but the last the model's capabilities.                                   *)
Authorize(p, s, op, target, arg) ==
    /\ Begin(p)
    /\ Authenticate(s)
    /\ op # "password" => Capable(sessions[s].admin)
    /\ Goto(p, [pc |-> "begin", op |-> op, session |-> s, target |-> target, arg |-> arg])
    /\ UNCHANGED <<setting, store, model, load, conn, advisory, faults>>

(* canDemote: another enabled administrator remains. *)
CanDemoteCountsSelf(a) ==
    \/ admins[a].role # "administrator"
    \/ \E b \in Admins : admins[b].enabled /\ admins[b].role = "administrator"

CanDemote(a) ==
    \/ admins[a].role # "administrator"
    \/ \E b \in Admins \ {a} : admins[b].enabled /\ admins[b].role = "administrator"

(* What the transaction reads before it writes decides whether it goes on.  *)
(* A create whose INSERT is refused goes on all the same (its error is lost *)
(* in an inner variable), unless PostgreSQL has given the transaction up.   *)
Permitted(op, s, target, arg) ==
    /\ op = "create" => ~Exists(target) \/ database = "sqlite"
    /\ op = "update" => Exists(target)
    /\ op = "update" /\ (~arg.enabled \/ arg.role # "administrator") => CanDemote(target)
    /\ op = "password" => admins[target].password = arg      \* verifyPassword

BeginMutation(p) ==
    LET r == proc[p]
    IN  /\ At(p, "begin") /\ CanRun(p)
        /\ \/ /\ Permitted(r.op, r.session, r.target, r.arg)
              /\ Enter(p)
              /\ Goto(p, [r EXCEPT !.pc = "write"])
           \/ /\ ~Permitted(r.op, r.session, r.target, r.arg)
              /\ Goto(p, Idle)
              /\ UNCHANGED conn
        /\ UNCHANGED <<setting, store, model, load, advisory, ops, faults>>

(* Sessions of the account other than the caller's are revoked. *)
EvictedNone(target, s) == sessions

Evicted(target, s) ==
    [t \in DOMAIN sessions |->
        IF sessions[t].admin = target /\ t # s THEN [sessions[t] EXCEPT !.revoked = TRUE]
        ELSE sessions[t]]

WriteAccount(op, target, arg) ==
    admins' = CASE op = "create" /\ ~Exists(target) ->
                     [admins EXCEPT ![target] = [enabled |-> TRUE, role |-> arg, password |-> 1]]
                [] op = "update" ->
                     [admins EXCEPT ![target].enabled = arg.enabled, ![target].role = arg.role]
                [] op \in {"reset", "password"} /\ Exists(target) -> [admins EXCEPT ![target].password = @ + 1]
                [] OTHER -> admins

CommitMutation(p) ==
    LET r == proc[p]
    IN  /\ At(p, "write")
        /\ Leave(p)
        /\ WriteAccount(r.op, r.target, r.arg)
        /\ grant' = IF r.op = "roles" THEN ~grant ELSE grant
        /\ sessions' = IF r.op \in {"reset", "password", "revoke"} THEN Evicted(r.target, r.session)
                       ELSE sessions
        /\ changer' = IF r.op \in {"reset", "password"}
                      THEN [changer EXCEPT ![r.target] = r.session] ELSE changer
        /\ changes' = changes + 1
        /\ Goto(p, [r EXCEPT !.pc = "reload"])
        /\ UNCHANGED <<setting, chosen, creds, model, load, ops, faults>>

-----------------------------------------------------------------------------
(* Reload *)
Reloading(p)  == proc[p].pc \in {"reload", "roles", "install"}
Changed(p)    == proc[p].op \notin {"login", "status"}
SetLoad(p, r) == load' = [load EXCEPT ![p] = r]

(* LoadAccounts: the accounts, without their roles. *)
LoadAccounts(p) ==
    /\ At(p, "reload") /\ CanRun(p)
    /\ exclusive => \A q \in Procs : ~At(q, "roles") /\ ~At(q, "install")
    /\ SetLoad(p, [model  |-> [admins |-> [a \in Admins |-> [admins[a] EXCEPT !.role = NoRole]], grant |-> FALSE],
                   unread |-> {a \in Admins : Exists(a)}, since |-> changes])
    /\ Goto(p, [proc[p] EXCEPT !.pc = "roles"])
    /\ UNCHANGED <<setting, store, model, conn, advisory, ops, faults>>

(* accountRoles: a query for each account. *)
AccountRoles(p, a) ==
    /\ At(p, "roles") /\ CanRun(p) /\ a \in load[p].unread
    /\ SetLoad(p, [load[p] EXCEPT !.model.admins[a].role = admins[a].role, !.unread = @ \ {a}])
    /\ UNCHANGED <<setting, store, model, proc, conn, advisory, ops, faults>>

LoadRoles(p) ==
    /\ At(p, "roles") /\ CanRun(p) /\ load[p].unread = {}
    /\ SetLoad(p, [load[p] EXCEPT !.model.grant = grant])
    /\ Goto(p, [proc[p] EXCEPT !.pc = "install"])
    /\ UNCHANGED <<setting, store, model, conn, advisory, ops, faults>>

(* What follows the reload. *)
Continue(p) ==
    CASE proc[p].op = "setup" -> Goto(p, [proc[p] EXCEPT !.pc = "issue"])
      [] proc[p].op = "login" -> Goto(p, [proc[p] EXCEPT !.pc = "check"])
      [] OTHER -> Goto(p, Idle)

InstallAccountsOnly(p) ==
    /\ At(p, "install")
    /\ cache' = [load[p].model EXCEPT !.grant = cache.grant] /\ fresh' = load[p].since
    /\ SetLoad(p, NoLoad)
    /\ Continue(p)
    /\ UNCHANGED <<setting, store, missed, conn, advisory, ops, faults>>

Install(p) ==
    /\ At(p, "install")
    /\ cache' = load[p].model /\ fresh' = load[p].since
    /\ SetLoad(p, NoLoad)
    /\ Continue(p)
    /\ UNCHANGED <<setting, store, missed, conn, advisory, ops, faults>>

(* A query fails: the change is committed and the request answered 500. *)
ReloadFails(p) ==
    /\ Reloading(p)
    /\ faults < MaxFaults
    /\ faults' = faults + 1
    /\ missed' = IF Changed(p) THEN changes ELSE missed
    /\ SetLoad(p, NoLoad)
    /\ Goto(p, Idle)
    /\ UNCHANGED <<setting, store, cache, fresh, conn, advisory, ops>>

(* The client goes away or a statement fails before the commit. *)
Abort(p) ==
    /\ proc[p].pc \in {"setup", "begin", "write", "check", "issue"}
    /\ Goto(p, Idle)
    /\ IF conn = p \/ advisory = p THEN Leave(p) ELSE UNCHANGED <<conn, advisory>>
    /\ UNCHANGED <<setting, store, model, load, ops, faults>>

-----------------------------------------------------------------------------
(* Credentials *)

CreateCredential(p, s, kind) ==
    /\ Begin(p)
    /\ Authenticate(s)
    /\ creds' = Append(creds, [kind |-> kind, owner |-> sessions[s].admin, revoked |-> FALSE,
                               expired |-> FALSE, used |-> FALSE])
    /\ UNCHANGED <<setting, admins, grant, chosen, sessions, changer, changes, model, proc, load, conn, advisory, faults>>

RevokeCredential(p, s, c) ==
    /\ Begin(p)
    /\ Authenticate(s)
    /\ ~creds[c].revoked
    /\ creds' = [creds EXCEPT ![c].revoked = TRUE]
    /\ UNCHANGED <<setting, admins, grant, chosen, sessions, changer, changes, model, proc, load, conn, advisory, faults>>

AcceptsCredential(c) == ~creds[c].revoked /\ ~creds[c].expired

(* Authenticate checks, and then notes the use in statements of their own. *)
UseCredential(p, c) ==
    /\ Begin(p)
    /\ AcceptsCredential(c)
    /\ Goto(p, [Idle EXCEPT !.pc = "note", !.op = "credential", !.session = c])
    /\ UNCHANGED <<setting, store, model, load, conn, advisory, faults>>

NoteUse(p) ==
    /\ At(p, "note") /\ CanRun(p)
    /\ creds' = [creds EXCEPT ![proc[p].session].used = TRUE]
    /\ Goto(p, Idle)
    /\ UNCHANGED <<setting, admins, grant, chosen, sessions, changer, changes, model, load, conn, advisory, ops, faults>>

Expire ==
    /\ \/ \E s \in DOMAIN sessions : /\ ~sessions[s].expired
                                     /\ sessions' = [sessions EXCEPT ![s].expired = TRUE]
                                     /\ UNCHANGED creds
       \/ \E c \in DOMAIN creds : /\ ~creds[c].expired
                                  /\ creds' = [creds EXCEPT ![c].expired = TRUE]
                                  /\ UNCHANGED sessions
    /\ UNCHANGED <<setting, admins, grant, chosen, changer, changes, model, proc, load, conn, advisory, ops, faults>>

-----------------------------------------------------------------------------
Updates == {[enabled |-> TRUE, role |-> r] : r \in Roles} \cup {[enabled |-> FALSE, role |-> "administrator"]}

Mutations(s) ==
    {<<"password", sessions[s].admin, admins[sessions[s].admin].password>>,
     <<"roles", sessions[s].admin, Nobody>>}
      \cup {<<op, a, Nobody>> : op \in {"reset", "revoke"}, a \in Admins}
      \cup {<<"create", a, r>> : a \in Admins, r \in Roles}
      \cup {<<"update", a, u>> : a \in Admins, u \in Updates}

Arrive(p) ==
    \/ \E a \in Admins, via \in {"setup", "cli"} : SetupCount(p, a, via)
    \/ \E a \in Admins : Login(p, a)
    \/ \E s \in DOMAIN sessions :
         \/ Logout(p, s)
         \/ \E m \in Mutations(s) : Authorize(p, s, m[1], m[2], m[3])
         \/ creds = <<>> /\ \E k \in {"service", "personal"} : CreateCredential(p, s, k)
         \/ \E c \in DOMAIN creds : RevokeCredential(p, s, c)
    \/ \E c \in DOMAIN creds : UseCredential(p, c)
    \/ SetupRequired(p)

Finish(p) ==
    \/ SetupCommit(p) \/ AuthenticatePassword(p) \/ IssueSession(p) \/ BeginMutation(p) \/ CommitMutation(p)
    \/ LoadAccounts(p) \/ (\E a \in Admins : AccountRoles(p, a)) \/ LoadRoles(p) \/ Install(p) \/ ReloadFails(p)
    \/ NoteUse(p) \/ Abort(p)

(* Lists and the current session are reads. *)
List == UNCHANGED vars

Next == (\E p \in Procs : Arrive(p) \/ Finish(p)) \/ Expire \/ List

Spec == Init /\ [][Next]_vars

-----------------------------------------------------------------------------
(* Correctness *)

Account == [enabled : BOOLEAN, role : Roles \cup {NoRole}, password : Nat]

(* Types of the tables and of the requests. *)
TypeOK ==
    /\ admins \in [Admins -> Account]
    /\ cache \in [admins : [Admins -> Account], grant : BOOLEAN]
    /\ \A s \in DOMAIN sessions : Exists(sessions[s].admin)
    /\ conn \in Procs \cup {Nobody} /\ advisory \in Procs \cup {Nobody}
    /\ advisory # Nobody => At(advisory, "setup")

(* A set-up has one winner: accounts exist once the policy has been chosen    *)
(* with the first of them, and no set-up goes on after that (setup,           *)
(* SetupAdministrator).                                                       *)
OneSetup ==
    /\ chosen <=> \E a \in Admins : Exists(a)
    /\ chosen => \A p \in Procs : ~At(p, "setup")

(* On SQLite an enabled administrator remains, whatever administrators do to  *)
(* each other at the same time (canDemote).  On PostgreSQL nothing serializes *)
(* the check with the update.                                                 *)
AdministratorRemains ==
    database = "sqlite" /\ chosen =>
        \E a \in Admins : admins[a].enabled /\ admins[a].role = "administrator"

(* From the one set-up on there is somebody who can administer (setup,        *)
(* canDemote).                                                                *)
AdministratorAlways == TypeOK /\ OneSetup /\ AdministratorRemains

(* The account model that grants capabilities is the database's, although it *)
(* is read query by query beside other changes and reloads, except while     *)
(* somebody who has changed an account is not answered yet, and after a      *)
(* failed reload or a set-up by another process, until the next reload.  If  *)
(* reloads do not exclude each other there is one more exception: a slow one *)
(* that began before the last change may put its older model over the new    *)
(* one, and nobody notices until the next (Reload after every commit).       *)
ModelFollows ==
    \/ cache = Tables
    \/ fresh < missed
    \/ \E p \in Procs : Reloading(p) /\ Changed(p)
    \/ ~exclusive /\ fresh < changes

(* On SQLite a password change ends every session of the account that was     *)
(* open when it committed, except the one that made it (changePassword,       *)
(* reset-password).  A login that checked the old password and inserts its    *)
(* session later survives; so may, on PostgreSQL, one that commits first.     *)
PasswordChangeEvicts ==
    database = "sqlite" => \A s \in DOMAIN sessions :
        LET a == sessions[s].admin
        IN  ~sessions[s].revoked /\ sessions[s].born < admins[a].password => s = changer[a]
=============================================================================

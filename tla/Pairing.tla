------------------------------- MODULE Pairing -------------------------------
(***************************************************************************)
(* Pairing of Trestle nodes and the signed requests between them           *)
(* (internal/cluster).  A host issues an invitation; a joiner submits a    *)
(* join request with it; the host's administrator decides; the joiner      *)
(* collects the answer, once.  Each side then holds a member row with the  *)
(* secret it presents and the one it expects.                              *)
(*                                                                         *)
(* A secret is named by who drew it, and for which request.  Handlers take *)
(* two steps: they arrive (the clock is read, and on PostgreSQL the row)   *)
(* and commit.  On SQLite one connection serves every transaction, so the  *)
(* row read is the current one.  Either side may crash and either answer   *)
(* may be lost.  A signed request is authenticated in statements of their  *)
(* own, with readings of the clock between them.  Identities, endpoints    *)
(* and protocol versions are valid.                                        *)
(***************************************************************************)
EXTENDS Integers, FiniteSets, Sequences

CONSTANTS Nodes,
          MaxInvites,   \* bound on invitations
          MaxRequests,  \* bound on join requests
          MaxCalls,     \* bound on handlers at work at once
          MaxCopies,    \* bound on authentications at work at once
          MaxSends,     \* bound on signed requests
          MaxEvents,    \* bound on faults, lifetimes ending and changes to members
          ClockSkew,    \* how far a signed request's time may be off
          MaxClock      \* bound on the clock

ASSUME PairingAssumption ==
    {MaxInvites, MaxRequests, MaxCalls, MaxCopies, MaxSends, MaxEvents, ClockSkew, MaxClock} \subseteq Nat

VARIABLES
    provider,  \* the database of every node: "sqlite" or "postgres"
    member,    \* member[n][m]: n's row about m
    invites,   \* invitations: [host, state, expired]
    requests,  \* join requests, with the joiner's outbound row in "out"
    calls,     \* handlers at work
    paired,    \* whether the nodes began as members of one another
    events,
    raced,     \* auxiliary: what PostgreSQL handlers changed under one another
    straddled, \* auxiliary: requests decided in time but committed after it
    clock, sent, sends, nonces,
    auths,     \* authentications at work: [msg, pc, at, orphan, slot]
    accepted,  \* auxiliary: how often each signed request was let in
    outlived   \* auxiliary: requests let in when their window closed, or in a removed member's name

setting       == <<provider, paired>>
pairingVars   == <<setting, member, invites, requests, calls, events, raced, straddled>>
transportVars == <<clock, sent, sends, nonces, auths, accepted, outlived>>
vars          == <<pairingVars, transportVars>>

States == {"none", "active", "disabled", "revoked"}

(* The secrets of request r: the joiner's, the one a handler of the host   *)
(* draws when it answers, and the one nobody is told; and one from Rotate. *)
NoSecret            == <<"none", 0, 0>>
JoinerSecret(r)     == <<"joiner", r, 0>>
Credential(r, slot) == <<"host", r, slot>>
Placeholder(r)      == <<"host", r, 0>>
Rotated(k)          == <<"rotated", 0, k>>
Of(key)             == key[2]

NoMember        == [state |-> "none", out |-> NoSecret, in |-> NoSecret]
Active(out, in) == [state |-> "active", out |-> out, in |-> in]

(* Nodes that do not know each other, or two that have paired: the second  *)
(* joined the first.                                                       *)
Paired(h, j) ==
    /\ member = [n \in Nodes |-> [m \in Nodes |->
                    CASE n = h /\ m = j -> Active(JoinerSecret(1), Credential(1, 1))
                      [] n = j /\ m = h -> Active(Credential(1, 1), JoinerSecret(1))
                      [] OTHER -> NoMember]]
    /\ invites = <<[host |-> h, state |-> "used", expired |-> FALSE]>>
    /\ requests = <<[host |-> h, node |-> j, invite |-> 1, state |-> "used", expired |-> FALSE,
                     out |-> "approved"]>>

Init ==
    /\ provider \in {"sqlite", "postgres"} /\ paired \in BOOLEAN
    /\ IF paired
       THEN \E h \in Nodes, j \in Nodes : h # j /\ Paired(h, j)
       ELSE member = [n \in Nodes |-> [m \in Nodes |-> NoMember]] /\ invites = <<>> /\ requests = <<>>
    /\ events \in 0 .. MaxEvents /\ sends \in 0 .. MaxSends  \* budgets, spent or not
    /\ calls = {} /\ raced = {} /\ straddled = {}
    /\ clock = 0 /\ sent = <<>> /\ nonces = {} /\ auths = {} /\ accepted = <<>> /\ outlived = {}

-----------------------------------------------------------------------------
Event   == events < MaxEvents /\ events' = events + 1
NoEvent == UNCHANGED events

(* A handler sees the row of its own transaction on SQLite, and on         *)
(* PostgreSQL the one it read, perhaps changed since.                      *)
Seen(c, current)  == IF provider = "sqlite" THEN current ELSE c.seen
Stale(c, current) == provider = "postgres" /\ c.seen # current

FreeSlots == {k \in 1 .. MaxCalls : \A c \in calls : c.slot # k}

Arrive(c) == FreeSlots # {} /\ calls' = calls \cup {c}
Leave(c)  == calls' = calls \ {c}

Call(kind, n, id, seen, late) ==
    [kind |-> kind, node |-> n, id |-> id, late |-> late, answer |-> "none",
     seen |-> IF provider = "sqlite" THEN "later" ELSE seen, slot |-> CHOOSE k \in FreeSlots : TRUE]

Invite(h) ==
    /\ Len(invites) < MaxInvites
    /\ invites' = Append(invites, [host |-> h, state |-> "pending", expired |-> FALSE])
    /\ UNCHANGED <<setting, member, requests, calls, events, raced, straddled, transportVars>>

(* The lifetimes of invitations and requests end. *)
Expire ==
    /\ Event
    /\ \/ \E i \in DOMAIN invites :
             /\ ~ invites[i].expired
             /\ invites' = [invites EXCEPT ![i].expired = TRUE] /\ UNCHANGED requests
       \/ \E r \in DOMAIN requests :
             /\ ~ requests[r].expired
             /\ requests' = [requests EXCEPT ![r].expired = TRUE] /\ UNCHANGED invites
    /\ UNCHANGED <<setting, member, calls, raced, straddled, transportVars>>

(* BeginOutbound: the joiner draws the secret it will expect of the host   *)
(* and posts it with the invitation.                                       *)
BeginOutbound(n, i) ==
    /\ invites[i].host # n
    /\ Len(requests) + Cardinality({c \in calls : c.kind = "submit"}) < MaxRequests
    /\ Arrive(Call("submit", n, i, invites[i].state, invites[i].expired))
    /\ UNCHANGED <<setting, member, invites, requests, events, raced, straddled, transportVars>>

Submitted(c, out) ==
    [host |-> invites[c.id].host, node |-> c.node, invite |-> c.id,
     state |-> "pending", expired |-> FALSE, out |-> out]

SubmitUnmarked(c) ==
    /\ c.kind = "submit"
    /\ IF Seen(c, invites[c.id].state) = "pending" /\ ~ c.late
       THEN /\ requests' = Append(requests, Submitted(c, "pending"))
            /\ UNCHANGED <<invites, events, raced>>
       ELSE UNCHANGED <<invites, requests, events, raced>>
    /\ Leave(c)
    /\ UNCHANGED <<setting, member, straddled, transportVars>>

(* SubmitJoin: the request, and the invitation's mark, whose count of rows *)
(* nobody looks at.  A joiner that misses the receipt keeps no row.        *)
SubmitJoin(c) ==
    /\ c.kind = "submit"
    /\ IF Seen(c, invites[c.id].state) = "pending" /\ ~ c.late
       THEN /\ \/ requests' = Append(requests, Submitted(c, "pending")) /\ NoEvent
               \/ requests' = Append(requests, Submitted(c, "none")) /\ Event
            /\ invites' = [invites EXCEPT ![c.id].state = "used"]
            /\ raced' = IF Stale(c, invites[c.id].state) THEN raced \cup {<<"invite", c.id>>} ELSE raced
       ELSE UNCHANGED <<invites, requests, events, raced>>
    /\ Leave(c)
    /\ UNCHANGED <<setting, member, straddled, transportVars>>

-----------------------------------------------------------------------------
(* The host's administrator decides. *)
Decide(r, verdict) ==
    /\ requests[r].state = "pending"
    /\ Arrive(Call(verdict, requests[r].host, r, "pending", requests[r].expired))
    /\ UNCHANGED <<setting, member, invites, requests, events, raced, straddled, transportVars>>

Verdict(c) == IF c.kind = "approve" THEN "approved" ELSE "rejected"

(* The member row an approval writes: the joiner's secret to present, and  *)
(* a placeholder to expect until the answer is collected.                  *)
Admit(c) ==
    IF c.kind = "approve"
    THEN member' = [member EXCEPT ![requests[c.id].host][requests[c.id].node] =
                       Active(JoinerSecret(c.id), Placeholder(c.id))]
    ELSE UNCHANGED member

Decided(c) ==
    LET r == requests[c.id] IN
    /\ Admit(c)
    /\ requests' = [requests EXCEPT ![c.id].state = IF @ = "pending" THEN Verdict(c) ELSE @]
    /\ raced' = IF Stale(c, r.state) THEN raced \cup {<<"request", c.id>>} ELSE raced
    /\ straddled' = IF r.expired /\ ~ c.late THEN straddled \cup {c.id} ELSE straddled

Undecided == UNCHANGED <<member, requests, raced, straddled>>

DecideAgain(c) ==
    /\ c.kind \in {"approve", "reject"}
    /\ IF c.late THEN Undecided ELSE Decided(c)
    /\ Leave(c)
    /\ UNCHANGED <<setting, invites, events, transportVars>>

(* DecideJoin: a request that is decided or has expired is left alone. *)
DecideJoin(c) ==
    /\ c.kind \in {"approve", "reject"}
    /\ IF Seen(c, requests[c.id].state) # "pending" \/ c.late THEN Undecided ELSE Decided(c)
    /\ Leave(c)
    /\ UNCHANGED <<setting, invites, events, transportVars>>

-----------------------------------------------------------------------------
(* CollectOutbound: a joiner with a pending row asks for the answer. *)
Collect(r) ==
    /\ requests[r].out = "pending"
    /\ Arrive(Call("collect", requests[r].node, r, requests[r].state, requests[r].expired))
    /\ UNCHANGED <<setting, member, invites, requests, events, raced, straddled, transportVars>>

Answer(c, a) == calls' = (calls \ {c}) \cup {[c EXCEPT !.answer = a]}

(* The credential of an approved request replaces what the host expects,   *)
(* whatever the member row's state is; no row, no replacement.             *)
Issue(c) ==
    /\ member' = [member EXCEPT ![requests[c.id].host][requests[c.id].node] =
                     IF @.state = "none" THEN @ ELSE [@ EXCEPT !.in = Credential(c.id, c.slot)]]
    /\ Answer(c, "approved")

PollAgain(c) ==
    /\ c.kind = "collect" /\ c.answer = "none"
    /\ LET s == Seen(c, requests[c.id].state) IN
       IF s = "approved"
       THEN /\ Issue(c) /\ UNCHANGED <<requests, raced>>
       ELSE /\ Answer(c, IF s = "pending" /\ c.late THEN "expired" ELSE s)
            /\ UNCHANGED <<member, requests, raced>>
    /\ UNCHANGED <<setting, invites, events, straddled, transportVars>>

(* PollJoin.  An approved request is answered with a new credential and    *)
(* marked used; any later poll is told "used", without one.                *)
PollJoin(c) ==
    /\ c.kind = "collect" /\ c.answer = "none"
    /\ LET s == Seen(c, requests[c.id].state) IN
       IF s = "approved"
       THEN /\ Issue(c)
            /\ requests' = [requests EXCEPT ![c.id].state = "used"]
            /\ raced' = IF Stale(c, requests[c.id].state) THEN raced \cup {<<"request", c.id>>} ELSE raced
       ELSE /\ Answer(c, IF s = "pending" /\ c.late THEN "expired" ELSE s)
            /\ UNCHANGED <<member, requests, raced>>
    /\ UNCHANGED <<setting, invites, events, straddled, transportVars>>

(* AcceptRemote, before the joiner's outbound row is updated. *)
AcceptRemote(c) ==
    /\ c.kind = "collect" /\ c.answer = "approved"
    /\ LET r == requests[c.id] IN
       member' = [member EXCEPT ![r.node][r.host] = Active(Credential(c.id, c.slot), JoinerSecret(c.id))]
    /\ Answer(c, "accepted")
    /\ UNCHANGED <<setting, invites, requests, events, raced, straddled, transportVars>>

(* Anything but a verdict leaves the row pending, or makes it so again. *)
Outcome(answer) ==
    CASE answer = "accepted" -> "approved"
      [] answer \in {"rejected", "expired"} -> answer
      [] OTHER -> "pending"

CollectOutbound(c) ==
    /\ c.kind = "collect" /\ c.answer \notin {"none", "approved"}
    /\ requests' = [requests EXCEPT ![c.id].out = Outcome(c.answer)]
    /\ Leave(c)
    /\ UNCHANGED <<setting, member, invites, events, raced, straddled, transportVars>>

(* A crash, a timeout or a lost answer ends a call where it stands: what   *)
(* it has not committed is rolled back.                                    *)
Lose(c) ==
    /\ Event
    /\ Leave(c)
    /\ UNCHANGED <<setting, member, invites, requests, raced, straddled, transportVars>>

-----------------------------------------------------------------------------
(* SetEnabled, Revoke, Remove (whose cascade forgets nonces) and Rotate,   *)
(* which draws a new secret to present and tells the peer nothing.         *)
SetMember(n, m, rec) ==
    /\ Event
    /\ member' = [member EXCEPT ![n][m] = rec]
    /\ UNCHANGED <<setting, invites, requests, calls, raced, straddled, clock, sent, sends, accepted, outlived>>

EnableAny(n, m) ==
    /\ member[n][m].state # "none"
    /\ SetMember(n, m, [member[n][m] EXCEPT !.state = IF @ = "active" THEN "disabled" ELSE "active"])
    /\ UNCHANGED <<nonces, auths>>

SetEnabled(n, m) ==
    /\ member[n][m].state \in {"active", "disabled"}
    /\ SetMember(n, m, [member[n][m] EXCEPT !.state = IF @ = "active" THEN "disabled" ELSE "active"])
    /\ UNCHANGED <<nonces, auths>>

Revoke(n, m) ==
    /\ member[n][m].state \in {"active", "disabled"}
    /\ SetMember(n, m, [member[n][m] EXCEPT !.state = "revoked"])
    /\ UNCHANGED <<nonces, auths>>

Remove(n, m) ==
    /\ member[n][m].state = "revoked"
    /\ SetMember(n, m, NoMember)
    /\ nonces' = {x \in nonces : ~ (x.at = n /\ x.from = m)}
    /\ auths' = {[a EXCEPT !.orphan = @ \/ (sent[a.msg].to = n /\ sent[a.msg].from = m)] : a \in auths}

Rotate(n, m) ==
    /\ member[n][m].state = "active"
    /\ SetMember(n, m, [member[n][m] EXCEPT !.out = Rotated(events)])
    /\ UNCHANGED <<nonces, auths>>

-----------------------------------------------------------------------------
(* Transport.Do: a request signed with the secret for the peer, its nonce  *)
(* (its place in "sent") and the sender's time.  The network may deliver   *)
(* it again and again.                                                     *)
Do(n, m) ==
    /\ member[n][m].state = "active" /\ sends < MaxSends /\ sends' = sends + 1
    /\ \E stamp \in clock - ClockSkew .. clock + ClockSkew :
          sent' = Append(sent, [from |-> n, to |-> m, key |-> member[n][m].out, stamp |-> stamp])
    /\ accepted' = Append(accepted, 0)
    /\ UNCHANGED <<pairingVars, clock, nonces, auths, outlived>>

(* ReadEnvelope and VerifyIncoming. *)
Verifies(msg) ==
    /\ clock \in msg.stamp - ClockSkew .. msg.stamp + ClockSkew
    /\ member[msg.to][msg.from].state = "active"
    /\ member[msg.to][msg.from].in = msg.key

FreeAuths == {k \in 1 .. MaxCopies : \A a \in auths : a.slot # k}

(* Authenticate: the envelope and the member row are verified ...          *)
Authenticate(x) ==
    /\ Verifies(sent[x]) /\ FreeAuths # {}
    /\ auths' = auths \cup {[msg |-> x, pc |-> "purge", at |-> clock, orphan |-> FALSE,
                             slot |-> CHOOSE k \in FreeAuths : TRUE]}
    /\ UNCHANGED <<pairingVars, clock, sent, sends, nonces, accepted, outlived>>

Forgotten(y, t) == y.seen < t - ClockSkew

(* ... then, by a later reading t of the clock, the node's old nonces are  *)
(* deleted ...  Times are compared as text, whose fractions of a second    *)
(* end where their zeros begin: within one second either may be the lesser.*)
Purgeable(y, t) == y.seen < t - 2 * ClockSkew
Tied(y, t)      == y.seen = t - 2 * ClockSkew

(* ... and an error is ignored.                                            *)
PurgeNonces(a) ==
    LET mine == {y \in nonces : y.at = sent[a.msg].to} IN
    /\ a.pc = "purge"
    /\ \/ \E t \in a.at .. clock : \E ties \in SUBSET {y \in mine : Tied(y, t)} :
             nonces' = nonces \ ({y \in mine : Purgeable(y, t)} \cup ties)
       \/ UNCHANGED nonces
    /\ auths' = (auths \ {a}) \cup {[a EXCEPT !.pc = "insert", !.at = clock]}
    /\ UNCHANGED <<pairingVars, clock, sent, sends, accepted, outlived>>

(* At last the nonce is inserted, with a reading of the clock, under its   *)
(* member.  One already there refuses the request, and so does a member    *)
(* that has gone: of copies that race the first to be inserted wins.       *)
InsertNonce(a) ==
    LET msg == sent[a.msg] IN
    /\ a.pc = "insert"
    /\ IF \/ member[msg.to][msg.from].state = "none"
          \/ \E y \in nonces : y.at = msg.to /\ y.from = msg.from /\ y.nonce = a.msg
       THEN UNCHANGED <<nonces, accepted, outlived>>
       ELSE /\ \E t \in a.at .. clock :
                  nonces' = nonces \cup {[at |-> msg.to, from |-> msg.from, nonce |-> a.msg, seen |-> t]}
            /\ accepted' = [accepted EXCEPT ![a.msg] = @ + 1]
            /\ outlived' = IF a.orphan \/ clock >= msg.stamp + ClockSkew THEN outlived \cup {a.msg} ELSE outlived
    /\ auths' = auths \ {a}
    /\ UNCHANGED <<pairingVars, clock, sent, sends>>

(* The request is cancelled, the node crashes, or a statement fails. *)
Drop(a) ==
    /\ auths' = auths \ {a}
    /\ UNCHANGED <<pairingVars, clock, sent, sends, nonces, accepted, outlived>>

(* Time, in seconds or coarser units. *)
Tick ==
    /\ clock < MaxClock
    /\ clock' = clock + 1
    /\ UNCHANGED <<pairingVars, sent, sends, nonces, auths, accepted, outlived>>

-----------------------------------------------------------------------------
Idle == UNCHANGED vars

Handler(c) ==
    \/ SubmitJoin(c) \/ DecideJoin(c) \/ PollJoin(c) \/ AcceptRemote(c) \/ CollectOutbound(c) \/ Lose(c)

Pair(n, m) ==
    SetEnabled(n, m) \/ Revoke(n, m) \/ Remove(n, m) \/ Rotate(n, m) \/ Do(n, m)

Next ==
    \/ \E h \in Nodes : Invite(h)
    \/ Expire
    \/ \E n \in Nodes, i \in DOMAIN invites : BeginOutbound(n, i)
    \/ \E r \in DOMAIN requests : Collect(r) \/ \E v \in {"approve", "reject"} : Decide(r, v)
    \/ \E c \in calls : Handler(c)
    \/ \E n \in Nodes, m \in Nodes : Pair(n, m)
    \/ \E x \in DOMAIN sent : Authenticate(x)
    \/ \E a \in auths : PurgeNonces(a) \/ InsertNonce(a) \/ Drop(a)
    \/ Tick
    \/ Idle

Spec == Init /\ [][Next]_vars

-----------------------------------------------------------------------------
Secret     == {"none", "joiner", "host", "rotated"} \X Nat \X Int
MemberRow  == [state : States, out : Secret, in : Secret]
InviteRow  == [host : Nodes, state : {"pending", "used"}, expired : BOOLEAN]
Decisions  == {"pending", "approved", "rejected", "used"}
RequestRow == [host : Nodes, node : Nodes, invite : Nat, state : Decisions, expired : BOOLEAN,
               out : {"none", "pending", "approved", "rejected", "expired"}]
CallRow    == [kind : {"submit", "approve", "reject", "collect"}, node : Nodes, id : Nat,
               late : BOOLEAN, answer : Decisions \cup {"none", "expired", "accepted"},
               seen : Decisions \cup {"later"}, slot : 1 .. MaxCalls]
SentRow    == [from : Nodes, to : Nodes, key : Secret, stamp : Int]
NonceRow   == [at : Nodes, from : Nodes, nonce : Nat, seen : Int]
AuthRow    == [msg : Nat, pc : {"purge", "insert"}, at : Nat, orphan : BOOLEAN, slot : 1 .. MaxCopies]

TypeOK ==
    /\ provider \in {"sqlite", "postgres"} /\ paired \in BOOLEAN
    /\ member \in [Nodes -> [Nodes -> MemberRow]]
    /\ invites \in Seq(InviteRow) /\ requests \in Seq(RequestRow)
    /\ calls \subseteq CallRow /\ Cardinality(calls) <= MaxCalls
    /\ sent \in Seq(SentRow) /\ accepted \in [DOMAIN sent -> Nat]
    /\ nonces \subseteq NonceRow /\ clock \in Nat /\ {events, sends} \subseteq Nat
    /\ auths \subseteq AuthRow /\ outlived \subseteq DOMAIN sent
    /\ \A n \in Nodes, m \in Nodes : /\ Of(member[n][m].out) <= Len(requests)
                                     /\ Of(member[n][m].in) <= Len(requests)
                                     /\ n = m => member[n][m] = NoMember

(* An invitation is good for one join request, whoever uses it twice and   *)
(* however the submissions cross; submissions that race on PostgreSQL are  *)
(* the exception, because the mark's row count is not checked.             *)
InvitationAdmitsOne ==
    \A r, q \in DOMAIN requests :
        r # q /\ requests[r].invite = requests[q].invite => <<"invite", requests[r].invite>> \in raced

(* What a joiner is told stays true at the host: approved means collected, *)
(* rejected means rejected, and expired means it will not be let in, save  *)
(* by a decision that was begun in time.                                   *)
AnswersTrue ==
    \A r \in DOMAIN requests :
        LET q == requests[r] IN
        /\ q.out = "approved" => q.state = "used"
        /\ q.out = "rejected" => q.state = "rejected"
        /\ q.out = "expired" /\ q.state \in {"approved", "used"} => r \in straddled

(* No member is let in by a request that was rejected, when two            *)
(* administrators decide at once; on PostgreSQL decisions that race may    *)
(* leave just that.                                                        *)
RejectedStaysOut ==
    \A n \in Nodes, m \in Nodes :
        LET r == Of(member[n][m].out) IN
        r # 0 /\ requests[r].state = "rejected" => <<"request", r>> \in raced

(* The decision about a join request is one decision: the joiner, the      *)
(* request and the member row do not contradict each other.                *)
DecisionsConsistent == TypeOK /\ AnswersTrue /\ RejectedStaysOut

(* When both rows come from one request the two nodes can talk, in both    *)
(* directions, whatever was lost, polled twice or answered late before.    *)
PairsAgree ==
    \A n \in Nodes, m \in Nodes :
        LET a == member[n][m]
            b == member[m][n]
            r == Of(a.out)
        IN r # 0 /\ {Of(x) : x \in {a.in, b.out, b.in}} = {r} /\ <<"request", r>> \notin raced
              => a.out = b.in /\ b.out = a.in

(* A signed request is let in once, however often it is delivered, with    *)
(* clocks as far apart as is tolerated, copies authenticated side by side, *)
(* and nonces deleted as they age or with their member.  Nonces are kept   *)
(* for 2 * ClockSkew, which is the width of the window and no more, so two *)
(* cases are excepted: a copy verified in time but inserted in the last    *)
(* second of its window or later, perhaps after a purge, and one inserted  *)
(* after its member was removed and paired again.  On PostgreSQL polls     *)
(* that race for one answer may bring the secret of a member that was      *)
(* removed back, without its nonces.                                       *)
DeliveredOnce ==
    \A x \in DOMAIN accepted :
        accepted[x] <= 1 \/ x \in outlived \/ <<"request", Of(sent[x].key)>> \in raced

(* A member that was revoked comes back with a new credential only, never  *)
(* with the one it had.                                                    *)
RevokedNeedsNew ==
    [][\A n \in Nodes, m \in Nodes :
          member[n][m].state = "revoked" /\ member'[n][m].state = "active"
             => \/ member'[n][m].in # member[n][m].in
                \/ <<"request", Of(member'[n][m].in)>> \in raced']_vars
=============================================================================

---------------------------- MODULE PairingProofs ----------------------------
(***************************************************************************)
(* Proofs about Pairing for any set of nodes, any number of invitations,    *)
(* requests, handlers at work, faults and signed requests, any clock skew,  *)
(* on SQLite and on PostgreSQL.                                             *)
(***************************************************************************)
EXTENDS Pairing, FiniteSetTheorems, TLAPS

(* PostgreSQL handlers overtook one another on request r. *)
Raced(r)  == <<"request", r>> \in raced

(* The request's lifetime ended undecided, or a decision straddled the end. *)
Lapsed(r) == requests[r].expired /\ (requests[r].state \in {"approved", "used"} => r \in straddled)

(* Polls of request r; one that carries the credential to the joiner. *)
Collecting(c, r) == c.kind = "collect" /\ c.id = r
Delivering(r) == \E c \in calls : Collecting(c, r) /\ c.answer = "approved"

TypesInv ==
    /\ provider \in {"sqlite", "postgres"} /\ paired \in BOOLEAN
    /\ member \in [Nodes -> [Nodes -> MemberRow]]
    /\ invites \in Seq(InviteRow) /\ requests \in Seq(RequestRow)
    /\ calls \subseteq CallRow
    /\ sent \in Seq(SentRow) /\ accepted \in Seq(Nat) /\ Len(accepted) = Len(sent)
    /\ nonces \subseteq NonceRow /\ clock \in Nat /\ events \in Nat /\ sends \in Nat
    /\ auths \subseteq AuthRow /\ outlived \subseteq DOMAIN sent

(* Handlers at work have different slots. *)
SlotsInv == \A c \in calls, d \in calls : c.slot = d.slot => c = d

(* What a handler at work relies on.  A row read on PostgreSQL may be out   *)
(* of date, but only in the direction in which rows move.                   *)
SubmitSound(c) ==
    /\ c.id \in DOMAIN invites
    /\ invites[c.id].host # c.node
    /\ provider = "postgres" /\ c.seen # "pending" => invites[c.id].state = "used"

DecideSound(c) ==
    /\ c.id \in DOMAIN requests
    /\ provider = "postgres" => c.seen = "pending"

Since(c, state) ==
    /\ c.seen # "later"
    /\ c.seen = "approved" => state \in {"approved", "used"}
    /\ c.seen \in {"rejected", "used"} => state = c.seen

CollectSound(c) ==
    /\ c.id \in DOMAIN requests
    /\ provider = "postgres" => Since(c, requests[c.id].state)
    /\ c.late => requests[c.id].expired
    /\ provider = "postgres" /\ c.late /\ c.seen = "pending" => Lapsed(c.id)
    /\ c.answer \in {"approved", "accepted"} => requests[c.id].state = "used"
    /\ c.answer = "rejected" => requests[c.id].state = "rejected"
    /\ c.answer = "expired" => Lapsed(c.id)

CallSound(c) ==
    /\ c.kind = "submit" => SubmitSound(c)
    /\ c.kind \in {"approve", "reject"} => DecideSound(c)
    /\ c.kind = "collect" => CollectSound(c)

CallsInv == \A c \in calls : CallSound(c)

(* A request has two parties and used an invitation up; AnswersTrue, with   *)
(* what an expired request stands for.                                      *)
RequestsInv ==
    \A r \in DOMAIN requests :
        /\ requests[r].host # requests[r].node
        /\ requests[r].invite \in DOMAIN invites
        /\ invites[requests[r].invite].state = "used"
        /\ requests[r].out = "approved" => requests[r].state = "used"
        /\ requests[r].out = "rejected" => requests[r].state = "rejected"
        /\ requests[r].out = "expired" => Lapsed(r)

(* Where a secret of request r may stand.  The host presents the joiner's   *)
(* and expects a placeholder, later the credential; the joiner presents the *)
(* credential and expects its own.  Each tells how far the request has come. *)
From(n, m, r) == requests[r].node = n /\ requests[r].host = m

JoinerOut(n, m, s, r) ==
    /\ \E k \in Nat \ {0} : s = Credential(r, k)
    /\ From(n, m, r)

HostOut(n, m, s, r) ==
    s = JoinerSecret(r) /\ From(m, n, r)

OutSound(n, m, s) ==
    LET r == Of(s) IN
    r # 0 => /\ r \in DOMAIN requests
             /\ \/ HostOut(n, m, s, r) /\ (Raced(r) \/ requests[r].state \in {"approved", "used"})
                \/ JoinerOut(n, m, s, r) /\ requests[r].state = "used"

InSound(n, m, s) ==
    LET r == Of(s) IN
    r # 0 => /\ r \in DOMAIN requests
             /\ \/ s = Placeholder(r) /\ From(m, n, r) /\ (Raced(r) \/ requests[r].state = "approved")
                \/ JoinerOut(m, n, s, r) /\ requests[r].state = "used"
                \/ /\ HostOut(m, n, s, r) /\ requests[r].state = "used"
                   /\ Raced(r) \/ ~Delivering(r)

(* Every member row is made of such secrets, and a removed one of none. *)
KeysInv ==
    \A n \in Nodes, m \in Nodes :
        /\ OutSound(n, m, member[n][m].out)
        /\ InSound(n, m, member[n][m].in)
        /\ member[n][m].state # "none" => Of(member[n][m].in) # 0
        /\ n = m \/ member[n][m].state = "none" => member[n][m] = NoMember

(* The credential that slot k drew for r is in a member row or on its way. *)
InUse(r, k) ==
    \/ \E n \in Nodes, m \in Nodes : Credential(r, k) \in {member[n][m].out, member[n][m].in}
    \/ \E c \in calls : Collecting(c, r) /\ c.answer \in {"approved", "accepted"} /\ c.slot = k

(* A request that no handlers raced for has one credential. *)
OneCredential ==
    \A r \in DOMAIN requests : \A k, l \in Nat \ {0} : InUse(r, k) /\ InUse(r, l) => k = l \/ Raced(r)

(* What a request was signed with. *)
SentSound(x) ==
    LET s == sent[x].key
        r == Of(s)
    IN r # 0 => r \in DOMAIN requests /\ (s = JoinerSecret(r) \/ \E k \in Nat \ {0} : s = Credential(r, k))

(* Its nonce is kept, noted no earlier than its time allows. *)
Remembered(x) ==
    \E y \in nonces : /\ y.at = sent[x].to /\ y.from = sent[x].from /\ y.nonce = x
                      /\ y.seen >= sent[x].stamp - ClockSkew

(* A copy of it is being authenticated; every such copy was verified by a  *)
(* member row that has been removed since.                                 *)
AtWork(x)   == \E a \in auths : a.msg = x
Orphaned(x) == \A a \in auths : a.msg = x => a.orphan

(* Let in again without its nonce it would count as outlived, or no copy   *)
(* can be let in: the secret is another and none is at work.               *)
Unusable(x) ==
    \/ clock >= sent[x].stamp + ClockSkew
    \/ x \in outlived
    \/ member[sent[x].to][sent[x].from].in # sent[x].key /\ Orphaned(x)

(* Its secret cannot be handed out again. *)
Settled(x) ==
    LET s == sent[x].key
        r == Of(s)
    IN  /\ r # 0
        /\ requests[r].state = "used"
        /\ s = JoinerSecret(r) => ~Delivering(r)

(* DeliveredOnce, made inductive: what was verified had a settled secret,  *)
(* and what was let in is remembered or unusable.                          *)
OnceSound(x) ==
    ~Raced(Of(sent[x].key)) =>
        /\ accepted[x] > 0 \/ AtWork(x) => Settled(x)
        /\ accepted[x] > 0 => Remembered(x) \/ Unusable(x)

(* A copy at work was verified, and last read the clock, in its window's   *)
(* reach.                                                                  *)
AuthsInv ==
    \A a \in auths : /\ a.msg \in DOMAIN sent
                     /\ a.at <= clock /\ a.at >= sent[a.msg].stamp - ClockSkew

SentInv == AuthsInv /\ \A x \in DOMAIN sent : SentSound(x) /\ OnceSound(x)

PairingInv ==
    /\ TypesInv /\ SlotsInv /\ CallsInv /\ RequestsInv /\ InvitationAdmitsOne
    /\ KeysInv /\ OneCredential /\ SentInv /\ DeliveredOnce

-----------------------------------------------------------------------------
(* Secrets *)

(* A secret names the request it was drawn for, and secrets drawn by        *)
(* different parties, for different requests or by different handlers       *)
(* differ.                                                                  *)
LEMMA SecretsDiffer ==
    /\ NoSecret \in Secret /\ Of(NoSecret) = 0
    /\ \A k \in Int : Rotated(k) \in Secret /\ Of(Rotated(k)) = 0
    /\ \A r \in Nat : JoinerSecret(r) \in Secret /\ Of(JoinerSecret(r)) = r
    /\ \A r \in Nat, k \in Int : Credential(r, k) \in Secret /\ Of(Credential(r, k)) = r
    /\ \A r \in Nat : Placeholder(r) = Credential(r, 0)
    /\ \A r \in Nat, k, l \in Int : Credential(r, k) = Credential(r, l) => k = l
    /\ \A r \in Nat, k \in Int : JoinerSecret(r) # Credential(r, k)
    /\ \A s \in Secret : Of(s) \in Nat
BY DEF NoSecret, Rotated, JoinerSecret, Credential, Placeholder, Of, Secret

(* The rows of the tables are typed. *)
LEMMA Typed ==
    ASSUME TypesInv
    PROVE  /\ \A r \in DOMAIN requests :
                 /\ r \in Nat /\ r # 0 /\ requests[r] \in RequestRow
                 /\ requests[r].host \in Nodes /\ requests[r].node \in Nodes
                 /\ requests[r].state \in Decisions
           /\ \A i \in DOMAIN invites : i \in Nat /\ invites[i] \in InviteRow
           /\ \A n, m \in Nodes :
                 /\ member[n][m] \in MemberRow
                 /\ member[n][m].out \in Secret /\ member[n][m].in \in Secret
           /\ \A c \in calls : /\ c \in CallRow /\ c.id \in Nat /\ c.slot \in Nat \ {0}
                               /\ c.slot \in Int
           /\ \A x \in DOMAIN sent : /\ x \in Nat /\ sent[x] \in SentRow /\ sent[x].key \in Secret
                                    /\ sent[x].to \in Nodes /\ sent[x].from \in Nodes
                                    /\ sent[x].stamp \in Int
                                    /\ accepted[x] \in Nat /\ x \in DOMAIN accepted
           /\ DOMAIN requests = 1 .. Len(requests) /\ Len(requests) \in Nat
           /\ DOMAIN invites = 1 .. Len(invites) /\ Len(invites) \in Nat
           /\ DOMAIN sent = 1 .. Len(sent) /\ Len(sent) \in Nat
<1>1. \A r \in DOMAIN requests :
         /\ r \in Nat /\ r # 0 /\ requests[r] \in RequestRow
         /\ requests[r].host \in Nodes /\ requests[r].node \in Nodes
         /\ requests[r].state \in Decisions
  <2> TAKE r \in DOMAIN requests
  <2>1. r \in Nat /\ r # 0 /\ requests[r] \in RequestRow
    BY DEF TypesInv
  <2> QED
    BY <2>1 DEF RequestRow
<1>2. \A i \in DOMAIN invites : i \in Nat /\ invites[i] \in InviteRow
  BY DEF TypesInv
<1>3. \A n, m \in Nodes :
         /\ member[n][m] \in MemberRow
         /\ member[n][m].out \in Secret /\ member[n][m].in \in Secret
  BY DEF TypesInv, MemberRow
<1>4. \A c \in calls : c \in CallRow /\ c.id \in Nat /\ c.slot \in Nat \ {0} /\ c.slot \in Int
  BY PairingAssumption DEF TypesInv, CallRow
<1>5. \A x \in DOMAIN sent : /\ x \in Nat /\ sent[x] \in SentRow /\ sent[x].key \in Secret
                            /\ sent[x].to \in Nodes /\ sent[x].from \in Nodes
                            /\ sent[x].stamp \in Int
                            /\ accepted[x] \in Nat /\ x \in DOMAIN accepted
  <2> TAKE x \in DOMAIN sent
  <2>1. /\ x \in Nat /\ sent[x] \in SentRow
        /\ accepted[x] \in Nat /\ x \in DOMAIN accepted
    BY DEF TypesInv
  <2> QED
    BY <2>1 DEF SentRow
<1>6. /\ DOMAIN requests = 1 .. Len(requests) /\ Len(requests) \in Nat
      /\ DOMAIN invites = 1 .. Len(invites) /\ Len(invites) \in Nat
      /\ DOMAIN sent = 1 .. Len(sent) /\ Len(sent) \in Nat
  BY DEF TypesInv
<1> QED
  BY <1>1, <1>2, <1>3, <1>4, <1>5, <1>6

(* Replacing one element of a sequence. *)
LEMMA ReplaceAt ==
    ASSUME NEW S, NEW s \in Seq(S), NEW i \in DOMAIN s, NEW x \in S, NEW t, t = [s EXCEPT ![i] = x]
    PROVE  /\ t \in Seq(S) /\ DOMAIN t = DOMAIN s /\ Len(t) = Len(s)
           /\ t[i] = x /\ \A j \in DOMAIN s : j # i => t[j] = s[j]
OBVIOUS

-----------------------------------------------------------------------------
(* What no step undoes: a request keeps its parties, its decision is final, *)
(* and a decision after its end is noted.                                   *)
Decides(r) ==
    \/ requests'[r].state = requests[r].state
    \/ requests[r].state = "pending"
    \/ requests[r].state = "approved" /\ requests'[r].state = "used"

RequestsGrow ==
    /\ \A r \in DOMAIN requests :
          /\ r \in DOMAIN requests'
          /\ requests'[r].host = requests[r].host
          /\ requests'[r].node = requests[r].node
          /\ requests'[r].invite = requests[r].invite
          /\ Decides(r)
          /\ requests[r].expired => requests'[r].expired
          /\ requests[r].expired /\ requests[r].state = "pending"
                /\ requests'[r].state \in {"approved", "used"} => r \in straddled'
    /\ raced \subseteq raced' /\ straddled \subseteq straddled'

(* Invitations keep their host and stay used. *)
InvitesGrow ==
    \A i \in DOMAIN invites :
        /\ i \in DOMAIN invites'
        /\ invites'[i].host = invites[i].host
        /\ invites[i].state = "used" => invites'[i].state = "used"

(* A request that ended undecided stays so. *)
LEMMA LapsedStable ==
    ASSUME RequestsGrow, NEW r \in DOMAIN requests, Lapsed(r)
    PROVE  Lapsed(r)'
BY DEF RequestsGrow, Decides, Lapsed

(* What a handler at work relies on stays true while others go on. *)
LEMMA CallStable ==
    ASSUME RequestsGrow, InvitesGrow, UNCHANGED provider, NEW c, CallSound(c)
    PROVE  CallSound(c)'
<1>1. CASE c.kind = "submit"
  BY <1>1 DEF InvitesGrow, CallSound, SubmitSound
<1>2. CASE c.kind \in {"approve", "reject"}
  BY <1>2 DEF RequestsGrow, CallSound, DecideSound
<1>3. ASSUME c.kind = "collect" PROVE CollectSound(c)'
  <2>1. CollectSound(c)
    BY <1>3 DEF CallSound
  <2>2. c.id \in DOMAIN requests
    BY <2>1 DEF CollectSound
  <2>3. Lapsed(c.id) => Lapsed(c.id)'
    BY <2>2, LapsedStable
  <2>4. c.id \in DOMAIN requests' /\ Decides(c.id)
        /\ (requests[c.id].expired => requests'[c.id].expired)
    BY <2>2 DEF RequestsGrow
  <2> QED
    BY <2>1, <2>3, <2>4 DEF CollectSound, Since, Decides
<1> QED
  BY <1>1, <1>2, <1>3 DEF CallSound

(* A secret that is presented stays justified. *)
LEMMA OutStable ==
    ASSUME RequestsGrow, NEW n, NEW m, NEW s, OutSound(n, m, s)
    PROVE  OutSound(n, m, s)'
BY DEF RequestsGrow, Decides, OutSound, HostOut, JoinerOut, From, Raced

(* So does one that is expected, as long as its request does not move on.   *)
LEMMA InStable ==
    ASSUME RequestsGrow, NEW n, NEW m, NEW s, InSound(n, m, s),
           Of(s) \in DOMAIN requests =>
               /\ requests'[Of(s)].state = requests[Of(s)].state \/ requests[Of(s)].state = "pending"
               /\ Delivering(Of(s))' => Delivering(Of(s))
    PROVE  InSound(n, m, s)'
BY DEF RequestsGrow, Decides, InSound, HostOut, JoinerOut, From, Raced

(* Authentications stay as they are, or find their member removed. *)
AuthsCarried ==
    \A b \in auths' : \E a \in auths : a.msg = b.msg /\ a.at = b.at /\ (a.orphan => b.orphan)

LEMMA AuthsStable ==
    ASSUME AuthsInv, AuthsCarried, UNCHANGED <<sent, clock>>
    PROVE  AuthsInv' /\ \A x : (AtWork(x)' => AtWork(x)) /\ (Orphaned(x) => Orphaned(x)')
<1>1. AuthsInv'
  <2> SUFFICES ASSUME NEW b \in auths'
      PROVE  b.msg \in DOMAIN sent /\ b.at <= clock /\ b.at >= sent[b.msg].stamp - ClockSkew
    BY DEF AuthsInv
  <2>1. PICK a \in auths : a.msg = b.msg /\ a.at = b.at
    BY DEF AuthsCarried
  <2> QED
    BY <2>1 DEF AuthsInv
<1> QED
  BY <1>1 DEF AuthsCarried, AtWork, Orphaned

-----------------------------------------------------------------------------
(* Steps that neither touch a member row nor give an answer away. *)
Quiet ==
    /\ RequestsGrow
    /\ UNCHANGED <<provider, member, sent, nonces, clock, auths, accepted, outlived>>
    /\ \A r \in DOMAIN requests :
          requests'[r].state = requests[r].state \/ requests[r].state = "pending"
    /\ \A c \in calls' : c \in calls \/ c.answer \notin {"approved", "accepted"}

(* They put no secret into use. *)
LEMMA QuietUse ==
    ASSUME Quiet, NEW r, NEW k
    PROVE  /\ Delivering(r)' => Delivering(r)
           /\ InUse(r, k)' => InUse(r, k)
BY DEF Quiet, Delivering, InUse, Collecting

(* A credential in use belongs to a request. *)
LEMMA InUseKnown ==
    ASSUME TypesInv, CallsInv, KeysInv, NEW r \in Nat \ {0}, NEW k \in Nat \ {0}, InUse(r, k)
    PROVE  r \in DOMAIN requests /\ requests[r].state = "used"
<1>0. k \in Int /\ k # 0
  BY PairingAssumption
<1>1. CASE \E c \in calls : Collecting(c, r) /\ c.answer \in {"approved", "accepted"} /\ c.slot = k
  BY <1>1 DEF CallsInv, CallSound, CollectSound, Collecting
<1>2. ASSUME NEW n \in Nodes, NEW m \in Nodes, Credential(r, k) \in {member[n][m].out, member[n][m].in}
      PROVE  r \in DOMAIN requests /\ requests[r].state = "used"
  <2>1. Of(Credential(r, k)) = r /\ JoinerSecret(r) # Credential(r, k) /\ Placeholder(r) # Credential(r, k)
    BY <1>0, SecretsDiffer
  <2>2. OutSound(n, m, Credential(r, k)) \/ InSound(n, m, Credential(r, k))
    BY <1>2 DEF KeysInv
  <2> QED
    BY <2>1, <2>2 DEF OutSound, InSound, HostOut, JoinerOut
<1> QED
  BY <1>1, <1>2 DEF InUse

(* Quiet steps keep what is known of keys and of signed requests. *)
LEMMA QuietKeys ==
    ASSUME PairingInv, TypesInv', Quiet
    PROVE  KeysInv' /\ OneCredential' /\ SentInv' /\ DeliveredOnce'
<1> USE DEF PairingInv
<1>1. RequestsGrow /\ \A r : Delivering(r)' => Delivering(r)
  BY QuietUse DEF Quiet
<1>2. KeysInv'
  <2> SUFFICES ASSUME NEW n \in Nodes, NEW m \in Nodes
      PROVE  (/\ OutSound(n, m, member[n][m].out)
              /\ InSound(n, m, member[n][m].in)
              /\ member[n][m].state # "none" => Of(member[n][m].in) # 0
              /\ n = m \/ member[n][m].state = "none" => member[n][m] = NoMember)'
    BY DEF KeysInv
  <2>1. member' = member
    BY DEF Quiet
  <2>2. PICK o, i : o = member[n][m].out /\ i = member[n][m].in
    OBVIOUS
  <2>3. OutSound(n, m, o) /\ InSound(n, m, i)
    BY <2>2 DEF KeysInv
  <2>4. OutSound(n, m, o)'
    BY <1>1, <2>3, OutStable
  <2>5. InSound(n, m, i)'
    BY <1>1, <2>3, InStable DEF Quiet
  <2> QED
    BY <2>1, <2>2, <2>4, <2>5 DEF KeysInv
<1>3. OneCredential'
  <2> SUFFICES ASSUME NEW r \in DOMAIN requests', NEW k \in Nat \ {0}, NEW l \in Nat \ {0},
                      InUse(r, k)', InUse(r, l)'
      PROVE  k = l \/ Raced(r)'
    BY DEF OneCredential
  <2>1. InUse(r, k) /\ InUse(r, l)
    BY QuietUse
  <2>2. r \in Nat \ {0}
    BY DEF TypesInv
  <2>3. r \in DOMAIN requests
    BY <2>1, <2>2, InUseKnown
  <2> QED
    BY <1>1, <2>1, <2>3 DEF OneCredential, RequestsGrow, Raced
<1>4. SentInv'
  <2>0. AuthsInv' = AuthsInv
    BY DEF Quiet, AuthsInv
  <2> SUFFICES ASSUME NEW x \in DOMAIN sent PROVE SentSound(x)' /\ OnceSound(x)'
    BY <2>0 DEF SentInv, Quiet
  <2>1. SentSound(x) /\ OnceSound(x)
    BY DEF SentInv
  <2>2. sent' = sent
    BY DEF Quiet
  <2>3. SentSound(x)'
    BY <1>1, <2>1, <2>2 DEF SentSound, RequestsGrow
  <2>4. Remembered(x)' = Remembered(x) /\ Unusable(x)' = Unusable(x) /\ AtWork(x)' = AtWork(x)
    BY DEF Quiet, Remembered, Unusable, Orphaned, AtWork
  <2>5. Settled(x) => Settled(x)'
    BY <1>1, <2>1, <2>2 DEF Settled, SentSound, RequestsGrow, Decides, Quiet
  <2>6. OnceSound(x)'
    BY <1>1, <2>1, <2>2, <2>4, <2>5 DEF OnceSound, RequestsGrow, Raced, Quiet
  <2> QED
    BY <2>3, <2>6
<1>5. DeliveredOnce'
  BY <1>1 DEF DeliveredOnce, Quiet, RequestsGrow
<1> QED
  BY <1>2, <1>3, <1>4, <1>5

(* Steps that add no request and change no answer a joiner has noted. *)
LEMMA RequestsKept ==
    ASSUME PairingInv, RequestsGrow, InvitesGrow,
           DOMAIN requests' = DOMAIN requests,
           \A r \in DOMAIN requests : requests'[r].out = requests[r].out
    PROVE  RequestsInv' /\ InvitationAdmitsOne'
<1>1. RequestsInv'
  <2> SUFFICES ASSUME NEW r \in DOMAIN requests
      PROVE  (/\ requests[r].host # requests[r].node
              /\ requests[r].invite \in DOMAIN invites
              /\ invites[requests[r].invite].state = "used"
              /\ requests[r].out = "approved" => requests[r].state = "used"
              /\ requests[r].out = "rejected" => requests[r].state = "rejected"
              /\ requests[r].out = "expired" => Lapsed(r))'
    BY DEF RequestsInv
  <2>1. Lapsed(r) => Lapsed(r)'
    BY LapsedStable
  <2> QED
    BY <2>1 DEF PairingInv, RequestsInv, RequestsGrow, InvitesGrow, Decides
<1>2. InvitationAdmitsOne'
  BY DEF PairingInv, InvitationAdmitsOne, RequestsGrow
<1> QED
  BY <1>1, <1>2

(* Handlers at work are told apart by their slots. *)
LEMMA SlotsFewer ==
    ASSUME SlotsInv, calls' \subseteq calls
    PROVE  SlotsInv'
BY DEF SlotsInv

(* An answered handler keeps its slot. *)
LEMMA SlotsAnswered ==
    ASSUME TypesInv, SlotsInv, NEW c \in calls, NEW d \in CallRow, d.slot = c.slot,
           calls' = (calls \ {c}) \cup {d}
    PROVE  SlotsInv' /\ calls' \subseteq CallRow
BY DEF SlotsInv, TypesInv

(* An arriving handler takes a slot nobody holds and has done nothing yet. *)
LEMMA ArriveCall ==
    ASSUME TypesInv, SlotsInv,
           NEW kind \in {"submit", "approve", "reject", "collect"}, NEW n \in Nodes, NEW id \in Nat,
           NEW seen \in Decisions, NEW late \in BOOLEAN,
           Arrive(Call(kind, n, id, seen, late))
    PROVE  \E d \in CallRow :
              /\ calls' = calls \cup {d}
              /\ d.kind = kind /\ d.node = n /\ d.id = id /\ d.late = late /\ d.answer = "none"
              /\ provider = "postgres" => d.seen = seen
              /\ SlotsInv'
<1> DEFINE d == Call(kind, n, id, seen, late)
           k == CHOOSE k \in FreeSlots : TRUE
<1>1. k \in FreeSlots
  BY DEF Arrive
<1>2. k \in 1 .. MaxCalls /\ \A c \in calls : c.slot # k
  BY <1>1 DEF FreeSlots
<1> DEFINE read == IF provider = "sqlite" THEN "later" ELSE seen
<1>3. d = [kind |-> kind, node |-> n, id |-> id, late |-> late, answer |-> "none",
           seen |-> read, slot |-> k]
  BY DEF Call
<1>r. read \in Decisions \cup {"later"} /\ (provider = "postgres" => read = seen)
  OBVIOUS
<1> HIDE DEF k, read, d
<1>4. d \in CallRow /\ d.slot = k
  BY <1>2, <1>3, <1>r DEF CallRow
<1>5. d.kind = kind /\ d.node = n /\ d.id = id /\ d.late = late /\ d.answer = "none"
  BY <1>3
<1>6. provider = "postgres" => d.seen = seen
  BY <1>3, <1>r
<1>7. calls' = calls \cup {d}
  BY DEF Arrive, d
<1>8. SlotsInv'
  BY <1>2, <1>4, <1>7 DEF SlotsInv
<1> QED
  BY <1>4, <1>5, <1>6, <1>7, <1>8

(* The invariant, put together for a quiet step. *)
LEMMA QuietStep ==
    ASSUME PairingInv, TypesInv', SlotsInv', RequestsInv', InvitationAdmitsOne',
           Quiet, InvitesGrow, \A c \in calls' : c \in calls \/ CallSound(c)'
    PROVE  PairingInv'
<1>1. CallsInv'
  <2> SUFFICES ASSUME NEW c \in calls' PROVE CallSound(c)'
    BY DEF CallsInv
  <2>1. CASE c \in calls
    BY <2>1, CallStable DEF PairingInv, CallsInv, Quiet
  <2> QED
    BY <2>1
<1>2. KeysInv' /\ OneCredential' /\ SentInv' /\ DeliveredOnce'
  BY QuietKeys
<1> QED
  BY <1>1, <1>2 DEF PairingInv

-----------------------------------------------------------------------------
(* The steps, one by one *)

(* An invitation is issued. *)
LEMMA InviteKeeps ==
    ASSUME PairingInv, NEW h \in Nodes, Invite(h)
    PROVE  PairingInv'
<1> DEFINE row == [host |-> h, state |-> "pending", expired |-> FALSE]
<1>1. row \in InviteRow
  BY DEF InviteRow
<1> HIDE DEF row
<1>2. /\ invites' = Append(invites, row)
      /\ UNCHANGED <<setting, member, requests, calls, events, raced, straddled, transportVars>>
  BY DEF Invite, row
<1>3. TypesInv /\ SlotsInv
  BY DEF PairingInv
<1>4. TypesInv' /\ InvitesGrow
  BY <1>1, <1>2, <1>3 DEF TypesInv, InvitesGrow, setting, transportVars
<1>5. Quiet
  BY <1>2 DEF Quiet, RequestsGrow, Decides, setting, transportVars
<1>6. RequestsInv' /\ InvitationAdmitsOne'
  BY <1>2, <1>4, <1>5, RequestsKept DEF Quiet
<1>7. SlotsInv'
  BY <1>2, <1>3, SlotsFewer
<1> QED
  BY <1>2, <1>4, <1>5, <1>6, <1>7, QuietStep

(* A lifetime ends. *)
LEMMA ExpireKeeps ==
    ASSUME PairingInv, Expire
    PROVE  PairingInv'
<1>1. /\ events' = events + 1
      /\ UNCHANGED <<setting, member, calls, raced, straddled, transportVars>>
  BY DEF Expire, Event
<1>2. TypesInv /\ SlotsInv
  BY DEF PairingInv
<1>3. SlotsInv'
  BY <1>1, <1>2, SlotsFewer
<1>4. CASE \E i \in DOMAIN invites :
              invites' = [invites EXCEPT ![i].expired = TRUE] /\ UNCHANGED requests
  <2>1. PICK i \in DOMAIN invites :
              invites' = [invites EXCEPT ![i].expired = TRUE] /\ UNCHANGED requests
    BY <1>4
  <2>2. PICK row \in InviteRow : row = invites[i]
    BY <1>2 DEF TypesInv
  <2>3. PICK new : new = [row EXCEPT !.expired = TRUE]
    OBVIOUS
  <2>4. new \in InviteRow /\ new.host = row.host /\ new.state = row.state
    BY <2>3 DEF InviteRow
  <2>5. invites' = [invites EXCEPT ![i] = new]
    BY <2>1, <2>2, <2>3
  <2>s. invites \in Seq(InviteRow)
    BY <1>2 DEF TypesInv
  <2>t. /\ invites' \in Seq(InviteRow) /\ DOMAIN invites' = DOMAIN invites
        /\ invites'[i] = new /\ \A j \in DOMAIN invites : j # i => invites'[j] = invites[j]
    BY <2>4, <2>5, <2>s, ReplaceAt
  <2>u. InvitesGrow
    BY <2>2, <2>4, <2>t DEF InvitesGrow
  <2>v. TypesInv'
    BY <1>1, <1>2, <2>1, <2>t DEF TypesInv, setting, transportVars
  <2>6. TypesInv' /\ InvitesGrow
    BY <2>u, <2>v
  <2>7. Quiet
    BY <1>1, <2>1 DEF Quiet, RequestsGrow, Decides, setting, transportVars
  <2>8. RequestsInv' /\ InvitationAdmitsOne'
    BY <2>1, <2>6, <2>7, RequestsKept DEF Quiet
  <2> QED
    BY <1>1, <1>3, <2>6, <2>7, <2>8, QuietStep
<1>5. CASE \E r \in DOMAIN requests :
              requests' = [requests EXCEPT ![r].expired = TRUE] /\ UNCHANGED invites
  <2>1. PICK r \in DOMAIN requests :
              requests' = [requests EXCEPT ![r].expired = TRUE] /\ UNCHANGED invites
    BY <1>5
  <2>2. PICK row \in RequestRow : row = requests[r]
    BY <1>2 DEF TypesInv
  <2>3. PICK new : new = [row EXCEPT !.expired = TRUE]
    OBVIOUS
  <2>4. /\ new \in RequestRow /\ new.host = row.host /\ new.node = row.node /\ new.invite = row.invite
        /\ new.state = row.state /\ new.out = row.out /\ new.expired
    BY <2>3 DEF RequestRow
  <2>5. requests' = [requests EXCEPT ![r] = new]
    BY <2>1, <2>2, <2>3
  <2>s. requests \in Seq(RequestRow)
    BY <1>2 DEF TypesInv
  <2>7. /\ requests' \in Seq(RequestRow) /\ DOMAIN requests' = DOMAIN requests
        /\ requests'[r] = new /\ \A q \in DOMAIN requests : q # r => requests'[q] = requests[q]
    BY <2>4, <2>5, <2>s, ReplaceAt
  <2>6. TypesInv' /\ InvitesGrow
    BY <1>1, <1>2, <2>1, <2>7 DEF TypesInv, InvitesGrow, setting, transportVars
  <2>8. Quiet /\ \A q \in DOMAIN requests : requests'[q].out = requests[q].out
    BY <1>1, <2>1, <2>2, <2>4, <2>6, <2>7 DEF Quiet, RequestsGrow, Decides, setting, transportVars
  <2>9. RequestsInv' /\ InvitationAdmitsOne'
    BY <2>1, <2>6, <2>7, <2>8, RequestsKept DEF Quiet
  <2> QED
    BY <1>1, <1>3, <2>6, <2>8, <2>9, QuietStep
<1> QED
  BY <1>4, <1>5 DEF Expire

(* Handlers that arrive. *)
LEMMA ArriveKeeps ==
    ASSUME PairingInv, NEW d \in CallRow, calls' = calls \cup {d}, SlotsInv', d.answer = "none", CallSound(d),
           UNCHANGED <<setting, member, invites, requests, events, raced, straddled, transportVars>>
    PROVE  PairingInv'
<1>1. TypesInv'
  BY DEF PairingInv, TypesInv, setting, transportVars
<1>2. Quiet /\ InvitesGrow
  BY DEF Quiet, RequestsGrow, Decides, InvitesGrow, setting, transportVars
<1>3. RequestsInv' /\ InvitationAdmitsOne'
  BY <1>2, RequestsKept DEF Quiet
<1>4. CallSound(d)'
  BY <1>2, CallStable DEF Quiet
<1> QED
  BY <1>1, <1>2, <1>3, <1>4, QuietStep

(* A joiner submits its request. *)
LEMMA BeginOutboundKeeps ==
    ASSUME PairingInv, NEW n \in Nodes, NEW i \in DOMAIN invites, BeginOutbound(n, i)
    PROVE  PairingInv'
<1>1. TypesInv /\ SlotsInv
  BY DEF PairingInv
<1>2. i \in Nat /\ invites[i] \in InviteRow
  BY <1>1 DEF TypesInv
<1>3. invites[i].state \in Decisions /\ invites[i].state \in {"pending", "used"} /\ invites[i].expired \in BOOLEAN
  BY <1>2 DEF InviteRow, Decisions
<1>4. Arrive(Call("submit", n, i, invites[i].state, invites[i].expired))
  BY DEF BeginOutbound
<1>5. PICK d \in CallRow :
          /\ calls' = calls \cup {d}
          /\ d.kind = "submit" /\ d.node = n /\ d.id = i /\ d.answer = "none"
          /\ provider = "postgres" => d.seen = invites[i].state
          /\ SlotsInv'
  BY <1>1, <1>2, <1>3, <1>4, ArriveCall
<1>6. CallSound(d)
  BY <1>3, <1>5 DEF BeginOutbound, CallSound, SubmitSound
<1> QED
  BY <1>5, <1>6, ArriveKeeps DEF BeginOutbound

(* An administrator begins a decision. *)
LEMMA DecideKeeps ==
    ASSUME PairingInv, NEW r \in DOMAIN requests, NEW v \in {"approve", "reject"}, Decide(r, v)
    PROVE  PairingInv'
<1>1. TypesInv /\ SlotsInv
  BY DEF PairingInv
<1>2. r \in Nat /\ requests[r] \in RequestRow /\ requests[r].host \in Nodes
  BY <1>1, Typed
<1>3. requests[r].expired \in BOOLEAN /\ "pending" \in Decisions
  BY <1>2 DEF RequestRow, Decisions
<1>4. Arrive(Call(v, requests[r].host, r, "pending", requests[r].expired))
  BY DEF Decide
<1>5. PICK d \in CallRow :
          /\ calls' = calls \cup {d}
          /\ d.kind = v /\ d.id = r /\ d.answer = "none"
          /\ provider = "postgres" => d.seen = "pending"
          /\ SlotsInv'
  BY <1>1, <1>2, <1>3, <1>4, ArriveCall
<1>6. CallSound(d)
  BY <1>5 DEF CallSound, DecideSound
<1> QED
  BY <1>5, <1>6, ArriveKeeps DEF Decide

(* A joiner polls. *)
LEMMA CollectKeeps ==
    ASSUME PairingInv, NEW r \in DOMAIN requests, Collect(r)
    PROVE  PairingInv'
<1>1. TypesInv /\ SlotsInv
  BY DEF PairingInv
<1>2. r \in Nat /\ requests[r] \in RequestRow /\ requests[r].node \in Nodes /\ requests[r].state \in Decisions
  BY <1>1, Typed
<1>3. requests[r].expired \in BOOLEAN
  BY <1>2 DEF RequestRow
<1>4. Arrive(Call("collect", requests[r].node, r, requests[r].state, requests[r].expired))
  BY DEF Collect
<1>5. PICK d \in CallRow :
          /\ calls' = calls \cup {d}
          /\ d.kind = "collect" /\ d.id = r /\ d.answer = "none" /\ d.late = requests[r].expired
          /\ provider = "postgres" => d.seen = requests[r].state
          /\ SlotsInv'
  BY <1>1, <1>2, <1>3, <1>4, ArriveCall
<1>6. CallSound(d)
  BY <1>2, <1>5 DEF CallSound, CollectSound, Since, Lapsed, Decisions
<1> QED
  BY <1>5, <1>6, ArriveKeeps DEF Collect

(* Handlers that end with nothing done. *)
LEMMA LeaveKeeps ==
    ASSUME PairingInv, calls' \subseteq calls, events' \in Nat,
           UNCHANGED <<setting, member, invites, requests, raced, straddled, transportVars>>
    PROVE  PairingInv'
<1>1. TypesInv'
  BY DEF PairingInv, TypesInv, setting, transportVars
<1>2. Quiet /\ InvitesGrow
  BY DEF Quiet, RequestsGrow, Decides, InvitesGrow, setting, transportVars
<1>3. RequestsInv' /\ InvitationAdmitsOne'
  BY <1>2, RequestsKept DEF Quiet
<1>4. SlotsInv'
  BY SlotsFewer DEF PairingInv
<1> QED
  BY <1>1, <1>2, <1>3, <1>4, QuietStep

(* A call is lost. *)
LEMMA LoseKeeps ==
    ASSUME PairingInv, NEW c \in calls, Lose(c)
    PROVE  PairingInv'
<1>1. calls' \subseteq calls /\ events' \in Nat
  BY DEF Lose, Leave, Event, PairingInv, TypesInv
<1> QED
  BY <1>1, LeaveKeeps DEF Lose

(* The host takes a request in. *)
LEMMA SubmitJoinKeeps ==
    ASSUME PairingInv, NEW c \in calls, SubmitJoin(c)
    PROVE  PairingInv'
<1>1. TypesInv /\ SlotsInv /\ RequestsInv /\ InvitationAdmitsOne
  BY DEF PairingInv
<1>2. SubmitSound(c)
  BY DEF PairingInv, CallsInv, CallSound, SubmitJoin
<1>3. calls' \subseteq calls /\ UNCHANGED <<setting, member, straddled, transportVars>>
  BY DEF SubmitJoin, Leave
<1>4. CASE ~(Seen(c, invites[c.id].state) = "pending" /\ ~ c.late)
  <2>1. UNCHANGED <<invites, requests, events, raced>>
    BY <1>4 DEF SubmitJoin
  <2>2. events' \in Nat
    BY <1>1, <2>1 DEF TypesInv
  <2> QED
    BY <1>3, <2>1, <2>2, LeaveKeeps
<1>5. CASE Seen(c, invites[c.id].state) = "pending" /\ ~ c.late
  <2>1. PICK out \in {"pending", "none"} :
            requests' = Append(requests, Submitted(c, out)) /\ (NoEvent \/ Event)
    BY <1>5 DEF SubmitJoin
  <2>2. /\ invites' = [invites EXCEPT ![c.id].state = "used"]
        /\ raced' = IF Stale(c, invites[c.id].state) THEN raced \cup {<<"invite", c.id>>} ELSE raced
    BY <1>5 DEF SubmitJoin
  <2>3. events' \in Nat
    BY <1>1, <2>1 DEF NoEvent, Event, TypesInv
  <2>4. PICK row : row = Submitted(c, out)
    OBVIOUS
  <2>5. c.id \in DOMAIN invites /\ c.id \in Nat /\ c.node \in Nodes /\ invites[c.id] \in InviteRow
        /\ invites[c.id].host \in Nodes
    <3>1. c.id \in DOMAIN invites
      BY <1>2 DEF SubmitSound
    <3>2. invites[c.id] \in InviteRow /\ c \in CallRow
      BY <1>1, <3>1, Typed
    <3> QED
      BY <3>1, <3>2 DEF InviteRow, CallRow
  <2>6. /\ row \in RequestRow /\ row.host = invites[c.id].host /\ row.node = c.node /\ row.invite = c.id
        /\ row.out \in {"pending", "none"}
    BY <2>4, <2>5 DEF Submitted, RequestRow, Decisions
  <2>7. /\ requests' \in Seq(RequestRow) /\ Len(requests') = Len(requests) + 1
        /\ DOMAIN requests' = DOMAIN requests \cup {Len(requests) + 1}
        /\ \A r \in DOMAIN requests : requests'[r] = requests[r]
        /\ requests'[Len(requests) + 1] = row
    BY <1>1, <2>1, <2>4, <2>6 DEF TypesInv
  <2>8. PICK new : new = [invites[c.id] EXCEPT !.state = "used"]
    OBVIOUS
  <2>9. new \in InviteRow /\ new.host = invites[c.id].host /\ new.state = "used"
    BY <2>5, <2>8 DEF InviteRow
  <2>10. invites' = [invites EXCEPT ![c.id] = new]
    BY <2>2, <2>8
  <2>11. /\ invites' \in Seq(InviteRow) /\ DOMAIN invites' = DOMAIN invites
         /\ invites'[c.id] = new /\ \A j \in DOMAIN invites : j # c.id => invites'[j] = invites[j]
    BY <1>1, <2>5, <2>9, <2>10, ReplaceAt DEF TypesInv
  <2>12. TypesInv'
    BY <1>1, <1>3, <2>3, <2>7, <2>11 DEF TypesInv, setting, transportVars
  <2>13. InvitesGrow
    BY <2>9, <2>11 DEF InvitesGrow
  <2>14. RequestsGrow
    BY <1>3, <2>2, <2>7 DEF RequestsGrow, Decides
  <2>15. Quiet
    BY <1>3, <2>7, <2>14 DEF Quiet, setting, transportVars
  <2>16. RequestsInv'
    <3> SUFFICES ASSUME NEW r \in DOMAIN requests'
        PROVE  (/\ requests[r].host # requests[r].node
                /\ requests[r].invite \in DOMAIN invites
                /\ invites[requests[r].invite].state = "used"
                /\ requests[r].out = "approved" => requests[r].state = "used"
                /\ requests[r].out = "rejected" => requests[r].state = "rejected"
                /\ requests[r].out = "expired" => Lapsed(r))'
      BY DEF RequestsInv
    <3>1. CASE r = Len(requests) + 1
      BY <1>2, <2>5, <2>6, <2>7, <2>9, <2>11, <3>1 DEF SubmitSound
    <3>2. CASE r \in DOMAIN requests
      <4>1. Lapsed(r) => Lapsed(r)'
        BY <2>14, <3>2, LapsedStable
      <4> QED
        BY <1>1, <2>7, <2>13, <3>2, <4>1 DEF RequestsInv, InvitesGrow
    <3> QED
      BY <2>7, <3>1, <3>2
  <2>17. \A r \in DOMAIN requests : requests[r].invite = c.id => <<"invite", c.id>> \in raced'
    <3> SUFFICES ASSUME NEW r \in DOMAIN requests, requests[r].invite = c.id
        PROVE  <<"invite", c.id>> \in raced'
      OBVIOUS
    <3>1. invites[c.id].state = "used"
      BY <1>1 DEF RequestsInv
    <3>2. provider = "postgres" /\ c.seen = "pending"
      BY <1>1, <1>5, <3>1 DEF Seen, TypesInv
    <3> QED
      BY <2>2, <3>1, <3>2 DEF Stale
  <2>18. InvitationAdmitsOne'
    BY <1>1, <2>6, <2>7, <2>14, <2>17 DEF InvitationAdmitsOne, RequestsGrow
  <2>19. SlotsInv'
    BY <1>1, <1>3, SlotsFewer
  <2> QED
    BY <1>3, <2>12, <2>13, <2>15, <2>16, <2>18, <2>19, QuietStep
<1> QED
  BY <1>4, <1>5

(* A row of the request table that changes in its state, or in the answer   *)
(* the joiner noted.                                                        *)
LEMMA StateUpdated ==
    ASSUME TypesInv, NEW r \in DOMAIN requests, NEW state \in Decisions,
           requests' = [requests EXCEPT ![r].state = state]
    PROVE  /\ requests' \in Seq(RequestRow) /\ DOMAIN requests' = DOMAIN requests
           /\ \A q \in DOMAIN requests :
                 /\ requests'[q].host = requests[q].host /\ requests'[q].node = requests[q].node
                 /\ requests'[q].invite = requests[q].invite /\ requests'[q].expired = requests[q].expired
                 /\ requests'[q].out = requests[q].out
                 /\ q # r => requests'[q] = requests[q]
           /\ requests'[r].state = state
<1>1. PICK row \in RequestRow : row = requests[r]
  BY DEF TypesInv
<1>2. PICK new : new = [row EXCEPT !.state = state]
  OBVIOUS
<1>3. /\ new \in RequestRow /\ new.host = row.host /\ new.node = row.node /\ new.invite = row.invite
      /\ new.expired = row.expired /\ new.state = state /\ new.out = row.out
  BY <1>2 DEF RequestRow
<1>5. requests' = [requests EXCEPT ![r] = new]
  BY <1>1, <1>2
<1>6. requests \in Seq(RequestRow)
  BY DEF TypesInv
<1>4. /\ requests' \in Seq(RequestRow) /\ DOMAIN requests' = DOMAIN requests
      /\ requests'[r] = new /\ \A q \in DOMAIN requests : q # r => requests'[q] = requests[q]
  BY <1>3, <1>5, <1>6, ReplaceAt
<1> QED
  BY <1>1, <1>3, <1>4

(* The joiner's note of a request. *)
LEMMA OutUpdated ==
    ASSUME TypesInv, NEW r \in DOMAIN requests, NEW out \in {"none", "pending", "approved", "rejected", "expired"},
           requests' = [requests EXCEPT ![r].out = out]
    PROVE  /\ requests' \in Seq(RequestRow) /\ DOMAIN requests' = DOMAIN requests
           /\ \A q \in DOMAIN requests :
                 /\ requests'[q].host = requests[q].host /\ requests'[q].node = requests[q].node
                 /\ requests'[q].invite = requests[q].invite /\ requests'[q].expired = requests[q].expired
                 /\ requests'[q].state = requests[q].state
                 /\ q # r => requests'[q] = requests[q]
           /\ requests'[r].out = out
<1>1. PICK row \in RequestRow : row = requests[r]
  BY DEF TypesInv
<1>2. PICK new : new = [row EXCEPT !.out = out]
  OBVIOUS
<1>3. /\ new \in RequestRow /\ new.host = row.host /\ new.node = row.node /\ new.invite = row.invite
      /\ new.expired = row.expired /\ new.state = row.state /\ new.out = out
  BY <1>2 DEF RequestRow
<1>5. requests' = [requests EXCEPT ![r] = new]
  BY <1>1, <1>2
<1>6. requests \in Seq(RequestRow)
  BY DEF TypesInv
<1>4. /\ requests' \in Seq(RequestRow) /\ DOMAIN requests' = DOMAIN requests
      /\ requests'[r] = new /\ \A q \in DOMAIN requests : q # r => requests'[q] = requests[q]
  BY <1>3, <1>5, <1>6, ReplaceAt
<1> QED
  BY <1>1, <1>3, <1>4

(* One member row is replaced. *)
LEMMA MemberUpdated ==
    ASSUME TypesInv, NEW a \in Nodes, NEW b \in Nodes, NEW rec \in MemberRow,
           member' = [member EXCEPT ![a][b] = rec]
    PROVE  /\ member' \in [Nodes -> [Nodes -> MemberRow]]
           /\ member'[a][b] = rec
           /\ \A n, m \in Nodes : n # a \/ m # b => member'[n][m] = member[n][m]
BY DEF TypesInv

(* A member row rec that a step gives a about b. *)
RowSound(a, b, rec) ==
    /\ OutSound(a, b, rec.out)' /\ InSound(a, b, rec.in)'
    /\ rec.state # "none" => Of(rec.in) # 0
    /\ a = b \/ rec.state = "none" => rec = NoMember

(* No credential is put into use. *)
HandsOutNothing ==
    \A q \in DOMAIN requests :
        /\ requests'[q].state = requests[q].state \/ requests[q].state = "pending"
        /\ Delivering(q)' => Delivering(q)
        /\ \A k \in Nat \ {0} : InUse(q, k)' => InUse(q, k)

(* The secret a will expect has let nothing in, unless it is the old one. *)
BringsBackNothing(a, b, rec) ==
    \A x \in DOMAIN sent :
        sent[x].to = a /\ sent[x].from = b /\ sent[x].key = rec.in /\ accepted[x] > 0
          => Raced(Of(rec.in))' \/ rec.in = member[a][b].in

(* Nonces are kept, or their secret goes with them, under the authentications at work. *)
NoncesKept(a, b, rec) ==
    \A x \in DOMAIN sent :
        accepted[x] > 0 /\ ~Raced(Of(sent[x].key)) /\ Remembered(x)
          => Remembered(x)' \/ (sent[x].to = a /\ sent[x].from = b /\ sent[x].key # rec.in /\ Orphaned(x)')

(* OneCredential after the step. *)
OneCredentialKept ==
    \A q \in DOMAIN requests : \A k, l \in Nat \ {0} :
        InUse(q, k)' /\ InUse(q, l)' => k = l \/ Raced(q)'

(* A step that replaces one member row by a sound one, hands out no         *)
(* credential and brings no secret back that has been used.                 *)
LEMMA RowStep ==
    ASSUME PairingInv, TypesInv', RequestsGrow, UNCHANGED <<sent, clock, accepted, outlived>>, AuthsCarried,
           NEW a \in Nodes, NEW b \in Nodes, NEW rec \in MemberRow,
           member' = [member EXCEPT ![a][b] = rec],
           RowSound(a, b, rec), HandsOutNothing, BringsBackNothing(a, b, rec), NoncesKept(a, b, rec)
    PROVE  KeysInv' /\ OneCredentialKept /\ SentInv' /\ DeliveredOnce'
<1> USE DEF PairingInv, RowSound, HandsOutNothing, BringsBackNothing, NoncesKept, OneCredentialKept
<1>1. /\ member'[a][b] = rec
      /\ \A n, m \in Nodes : n # a \/ m # b => member'[n][m] = member[n][m]
  BY MemberUpdated
<1>2. KeysInv'
  <2> SUFFICES ASSUME NEW n \in Nodes, NEW m \in Nodes
      PROVE  (/\ OutSound(n, m, member[n][m].out)
              /\ InSound(n, m, member[n][m].in)
              /\ member[n][m].state # "none" => Of(member[n][m].in) # 0
              /\ n = m \/ member[n][m].state = "none" => member[n][m] = NoMember)'
    BY DEF KeysInv
  <2>1. CASE n = a /\ m = b
    <3>1. PICK o, i : o = rec.out /\ i = rec.in
      OBVIOUS
    <3>2. OutSound(n, m, o)' /\ InSound(n, m, i)'
      BY <2>1, <3>1
    <3> QED
      BY <1>1, <2>1, <3>1, <3>2
  <2>2. CASE n # a \/ m # b
    <3>1. member'[n][m] = member[n][m]
      BY <1>1, <2>2
    <3>2. PICK o, i : o = member[n][m].out /\ i = member[n][m].in
      OBVIOUS
    <3>3. OutSound(n, m, o) /\ InSound(n, m, i)
      BY <3>2 DEF KeysInv
    <3>4. OutSound(n, m, o)'
      BY <3>3, OutStable
    <3>5. InSound(n, m, i)'
      BY <3>3, InStable
    <3> QED
      BY <3>1, <3>2, <3>4, <3>5 DEF KeysInv
  <2> QED
    BY <2>1, <2>2
<1>3. ASSUME NEW q \in DOMAIN requests, NEW k \in Nat \ {0}, NEW l \in Nat \ {0},
             InUse(q, k)', InUse(q, l)'
      PROVE  k = l \/ Raced(q)'
  BY <1>3 DEF OneCredential, RequestsGrow, Raced
<1>4. SentInv'
  <2>0. AuthsInv' /\ \A x : (AtWork(x)' => AtWork(x)) /\ (Orphaned(x) => Orphaned(x)')
    BY AuthsStable DEF SentInv
  <2> SUFFICES ASSUME NEW x \in DOMAIN sent PROVE SentSound(x)' /\ OnceSound(x)'
    BY <2>0 DEF SentInv
  <2>1. SentSound(x) /\ OnceSound(x)
    BY DEF SentInv
  <2>2. SentSound(x)'
    BY <2>1 DEF SentSound, RequestsGrow
  <2>3. PICK s, r : s = sent[x].key /\ r = Of(s)
    OBVIOUS
  <2>4. Raced(r) => Raced(r)'
    BY DEF RequestsGrow, Raced
  <2>5. Settled(x) => Settled(x)'
    BY <2>1, <2>3 DEF Settled, SentSound
  <2>6. ASSUME accepted[x] > 0, ~Raced(r)', ~Raced(r), Remembered(x) \/ Unusable(x)
        PROVE  Remembered(x)' \/ Unusable(x)'
    <3>1. sent[x].to \in Nodes /\ sent[x].from \in Nodes
      BY Typed
    <3>2. CASE Remembered(x)
      <4>1. \/ Remembered(x)'
            \/ sent[x].to = a /\ sent[x].from = b /\ sent[x].key # rec.in /\ Orphaned(x)'
        BY <2>3, <2>6, <3>2
      <4> QED
        BY <1>1, <4>1 DEF Unusable
    <3>3. CASE clock >= sent[x].stamp + ClockSkew \/ x \in outlived
      BY <3>3 DEF Unusable
    <3>4. CASE member[sent[x].to][sent[x].from].in # sent[x].key /\ Orphaned(x)
      <4>1. member'[sent[x].to][sent[x].from].in # sent[x].key
        BY <1>1, <2>3, <2>6, <3>1, <3>4
      <4> QED
        BY <2>0, <3>4, <4>1 DEF Unusable
    <3> QED
      BY <2>6, <3>2, <3>3, <3>4 DEF Unusable
  <2>7. OnceSound(x)'
    <3> SUFFICES ASSUME ~Raced(r)'
        PROVE  /\ accepted[x] > 0 \/ AtWork(x)' => Settled(x)'
               /\ accepted[x] > 0 => Remembered(x)' \/ Unusable(x)'
      BY <2>3 DEF OnceSound
    <3>1. /\ accepted[x] > 0 \/ AtWork(x) => Settled(x)
          /\ accepted[x] > 0 => Remembered(x) \/ Unusable(x)
      BY <2>1, <2>3, <2>4 DEF OnceSound
    <3> QED
      BY <2>0, <2>4, <2>5, <2>6, <3>1
  <2> QED
    BY <2>2, <2>7
<1>5. DeliveredOnce'
  BY DEF DeliveredOnce, RequestsGrow
<1> QED
  BY <1>2, <1>3, <1>4, <1>5

(* The invariant, put together for a step that is not quiet but leaves      *)
(* invitations, the joiners' notes and the requests' number alone.          *)
LEMMA LoudStep ==
    ASSUME PairingInv, TypesInv', SlotsInv', RequestsGrow,
           UNCHANGED <<provider, invites>>,
           DOMAIN requests' = DOMAIN requests,
           \A r \in DOMAIN requests : requests'[r].out = requests[r].out,
           \A c \in calls' : c \in calls \/ CallSound(c)',
           KeysInv', OneCredentialKept, SentInv', DeliveredOnce'
    PROVE  PairingInv'
<1>0. InvitesGrow
  BY DEF InvitesGrow
<1>1. CallsInv'
  <2> SUFFICES ASSUME NEW c \in calls' PROVE CallSound(c)'
    BY DEF CallsInv
  <2>1. CASE c \in calls
    BY <1>0, <2>1, CallStable DEF PairingInv, CallsInv
  <2> QED
    BY <2>1
<1>2. RequestsInv' /\ InvitationAdmitsOne'
  BY <1>0, RequestsKept
<1>3. OneCredential'
  BY DEF OneCredential, OneCredentialKept
<1> QED
  BY <1>1, <1>2, <1>3 DEF PairingInv

(* A handler that has been answered. *)
LEMMA AnswerTyped ==
    ASSUME NEW c \in CallRow, NEW a \in Decisions \cup {"none", "expired", "accepted"},
           NEW d, d = [c EXCEPT !.answer = a]
    PROVE  /\ d \in CallRow /\ d.kind = c.kind /\ d.id = c.id /\ d.slot = c.slot
           /\ d.seen = c.seen /\ d.late = c.late /\ d.answer = a
BY DEF CallRow

(* The joiner stores the answer. *)
LEMMA AcceptRemoteKeeps ==
    ASSUME PairingInv, NEW c \in calls, AcceptRemote(c)
    PROVE  PairingInv'
<1> USE DEF PairingInv
<1>1. CollectSound(c) /\ c.kind = "collect" /\ c.answer = "approved"
  BY DEF CallsInv, CallSound, AcceptRemote
<1>2. PICK r, k : r = c.id /\ k = c.slot
  OBVIOUS
<1>3. /\ r \in DOMAIN requests /\ requests[r].state = "used"
      /\ r \in Nat /\ r # 0 /\ k \in Nat \ {0} /\ k \in Int /\ c \in CallRow
  BY <1>1, <1>2, Typed DEF CollectSound
<1>4. PICK j \in Nodes, h \in Nodes : j = requests[r].node /\ h = requests[r].host
  BY <1>3, Typed
<1>5. j # h
  BY <1>3, <1>4 DEF RequestsInv
<1>6. PICK rec : rec = Active(Credential(r, k), JoinerSecret(r))
  OBVIOUS
<1>7. rec \in MemberRow /\ rec.state = "active" /\ rec.out = Credential(r, k) /\ rec.in = JoinerSecret(r)
  BY <1>3, <1>6, SecretsDiffer DEF Active, MemberRow, States
<1>8. member' = [member EXCEPT ![j][h] = rec]
  BY <1>2, <1>4, <1>6 DEF AcceptRemote
<1>9. PICK d : d = [c EXCEPT !.answer = "accepted"]
  OBVIOUS
<1>10. /\ d \in CallRow /\ d.kind = "collect" /\ d.id = r /\ d.slot = k
       /\ d.seen = c.seen /\ d.late = c.late /\ d.answer = "accepted"
  BY <1>1, <1>2, <1>3, <1>9, AnswerTyped
<1>11. calls' = (calls \ {c}) \cup {d}
  BY <1>9 DEF AcceptRemote, Answer
<1>12. UNCHANGED <<setting, invites, requests, events, raced, straddled, transportVars>>
  BY DEF AcceptRemote
<1>13. SlotsInv' /\ calls' \subseteq CallRow
  BY <1>2, <1>10, <1>11, SlotsAnswered
<1>14. TypesInv'
  BY <1>7, <1>8, <1>12, <1>13, MemberUpdated DEF TypesInv, setting, transportVars
<1>15. RequestsGrow
  BY <1>12 DEF RequestsGrow, Decides
<1>16. \A q : Delivering(q)' => Delivering(q)
  BY <1>10, <1>11 DEF Delivering, Collecting
<1>17. Raced(r) \/ ~Delivering(r)'
  <2> SUFFICES ASSUME ~Raced(r), NEW e \in calls', Collecting(e, r), e.answer = "approved" PROVE FALSE
    BY DEF Delivering
  <2>1. e \in calls /\ e # c
    BY <1>10, <1>11
  <2>2. InUse(r, e.slot) /\ InUse(r, c.slot) /\ e.slot \in Nat \ {0}
    BY <1>1, <1>2, <2>1, Typed DEF InUse, Collecting
  <2>3. e.slot = c.slot
    BY <1>2, <1>3, <2>2 DEF OneCredential
  <2> QED
    BY <2>1, <2>3 DEF SlotsInv
<1>18. ASSUME NEW q \in DOMAIN requests, NEW l \in Nat \ {0}, InUse(q, l)'
       PROVE  InUse(q, l)
  <2>0. q \in Nat /\ l \in Int
    BY PairingAssumption, Typed
  <2>1. CASE \E e \in calls' : Collecting(e, q) /\ e.answer \in {"approved", "accepted"} /\ e.slot = l
    BY <1>1, <1>2, <1>10, <1>11, <2>1 DEF InUse, Collecting
  <2>2. ASSUME NEW n \in Nodes, NEW m \in Nodes, Credential(q, l) \in {member'[n][m].out, member'[n][m].in}
        PROVE  InUse(q, l)
    <3>1. CASE n = j /\ m = h
      <4>1. member'[n][m] = rec
        BY <1>7, <1>8, <3>1, MemberUpdated
      <4>2. Of(Credential(q, l)) = q /\ Of(Credential(r, k)) = r /\ Of(JoinerSecret(r)) = r
        BY <1>3, <2>0, SecretsDiffer
      <4>3. q = r /\ Credential(r, l) = Credential(r, k)
        BY <1>3, <1>7, <2>0, <2>2, <4>1, <4>2, SecretsDiffer
      <4>4. l = k
        BY <1>3, <2>0, <4>3, SecretsDiffer
      <4> QED
        BY <1>1, <1>2, <4>3, <4>4 DEF InUse, Collecting
    <3>2. CASE n # j \/ m # h
      <4>1. member'[n][m] = member[n][m]
        BY <1>7, <1>8, <3>2, MemberUpdated
      <4> QED
        BY <2>2, <4>1 DEF InUse
    <3> QED
      BY <3>1, <3>2
  <2> QED
    BY <1>18, <2>1, <2>2 DEF InUse
<1>19. OutSound(j, h, Credential(r, k))'
  <2>1. Of(Credential(r, k)) = r
    BY <1>3, SecretsDiffer
  <2> QED
    BY <1>3, <1>4, <1>12, <2>1 DEF OutSound, JoinerOut, From
<1>20. InSound(j, h, JoinerSecret(r))'
  <2>1. Of(JoinerSecret(r)) = r
    BY <1>3, SecretsDiffer
  <2> QED
    BY <1>3, <1>4, <1>12, <1>17, <2>1 DEF InSound, HostOut, From, Raced
<1>21. Of(rec.in) # 0 /\ Of(rec.in) = r
  BY <1>3, <1>7, SecretsDiffer
<1>22. BringsBackNothing(j, h, rec)
  <2> SUFFICES ASSUME NEW x \in DOMAIN sent, sent[x].key = rec.in, accepted[x] > 0, ~Raced(r)
      PROVE  FALSE
    BY <1>12, <1>21 DEF BringsBackNothing, Raced
  <2>1. ~Delivering(r)
    BY <1>7, <1>21 DEF SentInv, OnceSound, Settled
  <2> QED
    BY <1>1, <1>2, <2>1 DEF Delivering, Collecting
<1>23. NoncesKept(j, h, rec)
  BY <1>12 DEF NoncesKept, Remembered, transportVars
<1>24. KeysInv' /\ OneCredentialKept /\ SentInv' /\ DeliveredOnce'
  <2>1. UNCHANGED <<sent, clock, accepted, outlived>> /\ AuthsCarried /\ requests' = requests
    BY <1>12 DEF transportVars, AuthsCarried
  <2>2. OutSound(j, h, rec.out)' /\ InSound(j, h, rec.in)'
    BY <1>7, <1>19, <1>20
  <2>3. RowSound(j, h, rec)
    BY <1>5, <1>7, <1>21, <2>2 DEF RowSound
  <2>4. HandsOutNothing
    BY <1>16, <1>18, <2>1 DEF HandsOutNothing
  <2> HIDE DEF PairingInv
  <2> QED
    BY <1>7, <1>8, <1>14, <1>15, <1>22, <1>23, <2>1, <2>3, <2>4, RowStep
<1>25. CallSound(d)'
  <2>1. CallSound(d)
    BY <1>1, <1>2, <1>3, <1>10 DEF CallSound, CollectSound, Since
  <2> QED
    BY <1>12, <1>15, <2>1, CallStable DEF InvitesGrow, setting
<1> QED
  BY <1>11, <1>12, <1>13, <1>14, <1>15, <1>24, <1>25, LoudStep DEF setting

(* The joiner notes the outcome. *)
LEMMA CollectOutboundKeeps ==
    ASSUME PairingInv, NEW c \in calls, CollectOutbound(c)
    PROVE  PairingInv'
<1>1. TypesInv /\ SlotsInv /\ RequestsInv /\ InvitationAdmitsOne
  BY DEF PairingInv
<1>2. CollectSound(c)
  BY DEF PairingInv, CallsInv, CallSound, CollectOutbound
<1>3. PICK r, out : r = c.id /\ out = Outcome(c.answer)
  OBVIOUS
<1>4. r \in DOMAIN requests
  BY <1>2, <1>3 DEF CollectSound
<1>5. /\ out \in {"pending", "approved", "rejected", "expired"}
      /\ out = "approved" => c.answer = "accepted"
      /\ out = "rejected" => c.answer = "rejected"
      /\ out = "expired" => c.answer = "expired"
  BY <1>3 DEF Outcome
<1>6. requests' = [requests EXCEPT ![r].out = out]
  BY <1>3 DEF CollectOutbound
<1>7. /\ requests' \in Seq(RequestRow) /\ DOMAIN requests' = DOMAIN requests
      /\ \A q \in DOMAIN requests :
            /\ requests'[q].host = requests[q].host /\ requests'[q].node = requests[q].node
            /\ requests'[q].invite = requests[q].invite /\ requests'[q].expired = requests[q].expired
            /\ requests'[q].state = requests[q].state
            /\ q # r => requests'[q] = requests[q]
      /\ requests'[r].out = out
  BY <1>1, <1>4, <1>5, <1>6, OutUpdated
<1>8. /\ calls' \subseteq calls
      /\ UNCHANGED <<setting, member, invites, events, raced, straddled, transportVars>>
  BY DEF CollectOutbound, Leave
<1>9. TypesInv'
  BY <1>1, <1>7, <1>8 DEF TypesInv, setting, transportVars
<1>10. Quiet /\ RequestsGrow /\ InvitesGrow
  BY <1>7, <1>8 DEF Quiet, RequestsGrow, Decides, InvitesGrow, setting, transportVars
<1>11. RequestsInv'
  <2> SUFFICES ASSUME NEW q \in DOMAIN requests
      PROVE  (/\ requests[q].host # requests[q].node
              /\ requests[q].invite \in DOMAIN invites
              /\ invites[requests[q].invite].state = "used"
              /\ requests[q].out = "approved" => requests[q].state = "used"
              /\ requests[q].out = "rejected" => requests[q].state = "rejected"
              /\ requests[q].out = "expired" => Lapsed(q))'
    BY <1>7 DEF RequestsInv
  <2>1. Lapsed(q) => Lapsed(q)'
    BY <1>10, LapsedStable
  <2>2. CASE q = r
    BY <1>1, <1>2, <1>3, <1>5, <1>7, <1>8, <2>1, <2>2 DEF RequestsInv, CollectSound
  <2>3. CASE q # r
    BY <1>1, <1>7, <1>8, <2>1, <2>3 DEF RequestsInv
  <2> QED
    BY <2>2, <2>3
<1>12. InvitationAdmitsOne'
  BY <1>1, <1>7, <1>8 DEF InvitationAdmitsOne
<1>13. SlotsInv'
  BY <1>1, <1>8, SlotsFewer
<1> QED
  BY <1>8, <1>9, <1>10, <1>11, <1>12, <1>13, QuietStep

(* The host commits a decision. *)
LEMMA DecideJoinKeeps ==
    ASSUME PairingInv, NEW c \in calls, DecideJoin(c)
    PROVE  PairingInv'
<1> USE DEF PairingInv
<1>1. DecideSound(c) /\ c.kind \in {"approve", "reject"}
  BY DEF CallsInv, CallSound, DecideJoin
<1>2. calls' \subseteq calls /\ UNCHANGED <<setting, invites, events, transportVars>>
  BY DEF DecideJoin, Leave
<1>3. CASE Seen(c, requests[c.id].state) # "pending" \/ c.late
  <2>1. Undecided
    BY <1>3 DEF DecideJoin
  <2>2. events' \in Nat
    BY <1>2 DEF TypesInv
  <2> QED
    BY <1>2, <2>1, <2>2, LeaveKeeps DEF Undecided
<1>4. CASE Seen(c, requests[c.id].state) = "pending" /\ ~c.late
  <2>1. Decided(c)
    BY <1>4 DEF DecideJoin
  <2>2. PICK r : r = c.id
    OBVIOUS
  <2>3. /\ r \in DOMAIN requests /\ r \in Nat /\ r # 0 /\ requests[r].state \in Decisions
        /\ requests[r].host \in Nodes /\ requests[r].node \in Nodes
    BY <1>1, <2>2, Typed DEF DecideSound
  <2>4. PICK state : state = IF requests[r].state = "pending" THEN Verdict(c) ELSE requests[r].state
    OBVIOUS
  <2>5. /\ state \in Decisions
        /\ requests[r].state = "pending" => state = IF c.kind = "approve" THEN "approved" ELSE "rejected"
        /\ requests[r].state # "pending" => state = requests[r].state
    BY <2>3, <2>4 DEF Verdict, Decisions
  <2>6. requests' = [requests EXCEPT ![r].state = state]
    BY <2>1, <2>2, <2>4 DEF Decided
  <2>7. /\ requests' \in Seq(RequestRow) /\ DOMAIN requests' = DOMAIN requests
        /\ \A q \in DOMAIN requests :
              /\ requests'[q].host = requests[q].host /\ requests'[q].node = requests[q].node
              /\ requests'[q].invite = requests[q].invite /\ requests'[q].expired = requests[q].expired
              /\ requests'[q].out = requests[q].out
              /\ q # r => requests'[q] = requests[q]
        /\ requests'[r].state = state
    BY <2>3, <2>5, <2>6, StateUpdated
  <2>8. /\ raced' = IF Stale(c, requests[r].state) THEN raced \cup {<<"request", r>>} ELSE raced
        /\ straddled' = IF requests[r].expired /\ ~c.late THEN straddled \cup {r} ELSE straddled
    BY <2>1, <2>2 DEF Decided
  <2>9. RequestsGrow
    <3>1. \A q \in DOMAIN requests : Decides(q)
      BY <2>5, <2>7 DEF Decides
    <3>2. requests[r].expired => r \in straddled'
      BY <1>4, <2>8
    <3> QED
      BY <2>7, <2>8, <3>1, <3>2 DEF RequestsGrow
  <2>10. \A q \in DOMAIN requests : requests'[q].state = requests[q].state \/ requests[q].state = "pending"
    BY <2>5, <2>7
  <2>11. requests[r].state = "pending" \/ Raced(r)'
    BY <1>1, <1>4, <2>2, <2>8 DEF DecideSound, TypesInv, Seen, Stale, Raced
  <2>12. SlotsInv' /\ calls' \subseteq CallRow
    BY <1>2, SlotsFewer DEF TypesInv
  <2>13. InvitesGrow
    BY <1>2 DEF InvitesGrow
  <2>14. CASE c.kind # "approve"
    <3>1. UNCHANGED member
      BY <2>1, <2>14 DEF Decided, Admit
    <3>2. TypesInv'
      BY <1>2, <2>7, <2>12, <3>1 DEF TypesInv, setting, transportVars
    <3>3. Quiet
      BY <1>2, <2>9, <2>10, <3>1 DEF Quiet, setting, transportVars
    <3>4. RequestsInv' /\ InvitationAdmitsOne'
      BY <2>7, <2>9, <2>13, RequestsKept
    <3> QED
      BY <1>2, <2>12, <2>13, <3>2, <3>3, <3>4, QuietStep
  <2>15. CASE c.kind = "approve"
    <3>1. PICK h \in Nodes, j \in Nodes : j = requests[r].node /\ h = requests[r].host
      BY <2>3
    <3>2. PICK rec : rec = Active(JoinerSecret(r), Placeholder(r))
      OBVIOUS
    <3>3. rec \in MemberRow /\ rec.state = "active" /\ rec.out = JoinerSecret(r) /\ rec.in = Placeholder(r)
      BY <2>3, <3>2, SecretsDiffer DEF Active, MemberRow, States
    <3>4. member' = [member EXCEPT ![h][j] = rec]
      BY <2>1, <2>2, <2>15, <3>1, <3>2 DEF Decided, Admit
    <3>5. TypesInv'
      BY <1>2, <2>7, <2>12, <3>3, <3>4, MemberUpdated DEF TypesInv, setting, transportVars
    <3>6. Of(JoinerSecret(r)) = r /\ Of(Placeholder(r)) = r
      BY <2>3, SecretsDiffer
    <3>7. Raced(r)' \/ requests'[r].state = "approved"
      BY <2>5, <2>7, <2>11, <2>15
    <3>8. OutSound(h, j, rec.out)' /\ InSound(h, j, rec.in)'
      BY <2>3, <2>7, <3>1, <3>3, <3>6, <3>7 DEF OutSound, InSound, HostOut, From
    <3>9. h # j
      BY <2>3, <3>1 DEF RequestsInv
    <3>10. RowSound(h, j, rec)
      BY <2>3, <3>3, <3>6, <3>8, <3>9 DEF RowSound
    <3>11. HandsOutNothing
      <4>1. \A q \in DOMAIN requests : Delivering(q)' => Delivering(q)
        BY <1>2 DEF Delivering, Collecting
      <4>2. ASSUME NEW q \in DOMAIN requests, NEW k \in Nat \ {0}, InUse(q, k)'
            PROVE  InUse(q, k)
        <5>0. q \in Nat /\ k \in Int /\ k # 0
          BY PairingAssumption, Typed
        <5>1. CASE \E e \in calls' : Collecting(e, q) /\ e.answer \in {"approved", "accepted"} /\ e.slot = k
          BY <1>2, <5>1 DEF InUse, Collecting
        <5>2. ASSUME NEW n \in Nodes, NEW m \in Nodes, Credential(q, k) \in {member'[n][m].out, member'[n][m].in}
              PROVE  InUse(q, k)
          <6>1. Credential(q, k) # JoinerSecret(r) /\ Credential(q, k) # Placeholder(r)
            <7>1. Of(Credential(q, k)) = q
              BY <5>0, SecretsDiffer
            <7>2. CASE q # r
              BY <3>6, <7>1, <7>2
            <7>3. CASE q = r
              BY <5>0, <7>3, SecretsDiffer
            <7> QED
              BY <7>2, <7>3
          <6>2. ~(n = h /\ m = j)
            BY <3>3, <3>4, <5>2, <6>1, MemberUpdated
          <6>3. member'[n][m] = member[n][m]
            BY <3>3, <3>4, <6>2, MemberUpdated
          <6> QED
            BY <5>2, <6>3 DEF InUse
        <5> QED
          BY <4>2, <5>1, <5>2 DEF InUse
      <4> QED
        BY <2>10, <4>1, <4>2 DEF HandsOutNothing
    <3>12. BringsBackNothing(h, j, rec)
      <4> SUFFICES ASSUME NEW x \in DOMAIN sent, sent[x].key = Placeholder(r) PROVE FALSE
        BY <3>3 DEF BringsBackNothing
      <4>1. \/ Placeholder(r) = JoinerSecret(r)
            \/ \E k \in Nat \ {0} : Placeholder(r) = Credential(r, k)
        BY <2>3, <3>6 DEF SentInv, SentSound
      <4> QED
        BY <2>3, <4>1, PairingAssumption, SecretsDiffer
    <3>13. NoncesKept(h, j, rec)
      BY <1>2 DEF NoncesKept, Remembered, transportVars
    <3>14. KeysInv' /\ OneCredentialKept /\ SentInv' /\ DeliveredOnce'
      <4>1. UNCHANGED <<sent, clock, accepted, outlived>> /\ AuthsCarried
        BY <1>2 DEF transportVars, AuthsCarried
      <4> HIDE DEF PairingInv
      <4> QED
        BY <2>9, <3>3, <3>4, <3>5, <3>10, <3>11, <3>12, <3>13, <4>1, RowStep
    <3> QED
      BY <1>2, <2>7, <2>9, <2>12, <3>5, <3>14, LoudStep DEF setting
  <2> QED
    BY <2>14, <2>15
<1> QED
  BY <1>3, <1>4

(* A poll that is told something else than "approved". *)
LEMMA PollToldKeeps ==
    ASSUME PairingInv, NEW c \in calls, PollJoin(c), Seen(c, requests[c.id].state) # "approved"
    PROVE  PairingInv'
<1> USE DEF PairingInv
<1>1. CollectSound(c) /\ c.kind = "collect" /\ c \in CallRow
  BY Typed DEF CallsInv, CallSound, PollJoin
<1>2. c.id \in DOMAIN requests /\ requests[c.id].state \in Decisions
  BY <1>1, Typed DEF CollectSound
<1>3. PICK s : s = Seen(c, requests[c.id].state)
  OBVIOUS
<1>4. PICK a : a = IF s = "pending" /\ c.late THEN "expired" ELSE s
  OBVIOUS
<1>5. Answer(c, a) /\ UNCHANGED <<member, requests, raced>>
  BY <1>3, <1>4 DEF PollJoin
<1>6. UNCHANGED <<setting, invites, events, straddled, transportVars>>
  BY DEF PollJoin
<1>7. /\ s # "approved" /\ s \in Decisions
      /\ s = "rejected" => requests[c.id].state = "rejected"
      /\ s = "pending" /\ c.late => Lapsed(c.id)
  BY <1>1, <1>2, <1>3 DEF Seen, CollectSound, Since, CallRow, TypesInv, Lapsed
<1>8. PICK d : d = [c EXCEPT !.answer = a]
  OBVIOUS
<1>9. a \in Decisions \cup {"none", "expired", "accepted"}
  BY <1>4, <1>7
<1>11. /\ d \in CallRow /\ d.kind = c.kind /\ d.id = c.id /\ d.slot = c.slot
       /\ d.seen = c.seen /\ d.late = c.late /\ d.answer = a
  BY <1>1, <1>8, <1>9, AnswerTyped
<1>12. calls' = (calls \ {c}) \cup {d}
  BY <1>5, <1>8 DEF Answer
<1>13. SlotsInv' /\ calls' \subseteq CallRow
  BY <1>11, <1>12, SlotsAnswered
<1>14. TypesInv'
  BY <1>5, <1>6, <1>13 DEF TypesInv, setting, transportVars
<1>15. a \notin {"approved", "accepted"}
  BY <1>4, <1>7 DEF Decisions
<1>16. Quiet /\ RequestsGrow /\ InvitesGrow
  BY <1>5, <1>6, <1>11, <1>12, <1>15 DEF Quiet, RequestsGrow, Decides, InvitesGrow, setting, transportVars
<1>17. RequestsInv' /\ InvitationAdmitsOne'
  BY <1>5, <1>16, RequestsKept
<1>18. CallSound(d)
  <2>1. a = "rejected" => requests[c.id].state = "rejected"
    BY <1>4, <1>7
  <2>2. a = "expired" => Lapsed(c.id)
    BY <1>4, <1>7 DEF Decisions
  <2> QED
    BY <1>1, <1>11, <1>15, <2>1, <2>2 DEF CallSound, CollectSound, Since
<1>19. CallSound(d)'
  BY <1>6, <1>16, <1>18, CallStable DEF setting
<1> QED
  BY <1>12, <1>13, <1>14, <1>16, <1>17, <1>19, QuietStep

(* The poll that gives the credential away. *)
LEMMA PollIssuesKeeps ==
    ASSUME PairingInv, NEW c \in calls, PollJoin(c), Seen(c, requests[c.id].state) = "approved"
    PROVE  PairingInv'
<1> USE DEF PairingInv
<1>1. CollectSound(c) /\ c.kind = "collect" /\ c \in CallRow
  BY Typed DEF CallsInv, CallSound, PollJoin
<1>2. PICK r, k : r = c.id /\ k = c.slot
  OBVIOUS
<1>3. /\ r \in DOMAIN requests /\ r \in Nat /\ r # 0
      /\ requests[r].host \in Nodes /\ requests[r].node \in Nodes
      /\ k \in Nat \ {0} /\ k \in Int /\ k # 0
  BY <1>1, <1>2, Typed, PairingAssumption DEF CollectSound
<1>4. requests[r].state \in {"approved", "used"}
  BY <1>1, <1>2 DEF Seen, CollectSound, Since, TypesInv
<1>5. PICK h \in Nodes, j \in Nodes : h = requests[r].host /\ j = requests[r].node
  BY <1>3
<1>6. /\ Issue(c)
      /\ requests' = [requests EXCEPT ![r].state = "used"]
      /\ raced' = IF Stale(c, requests[r].state) THEN raced \cup {<<"request", r>>} ELSE raced
  BY <1>2 DEF PollJoin
<1>7. UNCHANGED <<setting, invites, events, straddled, transportVars>>
  BY DEF PollJoin
<1>8. requests[r].state = "approved" \/ Raced(r)'
  BY <1>1, <1>2, <1>6 DEF Seen, Stale, TypesInv, Raced
<1>9. /\ requests' \in Seq(RequestRow) /\ DOMAIN requests' = DOMAIN requests
      /\ \A q \in DOMAIN requests :
            /\ requests'[q].host = requests[q].host /\ requests'[q].node = requests[q].node
            /\ requests'[q].invite = requests[q].invite /\ requests'[q].expired = requests[q].expired
            /\ requests'[q].out = requests[q].out
            /\ q # r => requests'[q] = requests[q]
      /\ requests'[r].state = "used"
  <2>1. "used" \in Decisions
    BY DEF Decisions
  <2> QED
    BY <1>3, <1>6, <2>1, StateUpdated
<1>10. RequestsGrow
  BY <1>4, <1>6, <1>7, <1>9 DEF RequestsGrow, Decides
<1>11. PICK rec : rec = IF member[h][j].state = "none" THEN member[h][j]
                        ELSE [member[h][j] EXCEPT !.in = Credential(r, k)]
  OBVIOUS
<1>12. /\ rec \in MemberRow /\ rec.state = member[h][j].state /\ rec.out = member[h][j].out
       /\ rec.state = "none" => rec = member[h][j]
       /\ rec.state # "none" => rec.in = Credential(r, k)
  <2>1. member[h][j] \in MemberRow /\ Credential(r, k) \in Secret
    BY <1>3, Typed, SecretsDiffer
  <2> QED
    BY <1>11, <2>1 DEF MemberRow
<1>13. member' = [member EXCEPT ![h][j] = rec]
  BY <1>2, <1>5, <1>6, <1>11 DEF Issue
<1>14. /\ member' \in [Nodes -> [Nodes -> MemberRow]]
       /\ member'[h][j] = rec
       /\ \A n, m \in Nodes : n # h \/ m # j => member'[n][m] = member[n][m]
  BY <1>12, <1>13, MemberUpdated
<1>15. PICK d : d = [c EXCEPT !.answer = "approved"]
  OBVIOUS
<1>16. /\ d \in CallRow /\ d.kind = "collect" /\ d.id = r /\ d.slot = k
       /\ d.seen = c.seen /\ d.late = c.late /\ d.answer = "approved"
  <2>1. "approved" \in Decisions
    BY DEF Decisions
  <2> QED
    BY <1>1, <1>2, <1>15, <2>1, AnswerTyped
<1>17. calls' = (calls \ {c}) \cup {d}
  BY <1>6, <1>15 DEF Issue, Answer
<1>18. SlotsInv' /\ calls' \subseteq CallRow
  BY <1>2, <1>16, <1>17, SlotsAnswered
<1>19. TypesInv'
  BY <1>7, <1>9, <1>14, <1>18 DEF TypesInv, setting, transportVars
<1>20. \A q : q # r => (Delivering(q)' => Delivering(q))
  BY <1>16, <1>17 DEF Delivering, Collecting
<1>21. Of(Credential(r, k)) = r
  BY <1>3, SecretsDiffer
<1>22. InSound(h, j, Credential(r, k))'
  BY <1>3, <1>5, <1>9, <1>21 DEF InSound, JoinerOut, From
<1>23. KeysInv'
  <2> SUFFICES ASSUME NEW n \in Nodes, NEW m \in Nodes
      PROVE  (/\ OutSound(n, m, member[n][m].out)
              /\ InSound(n, m, member[n][m].in)
              /\ member[n][m].state # "none" => Of(member[n][m].in) # 0
              /\ n = m \/ member[n][m].state = "none" => member[n][m] = NoMember)'
    BY DEF KeysInv
  <2>1. PICK o, i : o = member'[n][m].out /\ i = member'[n][m].in
    OBVIOUS
  <2>2. o = member[n][m].out /\ member'[n][m].state = member[n][m].state
    BY <1>12, <1>14, <2>1
  <2>3. OutSound(n, m, o)'
    BY <1>10, <2>2, OutStable DEF KeysInv
  <2>4. CASE n = h /\ m = j /\ rec.state # "none"
    <3>1. i = Credential(r, k)
      BY <1>12, <1>14, <2>1, <2>4
    <3>2. n # m
      BY <1>3, <1>5, <2>4 DEF RequestsInv
    <3>3. InSound(n, m, i)'
      BY <1>22, <2>4, <3>1
    <3> QED
      BY <1>3, <1>12, <1>14, <1>21, <2>1, <2>3, <2>4, <3>1, <3>2, <3>3
  <2>5. CASE ~(n = h /\ m = j /\ rec.state # "none")
    <3>1. member'[n][m] = member[n][m]
      BY <1>12, <1>14, <2>5
    <3>2. InSound(n, m, i)
      BY <2>1, <3>1 DEF KeysInv
    <3>3. ASSUME Of(i) # r PROVE InSound(n, m, i)'
      BY <1>9, <1>10, <1>20, <3>2, <3>3, InStable
    <3>4. ASSUME Of(i) = r PROVE InSound(n, m, i)'
      <4>1. CASE i = Placeholder(r) /\ From(m, n, r)
        <5>1. n = h /\ m = j /\ member[n][m].state = "none"
          BY <1>5, <1>12, <1>14, <2>5, <4>1 DEF From
        <5>2. Of(i) = 0
          BY <2>1, <3>1, <5>1, SecretsDiffer DEF KeysInv, NoMember
        <5> QED
          BY <1>3, <3>4, <5>2
      <4>2. CASE JoinerOut(m, n, i, r) /\ requests[r].state = "used"
        BY <1>9, <1>3, <3>4, <4>2 DEF InSound, JoinerOut, From
      <4>3. CASE HostOut(m, n, i, r) /\ requests[r].state = "used"
        <5>1. Raced(r)'
          BY <1>8, <4>3
        <5> QED
          BY <1>9, <1>3, <3>4, <4>3, <5>1 DEF InSound, HostOut, From
      <4> QED
        BY <1>3, <3>2, <3>4, <4>1, <4>2, <4>3 DEF InSound
    <3>5. InSound(n, m, i)'
      BY <3>3, <3>4
    <3> QED
      BY <2>1, <2>3, <3>1, <3>5 DEF KeysInv
  <2> QED
    BY <2>4, <2>5
<1>24. ASSUME NEW q \in DOMAIN requests, NEW l \in Nat \ {0}, InUse(q, l)'
       PROVE  InUse(q, l) \/ (q = r /\ l = k)
  <2>0. q \in Nat /\ l \in Int
    BY PairingAssumption, Typed
  <2>1. CASE \E e \in calls' : Collecting(e, q) /\ e.answer \in {"approved", "accepted"} /\ e.slot = l
    BY <1>16, <1>17, <2>1 DEF InUse, Collecting
  <2>2. ASSUME NEW n \in Nodes, NEW m \in Nodes, Credential(q, l) \in {member'[n][m].out, member'[n][m].in}
        PROVE  InUse(q, l) \/ (q = r /\ l = k)
    <3>1. CASE Credential(q, l) = Credential(r, k)
      <4>1. q = r
        BY <1>21, <2>0, <3>1, SecretsDiffer
      <4> QED
        BY <1>3, <2>0, <3>1, <4>1, SecretsDiffer
    <3>2. CASE Credential(q, l) # Credential(r, k)
      <4>1. Credential(q, l) \in {member[n][m].out, member[n][m].in}
        BY <1>12, <1>14, <2>2, <3>2
      <4> QED
        BY <4>1 DEF InUse
    <3> QED
      BY <3>1, <3>2
  <2> QED
    BY <1>24, <2>1, <2>2 DEF InUse
<1>25. OneCredentialKept
  <2> SUFFICES ASSUME NEW q \in DOMAIN requests, NEW i \in Nat \ {0}, NEW l \in Nat \ {0},
                      InUse(q, i)', InUse(q, l)', ~Raced(q)'
      PROVE  i = l
    BY DEF OneCredentialKept
  <2>1. ~Raced(q)
    BY <1>10 DEF RequestsGrow, Raced
  <2>2. CASE q # r
    BY <1>24, <2>1, <2>2 DEF OneCredential
  <2>3. CASE q = r
    <3>1. requests[r].state # "used"
      BY <1>8, <2>3
    <3>2. ~InUse(r, i) /\ ~InUse(r, l)
      BY <1>3, <3>1, InUseKnown
    <3> QED
      BY <1>24, <2>3, <3>2
  <2> QED
    BY <2>2, <2>3
<1>26. SentInv'
  <2>0. UNCHANGED <<sent, nonces, clock, auths, accepted, outlived>>
    BY <1>7 DEF transportVars
  <2>00. AuthsInv'
    BY <2>0 DEF SentInv, AuthsInv
  <2> SUFFICES ASSUME NEW x \in DOMAIN sent PROVE SentSound(x)' /\ OnceSound(x)'
    BY <2>0, <2>00 DEF SentInv
  <2>1. SentSound(x) /\ OnceSound(x)
    BY DEF SentInv
  <2>2. SentSound(x)'
    BY <1>10, <2>0, <2>1 DEF SentSound, RequestsGrow
  <2>3. PICK q : q = Of(sent[x].key)
    OBVIOUS
  <2>4. ASSUME ~Raced(q)', accepted[x] > 0 \/ AtWork(x)
        PROVE  Settled(x)' /\ (Remembered(x) \/ Unusable(x) => Remembered(x)' \/ Unusable(x)')
    <3>1. ~Raced(q)
      BY <1>10, <2>4 DEF RequestsGrow, Raced
    <3>2. /\ q # 0 /\ requests[q].state = "used" /\ q \in DOMAIN requests
          /\ sent[x].key = JoinerSecret(q) => ~Delivering(q)
      BY <2>1, <2>3, <2>4, <3>1 DEF OnceSound, Settled, SentSound
    <3>3. q # r
      BY <1>8, <2>4, <3>1, <3>2
    <3>4. requests'[q].state = "used" /\ (sent[x].key = JoinerSecret(q) => ~Delivering(q)')
      BY <1>9, <1>20, <3>2, <3>3
    <3>5. sent[x].to \in Nodes /\ sent[x].from \in Nodes /\ sent[x].key # Credential(r, k)
      BY <1>21, <2>3, <3>3, Typed
    <3>6. \/ member'[sent[x].to][sent[x].from].in = member[sent[x].to][sent[x].from].in
          \/ member'[sent[x].to][sent[x].from].in = Credential(r, k)
      BY <1>12, <1>14, <3>5
    <3>7. Unusable(x) => Unusable(x)'
      BY <2>0, <3>5, <3>6 DEF Unusable, Orphaned
    <3>8. Remembered(x)' = Remembered(x)
      BY <2>0 DEF Remembered
    <3> QED
      BY <2>0, <2>3, <3>2, <3>4, <3>7, <3>8 DEF Settled
  <2>5. Raced(q) => Raced(q)'
    BY <1>10 DEF RequestsGrow, Raced
  <2>6. OnceSound(x)'
    BY <2>0, <2>1, <2>3, <2>4, <2>5 DEF OnceSound, AtWork
  <2> QED
    BY <2>2, <2>6
<1>27. DeliveredOnce'
  BY <1>7, <1>10 DEF DeliveredOnce, RequestsGrow, transportVars
<1>28. CallSound(d)'
  BY <1>1, <1>2, <1>7, <1>9, <1>16 DEF CallSound, CollectSound, Since, Seen, setting, TypesInv
<1> QED
  BY <1>7, <1>9, <1>10, <1>17, <1>18, <1>19, <1>23, <1>25, <1>26, <1>27, <1>28, LoudStep DEF setting

-----------------------------------------------------------------------------
(* Administrators change a member row: they leave the secret it expects or  *)
(* remove it with its nonces.                                               *)
Edited(n, m, rec) ==
    rec.state # "none" /\ rec.in = member[n][m].in /\ UNCHANGED <<nonces, auths>>

Removed(n, m, rec) ==
    /\ rec = NoMember /\ nonces' = {x \in nonces : ~ (x.at = n /\ x.from = m)}
    /\ auths' = {[a EXCEPT !.orphan = @ \/ (sent[a.msg].to = n /\ sent[a.msg].from = m)] : a \in auths}

(* An authentication that finds its member removed. *)
LEMMA OrphanedAuth ==
    ASSUME NEW a \in AuthRow, NEW o \in BOOLEAN, NEW b, b = [a EXCEPT !.orphan = @ \/ o]
    PROVE  b \in AuthRow /\ b.msg = a.msg /\ b.at = a.at /\ b.pc = a.pc /\ b.orphan = (a.orphan \/ o)
BY DEF AuthRow

(* Either keeps the invariant. *)
LEMMA RowChangeKeeps ==
    ASSUME PairingInv, NEW n \in Nodes, NEW m \in Nodes, NEW rec \in MemberRow,
           member[n][m].state # "none", SetMember(n, m, rec),
           rec.out = member[n][m].out \/ Of(rec.out) = 0,
           Edited(n, m, rec) \/ Removed(n, m, rec)
    PROVE  PairingInv'
<1> USE DEF PairingInv
<1>0. /\ member' = [member EXCEPT ![n][m] = rec] /\ events' \in Nat
      /\ UNCHANGED <<setting, invites, requests, calls, raced, straddled, clock, sent, sends, accepted, outlived>>
  BY DEF SetMember, Event, TypesInv
<1>00. \/ rec.state # "none" /\ rec.in = member[n][m].in /\ nonces' = nonces
       \/ rec = NoMember /\ nonces' = {x \in nonces : ~ (x.at = n /\ x.from = m)}
  BY DEF Edited, Removed
<1>a. /\ auths' \subseteq AuthRow /\ AuthsCarried
      /\ Removed(n, m, rec) => \A x : sent[x].to = n /\ sent[x].from = m => Orphaned(x)'
  <2>0. auths \subseteq AuthRow
    BY DEF TypesInv
  <2>1. CASE Edited(n, m, rec)
    BY <2>0, <2>1, <1>00, SecretsDiffer DEF Edited, Removed, AuthsCarried, NoMember
  <2>2. CASE Removed(n, m, rec)
    <3>1. ASSUME NEW b \in auths'
          PROVE  /\ b \in AuthRow /\ \E a \in auths : a.msg = b.msg /\ a.at = b.at /\ (a.orphan => b.orphan)
                 /\ sent[b.msg].to = n /\ sent[b.msg].from = m => b.orphan
      <4>1. PICK a \in auths : b = [a EXCEPT !.orphan = @ \/ (sent[a.msg].to = n /\ sent[a.msg].from = m)]
        BY <2>2 DEF Removed
      <4>2. a \in AuthRow
        BY <2>0
      <4>3. PICK o \in BOOLEAN : o = (sent[a.msg].to = n /\ sent[a.msg].from = m)
        OBVIOUS
      <4>4. b = [a EXCEPT !.orphan = @ \/ o]
        BY <4>1, <4>3, Zenon
      <4>5. b \in AuthRow /\ b.msg = a.msg /\ b.at = a.at /\ b.orphan = (a.orphan \/ o)
        BY <4>2, <4>4, OrphanedAuth
      <4> QED
        BY <4>3, <4>5
    <3> QED
      BY <3>1, <1>0 DEF AuthsCarried, Orphaned
  <2> QED
    BY <2>1, <2>2
<1> USE <1>0, <1>00
<1>1. rec.in = member[n][m].in \/ Of(rec.in) = 0
  BY SecretsDiffer DEF NoMember
<1>2. n # m
  BY DEF KeysInv, NoMember
<1>3. /\ member' \in [Nodes -> [Nodes -> MemberRow]]
      /\ member'[n][m] = rec
      /\ \A a, b \in Nodes : a # n \/ b # m => member'[a][b] = member[a][b]
  BY MemberUpdated
<1>4. TypesInv'
  BY <1>3, <1>a DEF TypesInv, setting
<1>5. RequestsGrow
  BY DEF RequestsGrow, Decides
<1>6. \A q : Delivering(q)' = Delivering(q)
  BY DEF Delivering
<1>7. OutSound(n, m, rec.out)' /\ InSound(n, m, rec.in)'
  <2>1. PICK o, i : o = rec.out /\ i = rec.in
    OBVIOUS
  <2>2. OutSound(n, m, o) /\ InSound(n, m, i)
    BY <1>1, <2>1 DEF KeysInv, OutSound, InSound
  <2>3. OutSound(n, m, o)' /\ InSound(n, m, i)'
    BY <1>5, <1>6, <2>2, OutStable, InStable
  <2> QED
    BY <2>1, <2>3
<1>8. RowSound(n, m, rec)
  <2>1. rec.state # "none" => Of(rec.in) # 0
    BY DEF KeysInv, NoMember
  <2>2. rec.state = "none" => rec = NoMember
    OBVIOUS
  <2> QED
    BY <1>2, <1>7, <2>1, <2>2 DEF RowSound
<1>9. ASSUME NEW q \in DOMAIN requests, NEW l \in Nat \ {0}, InUse(q, l)'
      PROVE  InUse(q, l)
  <2>0. q \in Nat /\ q # 0 /\ l \in Int
    BY PairingAssumption, Typed
  <2>1. Of(Credential(q, l)) = q
    BY <2>0, SecretsDiffer
  <2>2. CASE \E e \in calls' : Collecting(e, q) /\ e.answer \in {"approved", "accepted"} /\ e.slot = l
    BY <2>2 DEF InUse
  <2>3. ASSUME NEW a \in Nodes, NEW b \in Nodes, Credential(q, l) \in {member'[a][b].out, member'[a][b].in}
        PROVE  InUse(q, l)
    <3>1. Credential(q, l) \in {member[a][b].out, member[a][b].in}
      BY <1>1, <1>3, <2>0, <2>1, <2>3
    <3> QED
      BY <3>1 DEF InUse
  <2> QED
    BY <1>9, <2>2, <2>3 DEF InUse
<1>10. HandsOutNothing
  BY <1>6, <1>9 DEF HandsOutNothing
<1>11. \A x \in DOMAIN sent : accepted[x] > 0 /\ ~Raced(Of(sent[x].key)) => Of(sent[x].key) # 0
  BY DEF SentInv, OnceSound, Settled
<1>12. BringsBackNothing(n, m, rec)
  BY <1>1, <1>11 DEF BringsBackNothing, Raced
<1>13. NoncesKept(n, m, rec)
  <2> SUFFICES ASSUME NEW x \in DOMAIN sent, accepted[x] > 0, ~Raced(Of(sent[x].key)), Remembered(x),
                      ~(sent[x].to = n /\ sent[x].from = m /\ sent[x].key # rec.in /\ Orphaned(x)')
      PROVE  Remembered(x)'
    BY DEF NoncesKept
  <2>1. CASE nonces' = nonces
    BY <2>1 DEF Remembered
  <2>2. CASE Removed(n, m, rec)
    <3>1. sent[x].key # rec.in
      BY <1>11, <2>2, SecretsDiffer DEF NoMember, Removed
    <3>2. ~(sent[x].to = n /\ sent[x].from = m)
      BY <1>a, <2>2, <3>1
    <3> QED
      BY <2>2, <3>2 DEF Remembered, Removed
  <2> QED
    BY <2>1, <2>2 DEF Edited
<1>14. KeysInv' /\ OneCredentialKept /\ SentInv' /\ DeliveredOnce'
  <2>1. UNCHANGED <<sent, clock, accepted, outlived>> /\ AuthsCarried
    BY <1>a
  <2> HIDE DEF PairingInv
  <2> QED
    BY <1>4, <1>5, <1>8, <1>10, <1>12, <1>13, <2>1, RowStep
<1>15. SlotsInv'
  BY DEF SlotsInv
<1> QED
  BY <1>4, <1>5, <1>14, <1>15, LoudStep DEF setting

(* SetEnabled, Revoke, Remove and Rotate. *)
LEMMA PairKeeps ==
    ASSUME PairingInv, NEW n \in Nodes, NEW m \in Nodes,
           SetEnabled(n, m) \/ Revoke(n, m) \/ Remove(n, m) \/ Rotate(n, m)
    PROVE  PairingInv'
<1>0. member[n][m] \in MemberRow /\ events \in Nat
  BY Typed DEF PairingInv, TypesInv
<1>1. CASE SetEnabled(n, m)
  <2>1. PICK rec : rec = [member[n][m] EXCEPT !.state = IF @ = "active" THEN "disabled" ELSE "active"]
    OBVIOUS
  <2>2. /\ member[n][m].state # "none"
        /\ rec \in MemberRow /\ rec.state # "none" /\ rec.out = member[n][m].out /\ rec.in = member[n][m].in
    BY <1>0, <1>1, <2>1 DEF SetEnabled, MemberRow, States
  <2>3. SetMember(n, m, rec) /\ UNCHANGED <<nonces, auths>>
    BY <1>1, <2>1 DEF SetEnabled
  <2> QED
    BY <2>2, <2>3, RowChangeKeeps DEF Edited
<1>2. CASE Revoke(n, m)
  <2>1. PICK rec : rec = [member[n][m] EXCEPT !.state = "revoked"]
    OBVIOUS
  <2>2. /\ member[n][m].state # "none"
        /\ rec \in MemberRow /\ rec.state # "none" /\ rec.out = member[n][m].out /\ rec.in = member[n][m].in
    BY <1>0, <1>2, <2>1 DEF Revoke, MemberRow, States
  <2>3. SetMember(n, m, rec) /\ UNCHANGED <<nonces, auths>>
    BY <1>2, <2>1 DEF Revoke
  <2> QED
    BY <2>2, <2>3, RowChangeKeeps DEF Edited
<1>3. CASE Rotate(n, m)
  <2>1. PICK rec : rec = [member[n][m] EXCEPT !.out = Rotated(events)]
    OBVIOUS
  <2>2. Rotated(events) \in Secret /\ Of(Rotated(events)) = 0
    BY <1>0, SecretsDiffer
  <2>3. /\ member[n][m].state # "none"
        /\ rec \in MemberRow /\ rec.state # "none" /\ Of(rec.out) = 0 /\ rec.in = member[n][m].in
    BY <1>0, <1>3, <2>1, <2>2 DEF Rotate, MemberRow, States
  <2>4. SetMember(n, m, rec) /\ UNCHANGED <<nonces, auths>>
    BY <1>3, <2>1 DEF Rotate
  <2> QED
    BY <2>3, <2>4, RowChangeKeeps DEF Edited
<1>4. CASE Remove(n, m)
  <2>1. NoMember \in MemberRow /\ Of(NoMember.out) = 0
    BY SecretsDiffer DEF NoMember, MemberRow, States
  <2>2. SetMember(n, m, NoMember) /\ Removed(n, m, NoMember)
    BY <1>4 DEF Remove, Removed
  <2>3. member[n][m].state # "none"
    BY <1>4 DEF Remove
  <2> QED
    BY <2>1, <2>2, <2>3, RowChangeKeeps
<1> QED
  BY <1>1, <1>2, <1>3, <1>4

(* Steps of the transport leave pairing alone. *)
LEMMA TransportKeeps ==
    ASSUME PairingInv, TypesInv', SentInv', DeliveredOnce',
           UNCHANGED <<setting, member, invites, requests, calls, raced, straddled>>
    PROVE  PairingInv'
<1>1. UNCHANGED <<provider, member, invites, requests, calls, raced, straddled>>
  BY DEF setting
<1>2. SlotsInv' = SlotsInv
  BY <1>1 DEF SlotsInv
<1>3. CallsInv' = CallsInv
  BY <1>1 DEF CallsInv, CallSound, SubmitSound, DecideSound, CollectSound, Since, Lapsed
<1>4. RequestsInv' = RequestsInv
  BY <1>1 DEF RequestsInv, Lapsed
<1>5. InvitationAdmitsOne' = InvitationAdmitsOne
  BY <1>1 DEF InvitationAdmitsOne
<1>6. KeysInv' = KeysInv
  BY <1>1 DEF KeysInv, OutSound, InSound, HostOut, JoinerOut, From, Raced, Delivering, Collecting
<1>7. OneCredential' = OneCredential
  BY <1>1 DEF OneCredential, InUse, Raced, Collecting
<1> QED
  BY <1>2, <1>3, <1>4, <1>5, <1>6, <1>7 DEF PairingInv

(* Time passes. *)
LEMMA TickKeeps ==
    ASSUME PairingInv, Tick
    PROVE  PairingInv'
<1>1. UNCHANGED <<setting, member, invites, requests, calls, events, raced, straddled, sent, sends, nonces,
                  auths, accepted, outlived>>
  BY DEF Tick, pairingVars
<1>2. TypesInv' /\ clock \in Nat /\ clock' = clock + 1
  BY <1>1 DEF PairingInv, TypesInv, Tick, setting
<1>3. SentInv'
  <2>0. AuthsInv'
    BY <1>1, <1>2 DEF PairingInv, TypesInv, SentInv, AuthsInv, AuthRow
  <2> SUFFICES ASSUME NEW x \in DOMAIN sent PROVE SentSound(x)' /\ OnceSound(x)'
    BY <1>1, <2>0 DEF SentInv
  <2>1. SentSound(x) /\ OnceSound(x)
    BY DEF PairingInv, SentInv
  <2>2. sent[x].stamp \in Int
    BY Typed DEF PairingInv
  <2>3. Remembered(x)' = Remembered(x) /\ (Unusable(x) => Unusable(x)')
    BY <1>1, <1>2, <2>2, PairingAssumption DEF Remembered, Unusable, Orphaned
  <2> QED
    BY <1>1, <2>1, <2>3 DEF SentSound, OnceSound, Settled, AtWork, Raced, Delivering, Collecting
<1>4. DeliveredOnce'
  BY <1>1 DEF PairingInv, DeliveredOnce
<1> QED
  BY <1>1, <1>2, <1>3, <1>4, TransportKeeps

(* A signed request is sent. *)
LEMMA DoKeeps ==
    ASSUME PairingInv, NEW n \in Nodes, NEW m \in Nodes, Do(n, m)
    PROVE  PairingInv'
<1>1. UNCHANGED <<setting, member, invites, requests, calls, events, raced, straddled, clock, nonces, auths, outlived>>
  BY DEF Do, pairingVars
<1>2. TypesInv /\ SentInv /\ DeliveredOnce /\ KeysInv
  BY DEF PairingInv
<1>3. PICK stamp \in Int : sent' = Append(sent, [from |-> n, to |-> m, key |-> member[n][m].out, stamp |-> stamp])
  BY <1>2, PairingAssumption DEF Do, TypesInv
<1>4. PICK row : row = [from |-> n, to |-> m, key |-> member[n][m].out, stamp |-> stamp]
  OBVIOUS
<1>5. row \in SentRow /\ row.key = member[n][m].out
  BY <1>2, <1>4, Typed DEF SentRow
<1>6. accepted' = Append(accepted, 0) /\ sends' = sends + 1
  BY DEF Do
<1>7. PICK z : z = Len(sent) + 1
  OBVIOUS
<1>8. /\ sent' \in Seq(SentRow) /\ DOMAIN sent' = DOMAIN sent \cup {z} /\ sent'[z] = row
      /\ Len(sent') = z
      /\ \A x \in DOMAIN sent : sent'[x] = sent[x]
  BY <1>2, <1>3, <1>4, <1>5, <1>7 DEF TypesInv
<1>9. /\ accepted' \in Seq(Nat) /\ accepted'[z] = 0 /\ Len(accepted') = z
      /\ DOMAIN accepted' = DOMAIN accepted \cup {z}
      /\ \A x \in DOMAIN sent : accepted'[x] = accepted[x]
      /\ \A x \in DOMAIN accepted : accepted'[x] = accepted[x]
      /\ DOMAIN accepted = DOMAIN sent
  BY <1>2, <1>6, <1>7 DEF TypesInv
<1>10. TypesInv'
  BY <1>1, <1>2, <1>6, <1>8, <1>9 DEF TypesInv, setting
<1>11. SentInv'
  <2>0. AuthsInv'
    BY <1>1, <1>2, <1>8 DEF SentInv, AuthsInv
  <2>1. ASSUME NEW x \in DOMAIN sent PROVE SentSound(x)' /\ OnceSound(x)'
    <3>1. SentSound(x) /\ OnceSound(x)
      BY <1>2 DEF SentInv
    <3>2. sent'[x] = sent[x] /\ accepted'[x] = accepted[x]
      BY <1>8, <1>9
    <3>3. Remembered(x)' = Remembered(x) /\ Unusable(x)' = Unusable(x)
      BY <1>1, <3>2 DEF Remembered, Unusable, Orphaned
    <3> QED
      BY <1>1, <3>1, <3>2, <3>3 DEF SentSound, OnceSound, Settled, AtWork, Raced, Delivering, Collecting
  <2>2. SentSound(z)' /\ OnceSound(z)'
    <3>1. OutSound(n, m, member[n][m].out)
      BY <1>2 DEF KeysInv
    <3>2. SentSound(z)'
      BY <1>1, <1>5, <1>8, <3>1 DEF OutSound, HostOut, JoinerOut, SentSound
    <3>3. ~AtWork(z)'
      BY <1>1, <1>2, <1>7, Typed DEF AtWork, SentInv, AuthsInv
    <3> QED
      BY <1>9, <3>2, <3>3 DEF OnceSound
  <2> QED
    BY <1>8, <2>0, <2>1, <2>2 DEF SentInv
<1>12. DeliveredOnce'
  BY <1>1, <1>2, <1>8, <1>9 DEF DeliveredOnce
<1> QED
  BY <1>1, <1>10, <1>11, <1>12, TransportKeeps

(* Steps of authentications.  What they must show of a signed request: a   *)
(* copy at work has a settled secret, a copy taken up presents the secret  *)
(* that is expected, its nonce is forgotten when its window closes and not *)
(* before, and it is let in for the first time, with its nonce, or is      *)
(* counted as outlived.                                                    *)
LetIn(x) ==
    /\ AtWork(x)
    /\ Raced(Of(sent[x].key)) \/ x \in outlived' \/ (accepted'[x] = 1 /\ Remembered(x)')

LEMMA AuthStep ==
    ASSUME PairingInv, TypesInv', AuthsInv', UNCHANGED <<pairingVars, clock, sent>>, outlived \subseteq outlived',
           \A x \in DOMAIN sent :
              /\ AtWork(x)' => AtWork(x) \/ Settled(x) \/ Raced(Of(sent[x].key))
              /\ Orphaned(x) => Orphaned(x)' \/ member[sent[x].to][sent[x].from].in = sent[x].key
              /\ Remembered(x) => Remembered(x)' \/ clock >= sent[x].stamp + ClockSkew
              /\ accepted'[x] = accepted[x] \/ LetIn(x)
    PROVE  PairingInv'
<1>1. UNCHANGED <<setting, member, invites, requests, calls, events, raced, straddled>>
  BY DEF pairingVars
<1>2. TypesInv /\ SentInv /\ DeliveredOnce
  BY DEF PairingInv
<1>3. ASSUME NEW x \in DOMAIN sent PROVE SentSound(x)' /\ OnceSound(x)'
  <2>1. SentSound(x) /\ OnceSound(x)
    BY <1>2 DEF SentInv
  <2>2. SentSound(x)'
    BY <1>1, <2>1 DEF SentSound
  <2>3. Settled(x)' = Settled(x) /\ Raced(Of(sent[x].key))' = Raced(Of(sent[x].key))
    BY <1>1 DEF Settled, Delivering, Collecting, Raced
  <2>4. Unusable(x) => Unusable(x)'
    BY <1>1 DEF Unusable
  <2>5. ASSUME ~Raced(Of(sent[x].key)), LetIn(x)
        PROVE  Settled(x) /\ (Remembered(x)' \/ Unusable(x)')
    <3>1. Settled(x)
      BY <2>1, <2>5 DEF LetIn, OnceSound
    <3>2. Remembered(x)' \/ x \in outlived'
      BY <2>5 DEF LetIn
    <3> QED
      BY <3>1, <3>2 DEF Unusable
  <2>6. ASSUME ~Raced(Of(sent[x].key)), ~LetIn(x)
        PROVE  /\ accepted'[x] > 0 \/ AtWork(x)' => Settled(x)
               /\ accepted'[x] > 0 => Remembered(x)' \/ Unusable(x)'
    <3>1. accepted'[x] = accepted[x]
      BY <2>6
    <3>2. accepted[x] > 0 \/ AtWork(x)' => Settled(x)
      BY <2>1, <2>6 DEF OnceSound
    <3>3. Remembered(x) => Remembered(x)' \/ Unusable(x)'
      BY <1>1 DEF Unusable
    <3>4. accepted[x] > 0 => Remembered(x)' \/ Unusable(x)'
      BY <2>1, <2>4, <2>6, <3>3 DEF OnceSound
    <3> QED
      BY <3>1, <3>2, <3>4
  <2>7. OnceSound(x)'
    BY <1>1, <2>3, <2>5, <2>6 DEF OnceSound
  <2> QED
    BY <2>2, <2>7
<1>4. SentInv'
  BY <1>3 DEF SentInv
<1>5. DeliveredOnce'
  <2>1. DOMAIN accepted' = DOMAIN sent /\ DOMAIN accepted = DOMAIN sent
    BY <1>2 DEF TypesInv
  <2> SUFFICES ASSUME NEW x \in DOMAIN sent
      PROVE  accepted'[x] <= 1 \/ x \in outlived' \/ Raced(Of(sent[x].key))
    BY <1>1, <2>1 DEF DeliveredOnce, Raced
  <2>2. accepted[x] <= 1 \/ x \in outlived \/ Raced(Of(sent[x].key))
    BY <1>2, <2>1 DEF DeliveredOnce, Raced
  <2> QED
    BY <2>2 DEF LetIn
<1> QED
  BY <1>1, <1>4, <1>5, TransportKeeps

(* A signed request arrives, perhaps again, and is verified. *)
LEMMA AuthenticateKeeps ==
    ASSUME PairingInv, NEW x \in DOMAIN sent, Authenticate(x)
    PROVE  PairingInv'
<1>1. UNCHANGED <<pairingVars, clock, sent, sends, nonces, accepted, outlived>> /\ Verifies(sent[x])
  BY DEF Authenticate
<1>2. TypesInv /\ SentInv /\ KeysInv
  BY DEF PairingInv
<1>3. /\ x \in Nat /\ sent[x].to \in Nodes /\ sent[x].from \in Nodes /\ sent[x].stamp \in Int
      /\ sent[x].key \in Secret /\ clock \in Nat /\ ClockSkew \in Nat
  BY <1>2, Typed, PairingAssumption DEF TypesInv
<1>4. /\ clock >= sent[x].stamp - ClockSkew
      /\ member[sent[x].to][sent[x].from].in = sent[x].key
      /\ member[sent[x].to][sent[x].from].state = "active"
  BY <1>1, <1>3 DEF Verifies
<1>5. PICK k : k = CHOOSE j \in FreeAuths : TRUE
  OBVIOUS
<1>6. k \in 1 .. MaxCopies
  BY <1>5 DEF Authenticate, FreeAuths
<1>7. PICK d : d = [msg |-> x, pc |-> "purge", at |-> clock, orphan |-> FALSE, slot |-> k]
  OBVIOUS
<1>8. d \in AuthRow /\ d.msg = x /\ d.at = clock
  BY <1>3, <1>6, <1>7 DEF AuthRow
<1>9. auths' = auths \cup {d}
  BY <1>5, <1>7 DEF Authenticate
<1>10. TypesInv'
  BY <1>1, <1>2, <1>8, <1>9 DEF TypesInv, pairingVars, setting
<1>11. AuthsInv'
  BY <1>1, <1>2, <1>3, <1>4, <1>8, <1>9 DEF SentInv, AuthsInv
<1>12. Settled(x) \/ Raced(Of(sent[x].key))
  <2>1. PICK s, r : s = sent[x].key /\ r = Of(s)
    OBVIOUS
  <2>2. r # 0 /\ InSound(sent[x].to, sent[x].from, s)
    BY <1>2, <1>3, <1>4, <2>1 DEF KeysInv
  <2>3. s = JoinerSecret(r) \/ \E l \in Nat \ {0} : s = Credential(r, l)
    BY <1>2, <2>1, <2>2 DEF SentInv, SentSound
  <2>4. r \in Nat
    BY <1>3, <2>1, SecretsDiffer
  <2>5. s # Placeholder(r)
    BY <2>3, <2>4, PairingAssumption, SecretsDiffer
  <2>6. (\E l \in Nat \ {0} : s = Credential(r, l)) => s # JoinerSecret(r)
    BY <2>4, PairingAssumption, SecretsDiffer
  <2>7. /\ requests[r].state = "used"
        /\ s = JoinerSecret(r) => Raced(r) \/ ~Delivering(r)
    BY <2>1, <2>2, <2>5, <2>6 DEF InSound, HostOut, JoinerOut
  <2> QED
    BY <2>1, <2>2, <2>7 DEF Settled
<1>13. ASSUME NEW y \in DOMAIN sent
       PROVE  /\ AtWork(y)' => AtWork(y) \/ Settled(y) \/ Raced(Of(sent[y].key))
              /\ Orphaned(y) => Orphaned(y)' \/ member[sent[y].to][sent[y].from].in = sent[y].key
              /\ Remembered(y) => Remembered(y)' \/ clock >= sent[y].stamp + ClockSkew
              /\ accepted'[y] = accepted[y] \/ LetIn(y)
  <2>1. Remembered(y)' = Remembered(y)
    BY <1>1 DEF Remembered
  <2>2. CASE y = x
    BY <1>1, <1>4, <1>12, <2>1, <2>2
  <2>3. CASE y # x
    <3>1. AtWork(y)' = AtWork(y) /\ Orphaned(y)' = Orphaned(y)
      BY <1>8, <1>9, <2>3 DEF AtWork, Orphaned
    <3> QED
      BY <1>1, <2>1, <3>1
  <2> QED
    BY <2>2, <2>3
<1> QED
  BY <1>1, <1>10, <1>11, <1>13, AuthStep

(* Old nonces are deleted, or the deletion fails. *)
LEMMA PurgeNoncesKeeps ==
    ASSUME PairingInv, NEW a \in auths, PurgeNonces(a)
    PROVE  PairingInv'
<1>1. UNCHANGED <<pairingVars, clock, sent, sends, accepted, outlived>>
  BY DEF PurgeNonces
<1>2. TypesInv /\ SentInv
  BY DEF PairingInv
<1>3. /\ a \in AuthRow /\ a.msg \in DOMAIN sent /\ a.at \in Nat /\ clock \in Nat /\ ClockSkew \in Nat
      /\ a.at >= sent[a.msg].stamp - ClockSkew /\ a.at <= clock /\ sent[a.msg].stamp \in Int
  BY <1>2, Typed, PairingAssumption DEF TypesInv, SentInv, AuthsInv, AuthRow
<1>4. PICK b : b = [a EXCEPT !.pc = "insert", !.at = clock]
  OBVIOUS
<1>5. b \in AuthRow /\ b.msg = a.msg /\ b.at = clock /\ b.orphan = a.orphan
  BY <1>3, <1>4 DEF AuthRow
<1>6. auths' = (auths \ {a}) \cup {b}
  BY <1>4 DEF PurgeNonces
<1>7. nonces' \subseteq nonces /\ \A z \in nonces : z \in nonces' \/ z.seen <= clock - 2 * ClockSkew
  <2>1. CASE UNCHANGED nonces
    BY <2>1
  <2>2. ASSUME NEW t \in a.at .. clock,
               NEW ties \in SUBSET {z \in {w \in nonces : w.at = sent[a.msg].to} : Tied(z, t)},
               nonces' = nonces \ ({z \in {w \in nonces : w.at = sent[a.msg].to} : Purgeable(z, t)} \cup ties)
        PROVE  nonces' \subseteq nonces /\ \A z \in nonces : z \in nonces' \/ z.seen <= clock - 2 * ClockSkew
    <3>1. ASSUME NEW z \in nonces, z \notin nonces' PROVE z.seen <= clock - 2 * ClockSkew
      <4>1. z.seen \in Int
        BY <1>2 DEF TypesInv, NonceRow
      <4>2. z.seen < t - 2 * ClockSkew \/ z.seen = t - 2 * ClockSkew
        BY <2>2, <3>1 DEF Purgeable, Tied
      <4> QED
        BY <1>3, <4>1, <4>2
    <3> QED
      BY <2>2, <3>1
  <2> QED
    BY <2>1, <2>2 DEF PurgeNonces
<1>8. TypesInv'
  BY <1>1, <1>2, <1>5, <1>6, <1>7 DEF TypesInv, pairingVars, setting
<1>9. AuthsInv'
  BY <1>1, <1>2, <1>3, <1>5, <1>6 DEF SentInv, AuthsInv
<1>10. ASSUME NEW y \in DOMAIN sent
       PROVE  /\ AtWork(y)' => AtWork(y) \/ Settled(y) \/ Raced(Of(sent[y].key))
              /\ Orphaned(y) => Orphaned(y)' \/ member[sent[y].to][sent[y].from].in = sent[y].key
              /\ Remembered(y) => Remembered(y)' \/ clock >= sent[y].stamp + ClockSkew
              /\ accepted'[y] = accepted[y] \/ LetIn(y)
  <2>1. AtWork(y)' => AtWork(y)
    BY <1>5, <1>6 DEF AtWork
  <2>2. Orphaned(y) => Orphaned(y)'
    BY <1>5, <1>6 DEF Orphaned
  <2>3. ASSUME NEW z \in nonces, z.at = sent[y].to, z.from = sent[y].from, z.nonce = y,
               z.seen >= sent[y].stamp - ClockSkew
        PROVE  Remembered(y)' \/ clock >= sent[y].stamp + ClockSkew
    <3>1. z.seen \in Int /\ sent[y].stamp \in Int
      BY <1>2, Typed DEF TypesInv, NonceRow
    <3>2. CASE z \in nonces'
      BY <1>1, <2>3, <3>2 DEF Remembered
    <3>3. CASE z.seen <= clock - 2 * ClockSkew
      BY <1>3, <2>3, <3>1, <3>3
    <3> QED
      BY <1>7, <3>2, <3>3
  <2>4. Remembered(y) => Remembered(y)' \/ clock >= sent[y].stamp + ClockSkew
    BY <2>3 DEF Remembered
  <2> QED
    BY <1>1, <2>1, <2>2, <2>4
<1> QED
  BY <1>1, <1>8, <1>9, <1>10, AuthStep

(* The nonce is inserted, unless it is there or the member has gone. *)
LEMMA InsertNonceKeeps ==
    ASSUME PairingInv, NEW a \in auths, InsertNonce(a)
    PROVE  PairingInv'
<1>1. UNCHANGED <<pairingVars, clock, sent, sends>> /\ auths' = auths \ {a}
  BY DEF InsertNonce
<1>2. TypesInv /\ SentInv
  BY DEF PairingInv
<1>3. PICK x : x = a.msg
  OBVIOUS
<1>4. /\ x \in DOMAIN sent /\ x \in Nat /\ a.at \in Nat /\ clock \in Nat /\ ClockSkew \in Nat
      /\ a.at >= sent[x].stamp - ClockSkew /\ sent[x].stamp \in Int
      /\ sent[x].to \in Nodes /\ sent[x].from \in Nodes
  BY <1>2, <1>3, Typed, PairingAssumption DEF TypesInv, SentInv, AuthsInv, AuthRow
<1>5. AuthsInv'
  BY <1>1, <1>2 DEF SentInv, AuthsInv
<1>6. ASSUME NEW y \in DOMAIN sent
      PROVE  /\ AtWork(y)' => AtWork(y) \/ Settled(y) \/ Raced(Of(sent[y].key))
             /\ Orphaned(y) => Orphaned(y)' \/ member[sent[y].to][sent[y].from].in = sent[y].key
  BY <1>1 DEF AtWork, Orphaned
<1>7. CASE UNCHANGED <<nonces, accepted, outlived>>
  <2>1. TypesInv'
    BY <1>1, <1>2, <1>7 DEF TypesInv, pairingVars, setting
  <2>2. \A y \in DOMAIN sent : Remembered(y)' = Remembered(y)
    BY <1>1, <1>7 DEF Remembered
  <2> QED
    BY <1>1, <1>5, <1>6, <1>7, <2>1, <2>2, AuthStep
<1>8. ASSUME NEW t \in a.at .. clock, NEW mine,
             mine = [at |-> sent[x].to, from |-> sent[x].from, nonce |-> x, seen |-> t],
             nonces' = nonces \cup {mine},
             ~ \E y \in nonces : y.at = sent[x].to /\ y.from = sent[x].from /\ y.nonce = x,
             accepted' = [accepted EXCEPT ![x] = @ + 1],
             outlived' = IF a.orphan \/ clock >= sent[x].stamp + ClockSkew THEN outlived \cup {x} ELSE outlived
      PROVE  PairingInv'
  <2>1. /\ mine \in NonceRow /\ mine.at = sent[x].to /\ mine.from = sent[x].from /\ mine.nonce = x
        /\ mine.seen >= sent[x].stamp - ClockSkew
    BY <1>4, <1>8 DEF NonceRow
  <2>2. /\ accepted \in Seq(Nat) /\ Len(accepted) = Len(sent) /\ DOMAIN accepted = DOMAIN sent
        /\ accepted[x] \in Nat
    BY <1>2, <1>4 DEF TypesInv
  <2>3. PICK v \in Nat : v = accepted[x] + 1
    BY <2>2
  <2>4. accepted' = [accepted EXCEPT ![x] = v]
    BY <1>8, <2>3
  <2>5. /\ accepted' \in Seq(Nat) /\ Len(accepted') = Len(sent) /\ accepted'[x] = v
        /\ \A y \in DOMAIN sent : y # x => accepted'[y] = accepted[y]
    BY <1>4, <2>2, <2>4, ReplaceAt
  <2>6. outlived \subseteq outlived' /\ outlived' \subseteq DOMAIN sent
    BY <1>2, <1>4, <1>8 DEF TypesInv
  <2>7. TypesInv'
    BY <1>1, <1>2, <1>8, <2>1, <2>5, <2>6 DEF TypesInv, pairingVars, setting
  <2>8. \A y \in DOMAIN sent : Remembered(y) => Remembered(y)'
    BY <1>1, <1>8 DEF Remembered
  <2>9. Remembered(x)'
    BY <1>1, <1>8, <2>1 DEF Remembered
  <2>10. AtWork(x)
    BY <1>3 DEF AtWork
  <2>11. ~Raced(Of(sent[x].key)) /\ accepted[x] > 0 => x \in outlived'
    <3> SUFFICES ASSUME ~Raced(Of(sent[x].key)), accepted[x] > 0 PROVE x \in outlived'
      OBVIOUS
    <3>1. ~Remembered(x)
      BY <1>8 DEF Remembered
    <3>2. Unusable(x)
      BY <1>2, <1>4, <3>1 DEF SentInv, OnceSound
    <3>3. clock >= sent[x].stamp + ClockSkew \/ x \in outlived \/ a.orphan
      BY <1>3, <3>2 DEF Unusable, Orphaned
    <3> QED
      BY <1>8, <3>3
  <2>12. LetIn(x)
    <3>1. accepted[x] > 0 \/ accepted'[x] = 1
      BY <2>2, <2>3, <2>5
    <3> QED
      BY <2>9, <2>10, <2>11, <3>1 DEF LetIn
  <2>13. \A y \in DOMAIN sent : accepted'[y] = accepted[y] \/ LetIn(y)
    BY <2>5, <2>12
  <2> QED
    BY <1>1, <1>5, <1>6, <2>6, <2>7, <2>8, <2>13, AuthStep
<1> QED
  BY <1>3, <1>7, <1>8 DEF InsertNonce

(* An authentication ends. *)
LEMMA DropKeeps ==
    ASSUME PairingInv, NEW a \in auths, Drop(a)
    PROVE  PairingInv'
<1>1. UNCHANGED <<pairingVars, clock, sent, sends, nonces, accepted, outlived>> /\ auths' = auths \ {a}
  BY DEF Drop
<1>2. TypesInv /\ SentInv
  BY DEF PairingInv
<1>3. TypesInv' /\ AuthsInv'
  BY <1>1, <1>2 DEF TypesInv, pairingVars, setting, SentInv, AuthsInv
<1>4. \A y \in DOMAIN sent : /\ AtWork(y)' => AtWork(y)
                             /\ Orphaned(y) => Orphaned(y)'
                             /\ Remembered(y)' = Remembered(y)
  BY <1>1 DEF AtWork, Orphaned, Remembered
<1> QED
  BY <1>1, <1>3, <1>4, AuthStep

-----------------------------------------------------------------------------
(* Nodes begin as strangers, or as a pair whose secrets agree. *)
LEMMA InitStrangers ==
    ASSUME Init, ~paired
    PROVE  PairingInv
<1>1. /\ member = [n \in Nodes |-> [m \in Nodes |-> NoMember]] /\ invites = <<>> /\ requests = <<>>
      /\ calls = {} /\ sent = <<>> /\ accepted = <<>> /\ nonces = {} /\ clock = 0 /\ auths = {} /\ outlived = {}
      /\ provider \in {"sqlite", "postgres"} /\ paired \in BOOLEAN /\ events \in Nat /\ sends \in Nat
  BY PairingAssumption DEF Init
<1>2. /\ NoMember \in MemberRow /\ NoMember.state = "none"
      /\ NoMember.out = NoSecret /\ NoMember.in = NoSecret /\ Of(NoSecret) = 0
  BY SecretsDiffer DEF NoMember, MemberRow, States
<1>3. TypesInv
  BY <1>1, <1>2, PairingAssumption DEF TypesInv
<1>4. DOMAIN requests = {} /\ DOMAIN sent = {} /\ DOMAIN accepted = {}
  BY <1>1
<1>5. SlotsInv /\ CallsInv
  BY <1>1 DEF SlotsInv, CallsInv
<1>6. RequestsInv /\ InvitationAdmitsOne /\ OneCredential /\ SentInv /\ DeliveredOnce
  BY <1>1, <1>4 DEF RequestsInv, InvitationAdmitsOne, OneCredential, SentInv, AuthsInv, DeliveredOnce
<1>7. KeysInv
  BY <1>1, <1>2 DEF KeysInv, OutSound, InSound
<1> QED
  BY <1>3, <1>5, <1>6, <1>7 DEF PairingInv

(* Two nodes that have paired. *)
LEMMA InitPaired ==
    ASSUME Init, paired
    PROVE  PairingInv
<1>1. /\ calls = {} /\ sent = <<>> /\ accepted = <<>> /\ nonces = {} /\ clock = 0 /\ auths = {} /\ outlived = {}
      /\ provider \in {"sqlite", "postgres"} /\ paired \in BOOLEAN /\ events \in Nat /\ sends \in Nat
  BY PairingAssumption DEF Init
<1>2. PICK h \in Nodes, j \in Nodes : h # j /\ Paired(h, j)
  BY DEF Init
<1>3. PICK rh, rj : rh = Active(JoinerSecret(1), Credential(1, 1)) /\ rj = Active(Credential(1, 1), JoinerSecret(1))
  OBVIOUS
<1>4. /\ JoinerSecret(1) \in Secret /\ Credential(1, 1) \in Secret
      /\ Of(JoinerSecret(1)) = 1 /\ Of(Credential(1, 1)) = 1 /\ JoinerSecret(1) # Credential(1, 1)
  BY SecretsDiffer
<1>5. /\ rh \in MemberRow /\ rh.state = "active" /\ rh.out = JoinerSecret(1) /\ rh.in = Credential(1, 1)
      /\ rj \in MemberRow /\ rj.state = "active" /\ rj.out = Credential(1, 1) /\ rj.in = JoinerSecret(1)
  BY <1>3, <1>4 DEF Active, MemberRow, States
<1>6. /\ NoMember \in MemberRow /\ NoMember.state = "none"
      /\ NoMember.out = NoSecret /\ NoMember.in = NoSecret /\ Of(NoSecret) = 0
  BY SecretsDiffer DEF NoMember, MemberRow, States
<1>7. member = [n \in Nodes |-> [m \in Nodes |->
                   CASE n = h /\ m = j -> rh [] n = j /\ m = h -> rj [] OTHER -> NoMember]]
  BY <1>2, <1>3 DEF Paired
<1>8. /\ member[h][j] = rh /\ member[j][h] = rj
      /\ \A n, m \in Nodes : ~(n = h /\ m = j) /\ ~(n = j /\ m = h) => member[n][m] = NoMember
  BY <1>2, <1>7
<1>9. member \in [Nodes -> [Nodes -> MemberRow]]
  BY <1>5, <1>6, <1>7
<1>10. PICK inv, req : /\ inv = [host |-> h, state |-> "used", expired |-> FALSE]
                       /\ req = [host |-> h, node |-> j, invite |-> 1, state |-> "used", expired |-> FALSE,
                                 out |-> "approved"]
  OBVIOUS
<1>11. /\ inv \in InviteRow /\ inv.state = "used"
       /\ req \in RequestRow /\ req.host = h /\ req.node = j /\ req.invite = 1 /\ req.state = "used"
       /\ req.out = "approved"
  BY <1>10 DEF InviteRow, RequestRow, Decisions
<1>12. invites = <<inv>> /\ requests = <<req>>
  BY <1>2, <1>10 DEF Paired
<1>13. /\ DOMAIN invites = {1} /\ invites[1] = inv /\ DOMAIN requests = {1} /\ requests[1] = req
       /\ invites \in Seq(InviteRow) /\ requests \in Seq(RequestRow)
  BY <1>11, <1>12
<1>14. TypesInv
  BY <1>1, <1>9, <1>13 DEF TypesInv
<1>15. SlotsInv /\ CallsInv /\ \A r : ~Delivering(r)
  BY <1>1 DEF SlotsInv, CallsInv, Delivering
<1>16. RequestsInv /\ InvitationAdmitsOne
  BY <1>2, <1>11, <1>13 DEF RequestsInv, InvitationAdmitsOne
<1>17. SentInv /\ DeliveredOnce
  BY <1>1 DEF SentInv, AuthsInv, DeliveredOnce
<1>18. OutSound(h, j, JoinerSecret(1)) /\ InSound(h, j, Credential(1, 1))
  BY <1>4, <1>11, <1>13 DEF OutSound, InSound, HostOut, JoinerOut, From
<1>19. OutSound(j, h, Credential(1, 1)) /\ InSound(j, h, JoinerSecret(1))
  BY <1>4, <1>11, <1>13, <1>15 DEF OutSound, InSound, HostOut, JoinerOut, From
<1>20. KeysInv
  <2> SUFFICES ASSUME NEW n \in Nodes, NEW m \in Nodes
      PROVE  /\ OutSound(n, m, member[n][m].out)
             /\ InSound(n, m, member[n][m].in)
             /\ member[n][m].state # "none" => Of(member[n][m].in) # 0
             /\ n = m \/ member[n][m].state = "none" => member[n][m] = NoMember
    BY DEF KeysInv
  <2>1. CASE n = h /\ m = j
    BY <1>2, <1>4, <1>5, <1>8, <1>18, <2>1
  <2>2. CASE n = j /\ m = h
    BY <1>2, <1>4, <1>5, <1>8, <1>19, <2>2
  <2>3. CASE ~(n = h /\ m = j) /\ ~(n = j /\ m = h)
    BY <1>6, <1>8, <2>3 DEF OutSound, InSound
  <2> QED
    BY <2>1, <2>2, <2>3
<1>21. OneCredential
  <2> SUFFICES ASSUME NEW k \in Nat \ {0}, InUse(1, k) PROVE k = 1
    BY <1>13 DEF OneCredential
  <2>1. PICK n \in Nodes, m \in Nodes : Credential(1, k) \in {member[n][m].out, member[n][m].in}
    BY <1>1 DEF InUse
  <2>2. Of(Credential(1, k)) = 1 /\ JoinerSecret(1) # Credential(1, k)
    BY SecretsDiffer
  <2>3. Credential(1, k) = Credential(1, 1)
    BY <1>5, <1>6, <1>8, <2>1, <2>2
  <2> QED
    BY <2>3, SecretsDiffer
<1> QED
  BY <1>14, <1>15, <1>16, <1>17, <1>20, <1>21 DEF PairingInv

-----------------------------------------------------------------------------
(* Every step keeps the invariant. *)
LEMMA NextKeeps ==
    ASSUME PairingInv, [Next]_vars
    PROVE  PairingInv'
<1>0. ASSUME UNCHANGED vars PROVE PairingInv'
  <2>1. /\ calls' = calls /\ events' \in Nat
        /\ UNCHANGED <<setting, member, invites, requests, raced, straddled, transportVars>>
    BY <1>0 DEF vars, pairingVars, PairingInv, TypesInv
  <2> QED
    BY <2>1, LeaveKeeps
<1>1. ASSUME NEW h \in Nodes, Invite(h) PROVE PairingInv'
  BY <1>1, InviteKeeps
<1>2. ASSUME NEW n \in Nodes, NEW i \in DOMAIN invites, BeginOutbound(n, i) PROVE PairingInv'
  BY <1>2, BeginOutboundKeeps
<1>3. ASSUME NEW r \in DOMAIN requests, Collect(r) PROVE PairingInv'
  BY <1>3, CollectKeeps
<1>4. ASSUME NEW r \in DOMAIN requests, NEW v \in {"approve", "reject"}, Decide(r, v) PROVE PairingInv'
  BY <1>4, DecideKeeps
<1>5. ASSUME NEW c \in calls, Handler(c) PROVE PairingInv'
  BY <1>5, SubmitJoinKeeps, DecideJoinKeeps, PollToldKeeps, PollIssuesKeeps, AcceptRemoteKeeps,
     CollectOutboundKeeps, LoseKeeps DEF Handler
<1>6. ASSUME NEW n \in Nodes, NEW m \in Nodes, Pair(n, m) PROVE PairingInv'
  BY <1>6, PairKeeps, DoKeeps DEF Pair
<1>7. ASSUME NEW x \in DOMAIN sent, Authenticate(x) PROVE PairingInv'
  BY <1>7, AuthenticateKeeps
<1>8. ASSUME NEW a \in auths, PurgeNonces(a) \/ InsertNonce(a) \/ Drop(a) PROVE PairingInv'
  BY <1>8, PurgeNoncesKeeps, InsertNonceKeeps, DropKeeps
<1> QED
  BY <1>0, <1>1, <1>2, <1>3, <1>4, <1>5, <1>6, <1>7, <1>8, ExpireKeeps, TickKeeps DEF Next, Idle

(* PairingInv is inductive. *)
THEOREM PairingInvAlways == Spec => []PairingInv
<1>1. Init => PairingInv
  <2>1. ASSUME Init PROVE PairingInv
    BY <2>1, InitStrangers, InitPaired
  <2> QED
    BY <2>1
<1>2. PairingInv /\ [Next]_vars => PairingInv'
  BY NextKeeps
<1> QED
  BY <1>1, <1>2, PTL DEF Spec

(* Slots bound the handlers at work. *)
LEMMA CallsBounded ==
    ASSUME TypesInv, SlotsInv
    PROVE  Cardinality(calls) <= MaxCalls
<1> DEFINE f == [c \in calls |-> c.slot]
<1>0. MaxCalls \in Nat
  BY PairingAssumption
<1>1. f \in [calls -> 1 .. MaxCalls]
  BY DEF TypesInv, CallRow
<1>2. f \in Injection(calls, 1 .. MaxCalls)
  BY <1>1 DEF SlotsInv, Injection, IsInjective
<1>3. IsFiniteSet(1 .. MaxCalls) /\ Cardinality(1 .. MaxCalls) = MaxCalls
  BY <1>0, FS_Interval
<1> QED
  BY <1>2, <1>3, FS_Injection

(* The module's own type invariant. *)
LEMMA KeysTyped ==
    ASSUME PairingInv
    PROVE  TypeOK
<1> USE DEF PairingInv
<1>1. Cardinality(calls) <= MaxCalls
  BY CallsBounded
<1>2. accepted \in [DOMAIN sent -> Nat]
  BY DEF TypesInv
<1>3. ASSUME NEW n \in Nodes, NEW m \in Nodes
      PROVE  /\ Of(member[n][m].out) <= Len(requests)
             /\ Of(member[n][m].in) <= Len(requests)
             /\ n = m => member[n][m] = NoMember
  BY Typed DEF KeysInv, OutSound, InSound
<1> QED
  BY <1>1, <1>2, <1>3 DEF TypesInv, TypeOK

(* What a joiner is told stays true at the host, and no member is let in by *)
(* a request that was rejected (SubmitJoin, DecideJoin, PollJoin and the    *)
(* joiner's CollectOutbound, in any order and any number of times).         *)
THEOREM DecisionsConsistentAlways == Spec => []DecisionsConsistent
<1>1. PairingInv => DecisionsConsistent
  <2> SUFFICES ASSUME PairingInv PROVE DecisionsConsistent
    OBVIOUS
  <2>1. TypeOK
    BY KeysTyped
  <2>2. AnswersTrue
    BY DEF PairingInv, RequestsInv, AnswersTrue, Lapsed
  <2>3. RejectedStaysOut
    <3> SUFFICES ASSUME NEW n \in Nodes, NEW m \in Nodes, Of(member[n][m].out) # 0,
                        requests[Of(member[n][m].out)].state = "rejected"
        PROVE  Raced(Of(member[n][m].out))
      BY DEF RejectedStaysOut, Raced
    <3>1. OutSound(n, m, member[n][m].out)
      BY DEF PairingInv, KeysInv
    <3> QED
      BY <3>1 DEF OutSound
  <2> QED
    BY <2>1, <2>2, <2>3 DEF DecisionsConsistent
<1> QED
  BY <1>1, PairingInvAlways, PTL

(* An invitation admits one join request, unless submissions raced on       *)
(* PostgreSQL (SubmitJoin).                                                 *)
THEOREM InvitationAdmitsOneAlways == Spec => []InvitationAdmitsOne
<1>1. PairingInv => InvitationAdmitsOne
  BY DEF PairingInv
<1> QED
  BY <1>1, PairingInvAlways, PTL

(* Two nodes whose rows come from one request can talk in both directions   *)
(* (PollJoin, AcceptRemote, Rotate, Remove).                                *)
THEOREM PairsAgreeAlways == Spec => []PairsAgree
<1>1. PairingInv => PairsAgree
  <2> SUFFICES ASSUME PairingInv, NEW n \in Nodes, NEW m \in Nodes, NEW r,
                      r = Of(member[n][m].out), r # 0, ~Raced(r),
                      Of(member[n][m].in) = r, Of(member[m][n].out) = r, Of(member[m][n].in) = r
      PROVE  member[n][m].out = member[m][n].in /\ member[m][n].out = member[n][m].in
    <3>1. ASSUME NEW n \in Nodes, NEW m \in Nodes,
                 {Of(x) : x \in {member[n][m].in, member[m][n].out, member[m][n].in}} = {Of(member[n][m].out)}
          PROVE  /\ Of(member[n][m].in) = Of(member[n][m].out)
                 /\ Of(member[m][n].out) = Of(member[n][m].out)
                 /\ Of(member[m][n].in) = Of(member[n][m].out)
      BY <3>1
    <3> QED
      BY <3>1 DEF PairsAgree, Raced
  <2> USE DEF PairingInv
  <2>1. /\ OutSound(n, m, member[n][m].out) /\ InSound(n, m, member[n][m].in)
        /\ OutSound(m, n, member[m][n].out) /\ InSound(m, n, member[m][n].in)
    BY DEF KeysInv
  <2>2. r \in DOMAIN requests /\ requests[r].host # requests[r].node /\ r \in Nat
    BY <2>1, Typed DEF OutSound, RequestsInv
  <2>3. ASSUME NEW a \in Nodes, NEW b \in Nodes, From(a, b, r),
               OutSound(a, b, member[a][b].out), InSound(a, b, member[a][b].in),
               OutSound(b, a, member[b][a].out), InSound(b, a, member[b][a].in),
               Of(member[a][b].out) = r, Of(member[a][b].in) = r,
               Of(member[b][a].out) = r, Of(member[b][a].in) = r
        PROVE  member[a][b].out = member[b][a].in /\ member[b][a].out = member[a][b].in
    <3>1. ~From(b, a, r)
      BY <2>2, <2>3 DEF From
    <3>2. PICK k \in Nat \ {0} : member[a][b].out = Credential(r, k) /\ requests[r].state = "used"
      BY <2>2, <2>3, <3>1 DEF OutSound, HostOut, JoinerOut
    <3>3. member[a][b].in = JoinerSecret(r)
      BY <2>2, <2>3, <3>1 DEF InSound, HostOut, JoinerOut
    <3>4. member[b][a].out = JoinerSecret(r)
      BY <2>2, <2>3, <3>1 DEF OutSound, HostOut, JoinerOut
    <3>5. PICK l \in Nat \ {0} : member[b][a].in = Credential(r, l)
      BY <2>2, <2>3, <3>1, <3>2 DEF InSound, HostOut, JoinerOut
    <3>6. InUse(r, k) /\ InUse(r, l)
      BY <3>2, <3>5 DEF InUse
    <3>7. k = l
      BY <2>2, <3>6 DEF OneCredential
    <3> QED
      BY <3>2, <3>3, <3>4, <3>5, <3>7
  <2>4. From(n, m, r) \/ From(m, n, r)
    BY <2>1 DEF OutSound, HostOut, JoinerOut
  <2> QED
    BY <2>1, <2>3, <2>4
<1> QED
  BY <1>1, PairingInvAlways, PTL

(* A signed request is let in once, however its copies' verifications,      *)
(* purges and inserts (Authenticate) interleave with each other, with time  *)
(* and with the removal of the member, unless it was inserted as its window *)
(* closed or in a removed member's name, or polls for the answer its secret *)
(* came from raced on PostgreSQL.                                           *)
THEOREM DeliveredOnceAlways == Spec => []DeliveredOnce
<1>1. PairingInv => DeliveredOnce
  BY DEF PairingInv
<1> QED
  BY <1>1, PairingInvAlways, PTL

-----------------------------------------------------------------------------
(* What a revoked member that is active again was given. *)
ComesBackNew ==
    \A n \in Nodes, m \in Nodes :
        member[n][m].state = "revoked" /\ member'[n][m].state = "active"
           => \/ member'[n][m].in # member[n][m].in
              \/ <<"request", Of(member'[n][m].in)>> \in raced'

(* Only an approval and an accepted answer make such a member active.       *)
LEMMA BackByHandler ==
    ASSUME PairingInv, NEW n \in Nodes, NEW m \in Nodes, [Next]_vars,
           member[n][m].state = "revoked", member'[n][m].state = "active"
    PROVE  \E c \in calls : DecideJoin(c) \/ AcceptRemote(c)
<1>1. member' # member
  OBVIOUS
<1>2. ASSUME NEW c \in calls, PollJoin(c) PROVE FALSE
  <2>1. Issue(c)
    BY <1>1, <1>2 DEF PollJoin
  <2>2. c \in CallRow /\ c.id \in DOMAIN requests
    BY <1>2, Typed DEF PairingInv, CallsInv, CallSound, CollectSound, PollJoin
  <2>3. PICK h \in Nodes, j \in Nodes : h = requests[c.id].host /\ j = requests[c.id].node
    BY <2>2, Typed DEF PairingInv
  <2>4. PICK rec : rec = IF member[h][j].state = "none" THEN member[h][j]
                         ELSE [member[h][j] EXCEPT !.in = Credential(c.id, c.slot)]
    OBVIOUS
  <2>5. member[h][j] \in MemberRow /\ Credential(c.id, c.slot) \in Secret
    BY <2>2, Typed, SecretsDiffer, PairingAssumption DEF PairingInv, CallRow
  <2>6. rec \in MemberRow /\ rec.state = member[h][j].state
    BY <2>4, <2>5 DEF MemberRow
  <2>7. member' = [member EXCEPT ![h][j] = rec]
    BY <2>1, <2>3, <2>4 DEF Issue
  <2>8. member'[n][m].state = member[n][m].state
    BY <2>6, <2>7, MemberUpdated DEF PairingInv
  <2> QED
    BY <2>8
<1>3. ASSUME NEW c \in calls, Handler(c) PROVE DecideJoin(c) \/ AcceptRemote(c)
  BY <1>1, <1>2, <1>3 DEF Handler, SubmitJoin, CollectOutbound, Lose
<1>4. ASSUME NEW a \in Nodes, NEW b \in Nodes, Pair(a, b) PROVE FALSE
  <2>1. PICK row \in MemberRow : row = member[a][b]
    BY Typed DEF PairingInv
  <2>2. ASSUME NEW rec \in MemberRow, SetMember(a, b, rec),
               row.state = "revoked" => rec.state # "active" PROVE FALSE
    <3>1. member' = [member EXCEPT ![a][b] = rec]
      BY <2>2 DEF SetMember
    <3> QED
      BY <2>1, <2>2, <3>1, MemberUpdated DEF PairingInv
  <2>3. ~SetEnabled(a, b)
    <3>1. [row EXCEPT !.state = IF @ = "active" THEN "disabled" ELSE "active"] \in MemberRow
      BY DEF MemberRow, States
    <3> QED
      BY <2>1, <2>2, <3>1 DEF SetEnabled
  <2>4. ~Revoke(a, b)
    <3>1. [row EXCEPT !.state = "revoked"] \in MemberRow
      BY DEF MemberRow, States
    <3> QED
      BY <2>1, <2>2, <3>1 DEF Revoke
  <2>5. ~Remove(a, b)
    <3>1. NoMember \in MemberRow /\ NoMember.state = "none"
      BY SecretsDiffer DEF NoMember, MemberRow, States
    <3> QED
      BY <2>2, <3>1 DEF Remove
  <2>6. ~Rotate(a, b)
    <3>1. Rotated(events) \in Secret
      BY SecretsDiffer DEF PairingInv, TypesInv
    <3>2. [row EXCEPT !.out = Rotated(events)] \in MemberRow
      BY <3>1 DEF MemberRow
    <3> QED
      BY <2>1, <2>2, <3>2 DEF Rotate
  <2>7. ~Do(a, b)
    BY <1>1 DEF Do, pairingVars
  <2> QED
    BY <1>4, <2>3, <2>4, <2>5, <2>6, <2>7 DEF Pair
<1>5. ~Expire /\ ~Tick /\ ~Idle /\ ~UNCHANGED vars
  BY <1>1 DEF Expire, Tick, Idle, vars, pairingVars
<1>6. \A h \in Nodes : ~Invite(h)
  BY <1>1 DEF Invite
<1>7. \A a \in Nodes, i \in DOMAIN invites : ~BeginOutbound(a, i)
  BY <1>1 DEF BeginOutbound
<1>8. \A r \in DOMAIN requests : ~Collect(r) /\ \A v \in {"approve", "reject"} : ~Decide(r, v)
  BY <1>1 DEF Collect, Decide
<1>9. \A x \in DOMAIN sent : ~Authenticate(x)
  BY <1>1 DEF Authenticate, pairingVars
<1>10. \A a \in auths : ~PurgeNonces(a) /\ ~InsertNonce(a) /\ ~Drop(a)
  BY <1>1 DEF PurgeNonces, InsertNonce, Drop, pairingVars
<1> QED
  BY <1>3, <1>4, <1>5, <1>6, <1>7, <1>8, <1>9, <1>10 DEF Next

(* A revoked member comes back with a new credential (DecideJoin,           *)
(* AcceptRemote), unless decisions or polls raced on PostgreSQL.            *)
THEOREM RevokedNeedsNewAlways == Spec => RevokedNeedsNew
<1>1. PairingInv /\ [Next]_vars => ComesBackNew
  <2> SUFFICES ASSUME PairingInv, [Next]_vars, NEW n \in Nodes, NEW m \in Nodes,
                      member[n][m].state = "revoked", member'[n][m].state = "active",
                      member'[n][m].in = member[n][m].in
      PROVE  <<"request", Of(member'[n][m].in)>> \in raced'
    BY DEF ComesBackNew
  <2> USE DEF PairingInv
  <2>1. InSound(n, m, member[n][m].in) /\ member[n][m] \in MemberRow
    BY Typed DEF KeysInv
  <2>2. PICK c \in calls : DecideJoin(c) \/ AcceptRemote(c)
    BY BackByHandler
  <2>3. PICK r, k : r = c.id /\ k = c.slot
    OBVIOUS
  <2>4. r \in DOMAIN requests /\ r \in Nat /\ r # 0 /\ c \in CallRow /\ k \in Int
    BY <2>2, <2>3, Typed DEF CallsInv, CallSound, CollectSound, DecideSound, DecideJoin, AcceptRemote
  <2>5. PICK h \in Nodes, j \in Nodes : h = requests[r].host /\ j = requests[r].node
    BY <2>4, Typed
  <2>6. Placeholder(r) \in Secret /\ JoinerSecret(r) \in Secret /\ Credential(r, k) \in Secret
        /\ Of(Placeholder(r)) = r /\ Of(JoinerSecret(r)) = r
        /\ Placeholder(r) = Credential(r, 0) /\ JoinerSecret(r) # Placeholder(r)
    BY <2>4, SecretsDiffer
  <2>7. CASE DecideJoin(c)
    <3>1. Decided(c) /\ c.kind = "approve" /\ Seen(c, requests[r].state) = "pending"
      BY <2>3, <2>7 DEF DecideJoin, Undecided, Decided, Admit
    <3>2. PICK rec : rec = Active(JoinerSecret(r), Placeholder(r))
      OBVIOUS
    <3>3. rec \in MemberRow /\ rec.in = Placeholder(r)
      BY <2>6, <3>2 DEF Active, MemberRow, States
    <3>4. member' = [member EXCEPT ![h][j] = rec]
      BY <2>3, <2>5, <3>1, <3>2 DEF Decided, Admit
    <3>5. n = h /\ m = j /\ member[n][m].in = Placeholder(r)
      BY <3>3, <3>4, MemberUpdated
    <3>6. requests[r].state # "pending" \/ Raced(r)
      BY <2>1, <2>4, <2>6, <3>5, SecretsDiffer DEF InSound, JoinerOut, HostOut
    <3>7. raced' = IF Stale(c, requests[r].state) THEN raced \cup {<<"request", r>>} ELSE raced
      BY <2>3, <3>1 DEF Decided
    <3>8. DecideSound(c)
      BY <3>1 DEF CallsInv, CallSound
    <3>9. <<"request", r>> \in raced'
      BY <2>3, <3>1, <3>6, <3>7, <3>8 DEF Raced, Stale, Seen, TypesInv, DecideSound
    <3> QED
      BY <2>6, <3>5, <3>9
  <2>8. CASE AcceptRemote(c)
    <3>1. PICK rec : rec = Active(Credential(r, k), JoinerSecret(r))
      OBVIOUS
    <3>2. rec \in MemberRow /\ rec.in = JoinerSecret(r)
      BY <2>6, <3>1 DEF Active, MemberRow, States
    <3>3. member' = [member EXCEPT ![j][h] = rec] /\ raced' = raced
      BY <2>3, <2>5, <2>8, <3>1 DEF AcceptRemote
    <3>4. n = j /\ m = h /\ member[n][m].in = JoinerSecret(r)
      BY <3>2, <3>3, MemberUpdated
    <3>5. Delivering(r)
      BY <2>3, <2>8 DEF AcceptRemote, Delivering, Collecting
    <3>6. Raced(r)
      BY <2>1, <2>4, <2>6, <3>4, <3>5, SecretsDiffer DEF InSound, JoinerOut, HostOut
    <3> QED
      BY <2>6, <3>3, <3>4, <3>6 DEF Raced
  <2> QED
    BY <2>2, <2>7, <2>8
<1>2. [][ComesBackNew]_vars => RevokedNeedsNew
  BY PTL DEF RevokedNeedsNew, ComesBackNew
<1> QED
  BY <1>1, <1>2, PairingInvAlways, PTL DEF Spec
=============================================================================

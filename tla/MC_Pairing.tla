----------------------------- MODULE MC_Pairing -----------------------------
(* Two nodes, either of which may invite the other. *)
EXTENDS Pairing, TLC

CONSTANTS n1, n2

Either == Permutations({n1, n2})

(* Stories told apart: strangers that pair, with one event; members whose  *)
(* rows change, with two; and members of which one sends, on SQLite, while *)
(* the other, whose row alone changes, may remove it and pair again.       *)
Steady(n, m) == member[n][m].state = "active" /\ Of(member[n][m].in) = 1 /\ Of(member[n][m].out) = 1
Fresh(rows)  == \A k \in DOMAIN rows : ~ rows[k].expired

Handling == sends = MaxSends /\ clock = 0 /\ (paired \/ events >= MaxEvents - 1)

Opening == paired /\ provider = "sqlite" /\ clock = 0 /\ events = 0 /\ calls = {} /\ Len(invites) = 1

Sending(msg) ==
    LET row == member[msg.to][msg.from] IN
    /\ Cardinality(calls) <= 1 /\ Fresh(invites) /\ Fresh(requests)
    /\ Of(row.out) = 0 => row.state = "none"
    /\ Len(invites) = 1 => calls = {} /\ Steady(msg.from, msg.to)
    /\ Len(invites) > 1 => (row.state = "none" \/ Len(requests) > 1) /\ clock <= ClockSkew

OneStory == IF sent = <<>> THEN Handling \/ Opening ELSE Sending(sent[1])
=============================================================================

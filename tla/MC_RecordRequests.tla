-------------------------- MODULE MC_RecordRequests --------------------------
(* Model-checking instances of RecordRequests. *)
EXTENDS RecordRequests, TLC

CONSTANTS a, b, k, f, g, c1, c2

Vals(m, n) == (f :> m) @@ (g :> n)
Create(puts, key) == [kind |-> "create", puts |-> puts, key |-> key]
Row(rec, vals) == [rec |-> rec, vals |-> vals]
Update(rec, ver, patch) == [kind |-> "update", rec |-> rec, ver |-> ver, patch |-> patch]
Delete(rec, ver) == [kind |-> "delete", rec |-> rec, ver |-> ver]

(* A keyed create and its retry under another id, batches in opposite        *)
(* orders, updates of different fields, and deletes.                         *)
AllRequests ==
    {Create(<<Row(a, Vals(0, 0))>>, k),
     Create(<<Row(b, Vals(0, 0))>>, k),
     Create(<<Row(a, Vals(1, 0)), Row(b, Vals(1, 0))>>, None),
     Create(<<Row(b, Vals(2, 0)), Row(a, Vals(2, 0))>>, None),
     Update(a, 1, f :> 3),
     Update(a, 1, g :> 3),
     Update(a, 2, g :> 4),
     Delete(a, 1)}

Created == {"record.created"}
=============================================================================

---------------------------- MODULE FileLifecycle ----------------------------
(***************************************************************************)
(* What file storage promises about one file, whatever the crashes and     *)
(* storage failures: it is absent until an upload binds it, available      *)
(* until a deletion is recorded, and from then on unavailable until its    *)
(* bytes are erased, which does happen.  FileStore implements it.          *)
(***************************************************************************)
CONSTANT Files

VARIABLE status

Init == status \in [Files -> {"absent", "available", "deleting", "erased"}]

Moves(f, from, to) == status[f] = from /\ status' = [status EXCEPT ![f] = to]

Bind(f)   == Moves(f, "absent", "available")
Delete(f) == Moves(f, "available", "deleting")
Erase(f)  == Moves(f, "deleting", "erased")

Next == \E f \in Files : Bind(f) \/ Delete(f) \/ Erase(f)

(* What never happens, and what does. *)
Safety == Init /\ [][Next]_status

Spec == Safety /\ \A f \in Files : WF_status(Erase(f))
=============================================================================

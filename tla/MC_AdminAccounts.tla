--------------------------- MODULE MC_AdminAccounts ---------------------------
(* Model-checking instance of AdminAccounts: two accounts, two requests. *)
EXTENDS AdminAccounts, TLC

CONSTANTS ada, ben, p1, p2

Symmetric == Permutations({ada, ben}) \cup Permutations({p1, p2})

(* Bounds: two changes of accounts.  Credentials and accounts do not meet, so *)
(* that the one is followed without the other, and sessions run out around   *)
(* the first change.                                                         *)
OneStory ==
    /\ changes <= 2
    /\ changes > 0 => creds = <<>>
    /\ changes > 1 => \A s \in DOMAIN sessions : ~sessions[s].expired
=============================================================================

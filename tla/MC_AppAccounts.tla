---------------------------- MODULE MC_AppAccounts ----------------------------
(* Model-checking instance of AppAccounts: two concurrent requests. *)
EXTENDS AppAccounts, TLC

CONSTANTS ann, bob, p1, p2
=============================================================================

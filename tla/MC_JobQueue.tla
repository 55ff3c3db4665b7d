----------------------------- MODULE MC_JobQueue -----------------------------
(* Model-checking instances of JobQueue: a webhook job, a Lambda job and two *)
(* workers.                                                                  *)
EXTENDS JobQueue, TLC

CONSTANTS hook, lambda, w1, w2
=============================================================================

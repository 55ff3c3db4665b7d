------------------------------- MODULE JobQueue -------------------------------
(***************************************************************************)
(* The durable job queue and its workers (internal/jobs/handler.go): a     *)
(* worker ticks, releases jobs whose lease has run out, claims the oldest  *)
(* available job, executes it outside any transaction and writes the       *)
(* result.  Standalone workers share one database; in a cluster only the   *)
(* leader ticks and every transition is a committed operation              *)
(* (runOneReplicated, and applyJob* in internal/replicated/fsm.go).        *)
(*                                                                         *)
(* Time is abstract: queue lists the jobs whose available_at has passed,   *)
(* by available_at, and a running job's lease is expired or not.           *)
(***************************************************************************)
EXTENDS Integers, FiniteSets, Sequences, SequencesExt

CONSTANTS Jobs,         \* job obligations
          NoJob,        \* the job of a worker that has none
          Workers,      \* processes that run the worker loop
          Incapable,    \* jobs whose kind no worker is configured to execute
          MaxAttempts,  \* max_attempts column
          MaxFaults,    \* bound on crashes, lost proposals and failed readings
          MaxElections, \* bound on changes of the leader
          MaxSlow,      \* bound on executions that outlive their lease
          MaxAdmin      \* bound on cancel and retry requests

ASSUME QueueAssumption ==
    /\ NoJob \notin Jobs
    /\ Incapable \subseteq Jobs
    /\ IsFiniteSet(Workers)
    /\ MaxAttempts \in Nat \ {0}
    /\ MaxFaults \in Nat /\ MaxElections \in Nat /\ MaxSlow \in Nat /\ MaxAdmin \in Nat

Open     == {"pending", "running"}
Terminal == {"succeeded", "dead", "cancelled"}

VARIABLES
    jobs,      \* [status, attempts, expired] of each job, the table
    queue,     \* jobs whose available_at has passed, oldest first
    worker,    \* [pc, job, ok, seen] of each worker
    replicated, \* whether transitions go through the raft log: fixed at start
    leader,    \* the worker whose leader gate is open
    faults, elections, slow, admin,   \* how much of each bound is used
    reopened   \* auxiliary: how often a job was released, or cancelled and retried

vars == <<jobs, queue, worker, replicated, leader, faults, elections, slow, admin, reopened>>

Idle  == [pc |-> "idle", job |-> NoJob, ok |-> FALSE, seen |-> 0]

Init ==
    /\ jobs = [j \in Jobs |-> [status |-> "absent", attempts |-> 0, expired |-> FALSE]]
    /\ queue = <<>>
    /\ worker = [w \in Workers |-> Idle]
    /\ leader \in Workers
    /\ replicated \in BOOLEAN
    /\ faults = 0 /\ elections = 0 /\ slow = 0 /\ admin = 0
    /\ reopened = [j \in Jobs |-> 0]

At(w, pc)  == worker[w].pc = pc
Goto(w, s) == worker' = [worker EXCEPT ![w] = s]
Job(w)     == worker[w].job

(* Where the available pending jobs are: ORDER BY available_at, id. *)
DueAnyStatus == DOMAIN queue

Due == {i \in DOMAIN queue : jobs[queue[i]].status = "pending"}

(* The first of them, as a set, unless it is of a kind this node cannot      *)
(* execute: then no other job is looked at.                                *)
Runnable == {queue[i] : i \in {i \in Due : \A k \in Due : i <= k}} \ Incapable

(* The queue without j, which occurs in it at most once. *)
Drop(j) ==
    LET at == {i \in DOMAIN queue : queue[i] = j}
    IN  IF at = {} THEN queue ELSE RemoveAt(queue, CHOOSE i \in at : TRUE)

-----------------------------------------------------------------------------
(* Enqueue, inside the transaction of the record it belongs to. *)
Enqueue(j) ==
    /\ jobs[j].status = "absent"
    /\ jobs' = [jobs EXCEPT ![j].status = "pending"]
    /\ queue' = Append(queue, j)
    /\ UNCHANGED <<worker, leader, faults, slow, admin, reopened, replicated, elections>>

(* A tick begins by releasing every running job whose lease is over. *)
StaleReversed == {j \in Jobs : jobs[j].status = "running" /\ ~jobs[j].expired}

Stale == {j \in Jobs : jobs[j].status = "running" /\ jobs[j].expired}

Release(w) ==
    /\ At(w, "idle")
    /\ replicated => leader = w
    /\ Goto(w, [Idle EXCEPT !.pc = "scan"])
    /\ jobs' = [j \in Jobs |-> IF j \in Stale
                  THEN [jobs[j] EXCEPT !.status = "pending", !.expired = FALSE]
                  ELSE jobs[j]]
    /\ reopened' = [j \in Jobs |-> reopened[j] + IF j \in Stale THEN 1 ELSE 0]
    /\ UNCHANGED <<queue, leader, faults, slow, admin, replicated, elections>>

(* Nothing is due, or the job at the head is of a kind this node cannot run. *)
NothingToRun(w) ==
    /\ At(w, "scan")
    /\ Runnable = {}
    /\ Goto(w, Idle)
    /\ UNCHANGED <<jobs, queue, leader, faults, slow, admin, reopened, replicated, elections>>

Claimed(j) == [status |-> "running", attempts |-> jobs[j].attempts + 1, expired |-> FALSE]

(* Standalone: the SELECT and the UPDATE are one transaction. *)
ClaimLocal(w) ==
    /\ ~replicated
    /\ At(w, "scan")
    /\ \E j \in Runnable :
         /\ jobs' = [jobs EXCEPT ![j] = Claimed(j)]
         /\ Goto(w, [Idle EXCEPT !.pc = "execute", !.job = j])
    /\ UNCHANGED <<queue, leader, faults, slow, admin, reopened, replicated, elections>>

(* replicated: the SELECT is a local read, the claim an operation that      *)
(* checks status and availability again when it is applied.                *)
Select(w) ==
    /\ replicated
    /\ At(w, "scan")
    /\ \E j \in Runnable : Goto(w, [Idle EXCEPT !.pc = "claim", !.job = j])
    /\ UNCHANGED <<jobs, queue, leader, faults, slow, admin, reopened, replicated, elections>>

ClaimableAnyStatus(j) == j \in ToSet(queue)

Claimable(j) == jobs[j].status = "pending" /\ j \in ToSet(queue)

ClaimReplicated(w) ==
    /\ At(w, "claim")
    /\ \/ /\ Claimable(Job(w))
          /\ jobs' = [jobs EXCEPT ![Job(w)] = Claimed(Job(w))]
          /\ Goto(w, [worker[w] EXCEPT !.pc = "execute"])
       \/ /\ ~Claimable(Job(w))
          /\ Goto(w, Idle)
          /\ UNCHANGED jobs
    /\ UNCHANGED <<queue, leader, faults, slow, admin, reopened, replicated, elections>>

(* The external call returns; its outcome is the environment's choice. *)
Execute(w, ok) ==
    /\ At(w, "execute")
    /\ Goto(w, [worker[w] EXCEPT !.pc = IF ok \/ replicated THEN "write" ELSE "read",
                                 !.ok = ok])
    /\ UNCHANGED <<jobs, queue, leader, faults, slow, admin, reopened, replicated, elections>>

(* finish reads the attempts of a failed job in a statement of its own.    *)
(* An error is ignored: attempts and maximum are then both zero, which     *)
(* reads as used up.                                                       *)
ReadAttempts(w) ==
    /\ At(w, "read")
    /\ \E n \in {jobs[Job(w)].attempts, MaxAttempts} :
          /\ Goto(w, [worker[w] EXCEPT !.pc = "write", !.seen = n])
          /\ \/ n = jobs[Job(w)].attempts /\ UNCHANGED faults
             \/ n = MaxAttempts /\ faults < MaxFaults /\ faults' = faults + 1
    /\ UNCHANGED <<jobs, queue, leader, slow, admin, reopened, replicated, elections>>

(* The result is written by id, whatever the status has become meanwhile. *)
WriteSuccess(w) ==
    /\ At(w, "write")
    /\ worker[w].ok
    /\ jobs' = [jobs EXCEPT ![Job(w)].status = "succeeded", ![Job(w)].expired = FALSE]
    /\ Goto(w, Idle)
    /\ UNCHANGED <<queue, leader, faults, slow, admin, reopened, replicated, elections>>

(* The next status of a job whose execution failed after that many attempts. *)
OutcomeEarly(attempts) == IF attempts + 1 >= MaxAttempts THEN "dead" ELSE "pending"

Outcome(attempts) == IF attempts >= MaxAttempts THEN "dead" ELSE "pending"

WriteFailure(w) ==
    LET attempts == IF replicated THEN jobs[Job(w)].attempts ELSE worker[w].seen
    IN  /\ At(w, "write")
        /\ ~worker[w].ok
        /\ jobs' = [jobs EXCEPT ![Job(w)].status = Outcome(attempts),
                                ![Job(w)].expired = FALSE]
        /\ queue' = Drop(Job(w))          \* available_at moves into the future
        /\ Goto(w, Idle)
        /\ UNCHANGED <<leader, faults, slow, admin, reopened, replicated, elections>>

Step(w) ==
    \/ Release(w)
    \/ NothingToRun(w)
    \/ ClaimLocal(w)
    \/ Select(w)
    \/ ClaimReplicated(w)
    \/ \E ok \in BOOLEAN : Execute(w, ok)
    \/ ReadAttempts(w)
    \/ WriteSuccess(w)
    \/ WriteFailure(w)

-----------------------------------------------------------------------------
(* Time *)

(* The backoff of a failed job is over. *)
Ripen(j) ==
    /\ jobs[j].status = "pending"
    /\ j \notin ToSet(queue)
    /\ queue' = Append(queue, j)
    /\ UNCHANGED <<jobs, worker, leader, faults, slow, admin, reopened, replicated, elections>>

(* A lease ends: no worker holds the job any more, or its execution is slow. *)
Held(j) == \E w \in Workers : Job(w) = j /\ worker[w].pc \in {"execute", "read", "write"}

Expire(j) ==
    /\ jobs[j].status = "running" /\ ~jobs[j].expired
    /\ jobs' = [jobs EXCEPT ![j].expired = TRUE]
    /\ \/ ~Held(j) /\ UNCHANGED slow
       \/ Held(j) /\ slow < MaxSlow /\ slow' = slow + 1
    /\ UNCHANGED <<queue, worker, leader, faults, admin, reopened, replicated, elections>>

-----------------------------------------------------------------------------
(* Failures and administration *)

(* The error of the release is ignored and the tick goes on. *)
ReleaseLost(w) ==
    /\ At(w, "idle")
    /\ replicated => leader = w
    /\ Stale # {}
    /\ faults < MaxFaults
    /\ faults' = faults + 1
    /\ Goto(w, [Idle EXCEPT !.pc = "scan"])
    /\ UNCHANGED <<jobs, queue, leader, slow, admin, reopened, replicated, elections>>

(* A process dies, or a claim or a result is lost: the tick is over. *)
Abandon(w) ==
    /\ ~At(w, "idle")
    /\ faults < MaxFaults
    /\ faults' = faults + 1
    /\ Goto(w, Idle)
    /\ UNCHANGED <<jobs, queue, leader, slow, admin, reopened, replicated, elections>>

Elect(w) ==
    /\ replicated
    /\ leader # w
    /\ elections < MaxElections
    /\ elections' = elections + 1
    /\ leader' = w
    /\ UNCHANGED <<jobs, queue, worker, replicated, faults, slow, admin, reopened>>

CancelJob(j) ==
    /\ admin < MaxAdmin
    /\ admin' = admin + 1
    /\ jobs[j].status \in Open
    /\ jobs' = [jobs EXCEPT ![j].status = "cancelled", ![j].expired = FALSE]
    /\ UNCHANGED <<queue, worker, leader, faults, slow, reopened, replicated, elections>>

RetryJob(j) ==
    /\ admin < MaxAdmin
    /\ admin' = admin + 1
    /\ jobs[j].status \in {"dead", "cancelled"}
    /\ jobs' = [jobs EXCEPT ![j] = [status |-> "pending", attempts |-> 0, expired |-> FALSE]]
    /\ queue' = Append(Drop(j), j)
    /\ reopened' = [reopened EXCEPT ![j] = @ + 1]
    /\ UNCHANGED <<worker, leader, faults, slow, replicated, elections>>

Next ==
    \/ \E j \in Jobs : Enqueue(j) \/ Ripen(j) \/ Expire(j) \/ CancelJob(j) \/ RetryJob(j)
    \/ \E w \in Workers : Step(w) \/ ReleaseLost(w) \/ Abandon(w) \/ Elect(w)

(* The ticker keeps every live worker going and time passes: a backoff ends *)
(* and the lease of a job nobody holds runs out.                           *)
Fairness ==
    /\ \A w \in Workers : WF_vars(Step(w))
    /\ \A j \in Jobs : WF_vars(Ripen(j)) /\ WF_vars(Expire(j))

Spec == Init /\ [][Next]_vars /\ Fairness

-----------------------------------------------------------------------------
(* Correctness *)

Status    == Open \cup Terminal \cup {"absent"}
JobRow    == [status : Status, attempts : Nat, expired : BOOLEAN]
WorkerRow == [pc : {"idle", "scan", "claim", "execute", "read", "write"},
              job : Jobs \cup {NoJob}, ok : BOOLEAN, seen : Nat]

(* Types of the queue. *)
TypeOK ==
    /\ jobs \in [Jobs -> JobRow]
    /\ queue \in Seq(Jobs)
    /\ worker \in [Workers -> WorkerRow]
    /\ leader \in Workers /\ replicated \in BOOLEAN
    /\ faults \in 0..MaxFaults /\ elections \in 0..MaxElections
    /\ slow \in 0..MaxSlow /\ admin \in 0..MaxAdmin
    /\ reopened \in [Jobs -> Nat]

(* Two workers execute one job at the same time only if it was released, or  *)
(* cancelled and retried, in between: a claim excludes (runOneLocal's        *)
(* status='pending', applyJobClaim).                                        *)
ClaimExcludes ==
    \A j \in Jobs :
        Cardinality({w \in Workers : Job(w) = j /\ worker[w].pc \in {"execute", "read", "write"}})
            <= 1 + reopened[j]

(* A job is claimed at most max_attempts times, plus once for every release  *)
(* of a lost lease and every manual retry (finish, applyJobComplete).        *)
AttemptsBounded ==
    \A j \in Jobs : jobs[j].attempts <= MaxAttempts + reopened[j]

(* A job is dead-lettered only once it has used up its attempts: completion  *)
(* reads the attempts and writes the status in one step, so that no retry    *)
(* comes between (applyJobComplete; the standalone finish does not promise   *)
(* it).                                                                     *)
DeadLetterEarned ==
    replicated => \A j \in Jobs :
        jobs[j].status = "dead" => jobs[j].attempts >= MaxAttempts

(* The attempts of a job are honest: none beyond those it may have, and none  *)
(* taken from it (finish, applyJobComplete).                                  *)
AttemptsHonest == TypeOK /\ AttemptsBounded /\ DeadLetterEarned

Settled(j) == jobs[j].status \in Terminal

(* Every obligation of a kind the node can execute is eventually delivered,  *)
(* dead-lettered or cancelled, through crashes, elections and lost leases.   *)
EventuallySettled ==
    \A j \in Jobs \ Incapable : jobs[j].status \in Open ~> Settled(j)
=============================================================================

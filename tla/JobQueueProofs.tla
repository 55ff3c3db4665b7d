---------------------------- MODULE JobQueueProofs ----------------------------
(***************************************************************************)
(* Proofs about JobQueue for every finite set of workers, every set of      *)
(* jobs, every max_attempts and any number of crashes, elections, slow      *)
(* executions and administrative requests, standalone and replicated.       *)
(***************************************************************************)
EXTENDS JobQueue, FiniteSetTheorems, TLAPS

Busy == {"execute", "read", "write"}

(* The workers that have claimed j and have not written its result.         *)
Holders(j) == {w \in Workers : Job(w) = j /\ worker[w].pc \in Busy}

(* Those of them that will make j pending again, on a reading of its        *)
(* attempts that may be out of date (finish, standalone).                   *)
Unaware(j) ==
    {w \in Workers : /\ ~replicated /\ Job(w) = j /\ At(w, "write")
                     /\ ~worker[w].ok /\ worker[w].seen < MaxAttempts}

(* Whether j awaits a claim, as a number: it is pending, or not enqueued yet. *)
Awaiting(j) == IF jobs[j].status \in {"absent", "pending"} THEN 1 ELSE 0

(* A worker past its selection works on a job.                              *)
WorkExists ==
    \A w \in Workers : worker[w].pc \in {"claim"} \cup Busy => Job(w) \in Jobs

(* ClaimExcludes, made inductive: a job that awaits a claim counts as held. *)
ClaimsCounted(j) == Cardinality(Holders(j)) + Awaiting(j) <= 1 + reopened[j]

(* AttemptsBounded, made inductive: once the attempts are used up, what a    *)
(* job may still be claimed for is that it awaits it, or that a worker will  *)
(* make it pending without knowing.                                         *)
AttemptsCounted(j) ==
    jobs[j].attempts >= MaxAttempts =>
        jobs[j].attempts + Awaiting(j) + Cardinality(Unaware(j)) <= MaxAttempts + reopened[j]

QueueInv ==
    /\ TypeOK
    /\ WorkExists
    /\ \A j \in Jobs : ClaimsCounted(j) /\ AttemptsCounted(j)
    /\ DeadLetterEarned

-----------------------------------------------------------------------------
(* Counting workers *)

(* A set of workers is finite and its size a natural number. *)
LEMMA WorkersCount ==
    ASSUME NEW S \in SUBSET Workers
    PROVE  IsFiniteSet(S) /\ Cardinality(S) \in Nat
BY QueueAssumption, FS_Subset, FS_CardinalityType

(* Fewer workers count less. *)
LEMMA CountLe ==
    ASSUME NEW S \in SUBSET Workers, NEW T \in SUBSET S
    PROVE  Cardinality(T) <= Cardinality(S)
BY WorkersCount, FS_Subset

(* One more worker counts at most one more. *)
LEMMA CountAdd ==
    ASSUME NEW S \in SUBSET Workers, NEW w \in Workers, NEW T \in SUBSET (S \cup {w})
    PROVE  Cardinality(T) <= Cardinality(S) + 1
<1>1. S \cup {w} \in SUBSET Workers
  OBVIOUS
<1>2. Cardinality(T) <= Cardinality(S \cup {w})
  BY <1>1, CountLe
<1>3. Cardinality(S \cup {w}) <= Cardinality(S) + 1
  BY WorkersCount, FS_AddElement
<1>4. /\ Cardinality(T) \in Nat
      /\ Cardinality(S) \in Nat
      /\ Cardinality(S \cup {w}) \in Nat
  BY <1>1, WorkersCount
<1> QED
  BY <1>2, <1>3, <1>4

(* A worker that leaves counts one. *)
LEMMA CountRemove ==
    ASSUME NEW S \in SUBSET Workers, NEW w \in S, NEW T \in SUBSET (S \ {w})
    PROVE  Cardinality(T) + 1 <= Cardinality(S)
<1>1. S \ {w} \in SUBSET Workers
  OBVIOUS
<1>2. Cardinality(T) <= Cardinality(S \ {w})
  BY <1>1, CountLe
<1>3. Cardinality(S \ {w}) = Cardinality(S) - 1
  BY WorkersCount, FS_RemoveElement
<1>4. /\ Cardinality(T) \in Nat
      /\ Cardinality(S) \in Nat
      /\ Cardinality(S \ {w}) \in Nat
  BY <1>1, WorkersCount
<1> QED
  BY <1>2, <1>3, <1>4

(* What QueueInv counts are natural numbers. *)
LEMMA CountsTyped ==
    ASSUME TypeOK, NEW j \in Jobs
    PROVE  /\ Holders(j) \in SUBSET Workers
           /\ Unaware(j) \in SUBSET Holders(j)
           /\ Cardinality(Holders(j)) \in Nat
           /\ Cardinality(Unaware(j)) \in Nat
           /\ Awaiting(j) \in {0, 1}
           /\ jobs[j].attempts \in Nat
           /\ reopened[j] \in Nat
           /\ MaxAttempts \in Nat
<1>1. Holders(j) \in SUBSET Workers /\ Unaware(j) \in SUBSET Holders(j)
  BY DEF Holders, Unaware, Busy, At
<1>2. Cardinality(Holders(j)) \in Nat /\ Cardinality(Unaware(j)) \in Nat
  BY <1>1, WorkersCount
<1>3. /\ Awaiting(j) \in {0, 1}
      /\ jobs[j].attempts \in Nat
      /\ reopened[j] \in Nat
      /\ MaxAttempts \in Nat
  BY QueueAssumption DEF TypeOK, Awaiting, JobRow
<1> QED
  BY <1>1, <1>2, <1>3

-----------------------------------------------------------------------------
(* The queue *)

(* A job that a worker may run is one of the pending jobs of the table. *)
LEMMA RunnablePending ==
    ASSUME TypeOK, NEW j \in Runnable
    PROVE  j \in Jobs /\ jobs[j].status = "pending"
BY DEF Runnable, Due, TypeOK

(* Dropping a job leaves a queue of jobs. *)
LEMMA DropTyped ==
    ASSUME TypeOK, NEW j
    PROVE  Drop(j) \in Seq(Jobs)
<1> DEFINE at == {i \in DOMAIN queue : queue[i] = j}
           i == CHOOSE k \in at : TRUE
<1>1. CASE at = {}
  BY <1>1 DEF Drop, TypeOK
<1>2. CASE at # {}
  <2>1. i \in DOMAIN queue
    BY <1>2
  <2>2. queue \in Seq(Jobs) /\ i \in 1..Len(queue)
    BY <2>1 DEF TypeOK
  <2> HIDE DEF i
  <2>3. SubSeq(queue, 1, i - 1) \in Seq(Jobs) /\ SubSeq(queue, i + 1, Len(queue)) \in Seq(Jobs)
    BY <2>2
  <2>4. RemoveAt(queue, i) \in Seq(Jobs)
    BY <2>3 DEF RemoveAt
  <2> QED
    BY <1>2, <2>4 DEF Drop, i
<1> QED
  BY <1>1, <1>2

-----------------------------------------------------------------------------
(* The initial states *)

(* No worker holds a job before one is enqueued. *)
LEMMA InitQueueInv == Init => QueueInv
<1> SUFFICES ASSUME Init PROVE QueueInv
  OBVIOUS
<1> USE QueueAssumption
<1>1. TypeOK
  BY DEF Init, TypeOK, Idle, JobRow, WorkerRow, Status, Open, Terminal
<1>2. WorkExists
  BY DEF Init, WorkExists, Busy, Idle
<1>3. DeadLetterEarned
  BY DEF Init, DeadLetterEarned
<1>4. ASSUME NEW j \in Jobs PROVE ClaimsCounted(j) /\ AttemptsCounted(j)
  <2>1. Holders(j) = {} /\ Awaiting(j) = 1 /\ reopened[j] = 0
    BY DEF Init, Holders, Awaiting, Idle, Busy, Job
  <2>2. ClaimsCounted(j)
    BY <2>1, FS_EmptySet DEF ClaimsCounted
  <2>3. AttemptsCounted(j)
    BY DEF Init, AttemptsCounted
  <2> QED
    BY <2>2, <2>3
<1> QED
  BY <1>1, <1>2, <1>3, <1>4 DEF QueueInv

-----------------------------------------------------------------------------
(* The steps *)

(* A job that a step does not claim, make pending or reread keeps its counts. *)
LEMMA QuietJob ==
    ASSUME TypeOK, TypeOK', NEW j \in Jobs, ClaimsCounted(j), AttemptsCounted(j),
           Holders(j)' \subseteq Holders(j), Unaware(j)' \subseteq Unaware(j),
           jobs'[j].status \in {"absent", "pending"} => jobs[j].status \in {"absent", "pending"},
           jobs'[j].attempts = jobs[j].attempts, reopened'[j] = reopened[j]
    PROVE  ClaimsCounted(j)' /\ AttemptsCounted(j)'
<1>1. Cardinality(Holders(j))' <= Cardinality(Holders(j))
  BY CountsTyped, CountLe
<1>2. Cardinality(Unaware(j))' <= Cardinality(Unaware(j))
  <2>1. Unaware(j) \in SUBSET Workers
    BY DEF Unaware
  <2> QED
    BY <2>1, CountLe
<1>3. Awaiting(j)' <= Awaiting(j)
  BY DEF Awaiting
<1>4. /\ Cardinality(Holders(j)) \in Nat /\ Cardinality(Unaware(j)) \in Nat
      /\ Awaiting(j) \in {0, 1} /\ jobs[j].attempts \in Nat
      /\ reopened[j] \in Nat /\ MaxAttempts \in Nat
  BY CountsTyped
<1>5. /\ Cardinality(Holders(j))' \in Nat /\ Cardinality(Unaware(j))' \in Nat
      /\ Awaiting(j)' \in {0, 1} /\ jobs'[j].attempts \in Nat /\ reopened'[j] \in Nat
  BY <1>4, CountsTyped, WorkersCount DEF Awaiting
<1>6. ClaimsCounted(j)'
  BY <1>1, <1>3, <1>4, <1>5 DEF ClaimsCounted
<1>7. AttemptsCounted(j)'
  BY <1>2, <1>3, <1>4, <1>5 DEF AttemptsCounted
<1> QED
  BY <1>6, <1>7

(* What a step that moves one worker leaves: the others, and a typed table. *)
LEMMA WorkerMoved ==
    ASSUME TypeOK, NEW w \in Workers, NEW s \in WorkerRow, Goto(w, s)
    PROVE  /\ worker' \in [Workers -> WorkerRow]
           /\ worker'[w] = s
           /\ \A v \in Workers \ {w} : worker'[v] = worker[v]
BY DEF TypeOK, Goto

(* The states of a worker that is idle, ... *)
LEMMA IdleRow ==
    /\ Idle \in WorkerRow
    /\ Idle.pc = "idle"
    /\ [Idle EXCEPT !.pc = "scan"] \in WorkerRow
    /\ [Idle EXCEPT !.pc = "scan"].pc = "scan"
BY DEF Idle, WorkerRow

(* ... that has taken up a job, ... *)
LEMMA TakenRow ==
    ASSUME NEW j \in Jobs, NEW p \in {"claim", "execute"}
    PROVE  /\ [Idle EXCEPT !.pc = p, !.job = j] \in WorkerRow
           /\ [Idle EXCEPT !.pc = p, !.job = j].pc = p
           /\ [Idle EXCEPT !.pc = p, !.job = j].job = j
BY DEF Idle, WorkerRow

(* ... that moves on with it, ... *)
LEMMA MovedRow ==
    ASSUME NEW r \in WorkerRow
    PROVE  /\ [r EXCEPT !.pc = "execute"] \in WorkerRow
           /\ [r EXCEPT !.pc = "execute"].pc = "execute"
           /\ [r EXCEPT !.pc = "execute"].job = r.job
BY DEF WorkerRow

(* ... or has read the attempts. *)
LEMMA ReadRow ==
    ASSUME NEW r \in WorkerRow, NEW n \in Nat
    PROVE  /\ [r EXCEPT !.pc = "write", !.seen = n] \in WorkerRow
           /\ [r EXCEPT !.pc = "write", !.seen = n].pc = "write"
           /\ [r EXCEPT !.pc = "write", !.seen = n].job = r.job
           /\ [r EXCEPT !.pc = "write", !.seen = n].seen = n
BY DEF WorkerRow

(* A status written to one job leaves its attempts and the other jobs. *)
LEMMA StatusWritten ==
    ASSUME TypeOK, NEW j \in Jobs, NEW x \in Status,
           jobs' = [jobs EXCEPT ![j].status = x, ![j].expired = FALSE]
    PROVE  /\ jobs' \in [Jobs -> JobRow]
           /\ jobs'[j].status = x
           /\ jobs'[j].attempts = jobs[j].attempts
           /\ \A i \in Jobs \ {j} : jobs'[i] = jobs[i]
BY DEF TypeOK, JobRow

(* A claimed job is running, with one more attempt. *)
LEMMA ClaimWritten ==
    ASSUME TypeOK, NEW j \in Jobs, jobs' = [jobs EXCEPT ![j] = Claimed(j)]
    PROVE  /\ jobs' \in [Jobs -> JobRow]
           /\ jobs'[j].status = "running"
           /\ jobs'[j].attempts = jobs[j].attempts + 1
           /\ \A i \in Jobs \ {j} : jobs'[i] = jobs[i]
BY DEF TypeOK, JobRow, Claimed, Status, Open

(* The parts of the invariant that a step of one worker w, which leaves the   *)
(* table, the queue and reopened alone, can disturb: those about w.          *)
LEMMA WorkerOnly ==
    ASSUME QueueInv, TypeOK', NEW w \in Workers,
           UNCHANGED <<jobs, reopened, replicated>>,
           \A v \in Workers \ {w} : worker'[v] = worker[v],
           worker'[w].pc \in {"claim"} \cup Busy => Job(w)' \in Jobs,
           \A j \in Jobs : w \in Holders(j)' => w \in Holders(j),
           \A j \in Jobs : w \in Unaware(j)' =>
               w \in Unaware(j) \/ jobs[j].attempts < MaxAttempts
    PROVE  QueueInv'
<1>1. WorkExists'
  BY DEF QueueInv, WorkExists, Job
<1>2. DeadLetterEarned'
  BY DEF QueueInv, DeadLetterEarned
<1>3. ASSUME NEW j \in Jobs PROVE ClaimsCounted(j)' /\ AttemptsCounted(j)'
  <2>1. Holders(j)' \subseteq Holders(j)
    BY DEF Holders, Job
  <2>2. CASE jobs[j].attempts >= MaxAttempts
    <3>1. ~(jobs[j].attempts < MaxAttempts)
      BY <2>2, CountsTyped DEF QueueInv
    <3>2. Unaware(j)' \subseteq Unaware(j)
      BY <3>1 DEF Unaware, Job, At
    <3> QED
      BY <2>1, <3>2, QuietJob DEF QueueInv
  <2>3. CASE ~(jobs[j].attempts >= MaxAttempts)
    <3>1. AttemptsCounted(j)'
      BY <2>3 DEF AttemptsCounted
    <3>2. Cardinality(Holders(j))' <= Cardinality(Holders(j))
      BY <2>1, CountsTyped, CountLe DEF QueueInv
    <3>3. Cardinality(Holders(j))' \in Nat
      BY <2>1, CountsTyped, WorkersCount DEF QueueInv
    <3>4. Awaiting(j)' = Awaiting(j) /\ reopened'[j] = reopened[j]
      BY DEF Awaiting
    <3>5. ClaimsCounted(j)'
      BY <3>2, <3>3, <3>4, CountsTyped DEF QueueInv, ClaimsCounted
    <3> QED
      BY <3>1, <3>5
  <2> QED
    BY <2>2, <2>3
<1> QED
  BY <1>1, <1>2, <1>3 DEF QueueInv

(* A tick that finds nothing, a selection, an execution, a reading of the    *)
(* attempts, and the loss of any of them change a worker only.              *)
LEMMA WorkerSteps ==
    ASSUME QueueInv, NEW w \in Workers,
           \/ NothingToRun(w) \/ Select(w) \/ (\E ok \in BOOLEAN : Execute(w, ok))
           \/ ReadAttempts(w) \/ ReleaseLost(w) \/ Abandon(w)
    PROVE  QueueInv'
<1> USE QueueAssumption
<1> TypeOK
  BY DEF QueueInv
<1> worker[w] \in WorkerRow
  BY DEF TypeOK
<1>1. UNCHANGED <<jobs, queue, leader, slow, admin, reopened, replicated, elections>>
  BY DEF NothingToRun, Select, Execute, ReadAttempts, ReleaseLost, Abandon
<1>2. faults' \in 0..MaxFaults
  <2>1. faults' = faults \/ (faults < MaxFaults /\ faults' = faults + 1)
    BY DEF NothingToRun, Select, Execute, ReadAttempts, ReleaseLost, Abandon
  <2> QED
    BY <2>1 DEF TypeOK
<1>3. ASSUME NEW s \in WorkerRow, Goto(w, s) PROVE TypeOK'
  BY <1>1, <1>2, <1>3, WorkerMoved DEF TypeOK
<1>4. ASSUME NEW s \in WorkerRow, Goto(w, s), s.pc \notin {"claim"} \cup Busy PROVE QueueInv'
  <2>1. TypeOK' /\ worker'[w] = s /\ \A v \in Workers \ {w} : worker'[v] = worker[v]
    BY <1>3, <1>4, WorkerMoved
  <2>2. \A j \in Jobs : w \notin Holders(j)' /\ w \notin Unaware(j)'
    BY <1>4, <2>1 DEF Holders, Unaware, At, Busy
  <2> QED
    BY <1>1, <1>4, <2>1, <2>2, WorkerOnly
<1>5. CASE NothingToRun(w) \/ ReleaseLost(w) \/ Abandon(w)
  <2>1. \E s \in WorkerRow : Goto(w, s) /\ s.pc \in {"idle", "scan"}
    BY <1>5, IdleRow DEF NothingToRun, ReleaseLost, Abandon
  <2> QED
    BY <1>4, <2>1 DEF Busy
<1>6. CASE Select(w)
  <2>1. PICK j \in Runnable : Goto(w, [Idle EXCEPT !.pc = "claim", !.job = j])
    BY <1>6 DEF Select
  <2> DEFINE s == [Idle EXCEPT !.pc = "claim", !.job = j]
  <2>2. j \in Jobs /\ jobs[j].status = "pending"
    BY RunnablePending
  <2>3. s \in WorkerRow /\ s.pc = "claim" /\ s.job = j
    BY <2>2, TakenRow
  <2> HIDE DEF s
  <2>4. TypeOK' /\ worker'[w] = s /\ \A v \in Workers \ {w} : worker'[v] = worker[v]
    BY <1>3, <2>1, <2>3, WorkerMoved DEF s
  <2>5. \A i \in Jobs : w \notin Holders(i)' /\ w \notin Unaware(i)'
    BY <2>3, <2>4 DEF Holders, Unaware, At, Busy
  <2>6. Job(w)' = j
    BY <2>3, <2>4 DEF Job
  <2> QED
    BY <1>1, <2>2, <2>4, <2>5, <2>6, WorkerOnly
<1>7. ASSUME NEW ok \in BOOLEAN, Execute(w, ok) PROVE QueueInv'
  <2> DEFINE p == IF ok \/ replicated THEN "write" ELSE "read"
             s == [worker[w] EXCEPT !.pc = p, !.ok = ok]
  <2>1. At(w, "execute") /\ Goto(w, s)
    BY <1>7 DEF Execute
  <2>2. p \in {"read", "write"}
    OBVIOUS
  <2>3. s \in WorkerRow /\ s.pc = p /\ s.job = worker[w].job /\ s.ok = ok
    <3> HIDE DEF p
    <3> QED
      BY <2>2 DEF WorkerRow
  <2> HIDE DEF s
  <2>4. TypeOK' /\ worker'[w] = s /\ \A v \in Workers \ {w} : worker'[v] = worker[v]
    BY <1>3, <2>1, <2>3, WorkerMoved
  <2>5. Job(w)' = Job(w)
    BY <2>3, <2>4 DEF Job
  <2>6. ASSUME NEW i \in Jobs PROVE w \in Holders(i)' => w \in Holders(i)
    BY <2>1, <2>5 DEF Holders, At, Busy
  <2>7. ASSUME NEW i \in Jobs PROVE w \notin Unaware(i)'
    BY <1>1, <2>3, <2>4 DEF Unaware, At, p
  <2>8. Job(w) \in Jobs
    BY <2>1 DEF QueueInv, WorkExists, At, Busy
  <2> QED
    BY <1>1, <2>4, <2>5, <2>6, <2>7, <2>8, WorkerOnly
<1>8. CASE ReadAttempts(w)
  <2>0. At(w, "read")
    BY <1>8 DEF ReadAttempts
  <2>00. PICK n \in {jobs[Job(w)].attempts, MaxAttempts} : Goto(w, [worker[w] EXCEPT !.pc = "write", !.seen = n])
    BY <1>8 DEF ReadAttempts
  <2> DEFINE s == [worker[w] EXCEPT !.pc = "write", !.seen = n]
  <2>1. At(w, "read") /\ Goto(w, s)
    BY <2>0, <2>00
  <2>2. Job(w) \in Jobs
    BY <2>1 DEF QueueInv, WorkExists, At, Busy
  <2>3. n \in Nat
    BY <2>2, CountsTyped
  <2>4. s \in WorkerRow /\ s.pc = "write" /\ s.job = worker[w].job /\ s.seen = n
    BY <2>3, ReadRow
  <2> HIDE DEF s
  <2>5. TypeOK' /\ worker'[w] = s /\ \A v \in Workers \ {w} : worker'[v] = worker[v]
    BY <1>3, <2>1, <2>4, WorkerMoved
  <2>6. Job(w)' = Job(w)
    BY <2>4, <2>5 DEF Job
  <2>7. ASSUME NEW i \in Jobs PROVE w \in Holders(i)' => w \in Holders(i)
    BY <2>1, <2>6 DEF Holders, At, Busy
  <2>8. ASSUME NEW i \in Jobs, w \in Unaware(i)' PROVE jobs[i].attempts < MaxAttempts
    BY <2>3, <2>4, <2>5, <2>6, <2>8 DEF Unaware
  <2> QED
    BY <1>1, <2>2, <2>5, <2>6, <2>7, <2>8, WorkerOnly
<1> QED
  BY <1>5, <1>6, <1>7, <1>8

(* A claim takes a pending job: the pending mark becomes a holder, and the   *)
(* workers still unaware that the attempts are used up were counted as       *)
(* holders when they were not yet.                                          *)
LEMMA ClaimStep ==
    ASSUME QueueInv, TypeOK', NEW w \in Workers, NEW j \in Jobs,
           jobs[j].status = "pending",
           jobs' = [jobs EXCEPT ![j] = Claimed(j)],
           worker'[w].pc = "execute", worker'[w].job = j,
           \A v \in Workers \ {w} : worker'[v] = worker[v],
           UNCHANGED <<reopened, replicated>>
    PROVE  QueueInv'
<1> TypeOK
  BY DEF QueueInv
<1>1. /\ jobs'[j].status = "running"
      /\ jobs'[j].attempts = jobs[j].attempts + 1
      /\ \A i \in Jobs \ {j} : jobs'[i] = jobs[i]
  BY ClaimWritten
<1>2. WorkExists'
  BY <1>1 DEF QueueInv, WorkExists, Job
<1>3. DeadLetterEarned'
  BY <1>1 DEF QueueInv, DeadLetterEarned
<1>4. ASSUME NEW i \in Jobs PROVE Unaware(i)' \subseteq Unaware(i)
  BY DEF Unaware, Job, At
<1>5. ASSUME NEW i \in Jobs \ {j} PROVE ClaimsCounted(i)' /\ AttemptsCounted(i)'
  <2>1. Holders(i)' \subseteq Holders(i)
    BY DEF Holders, Job
  <2> QED
    BY <1>1, <1>4, <2>1, QuietJob DEF QueueInv
<1>6. Holders(j)' \subseteq Holders(j) \cup {w}
  BY DEF Holders, Job
<1>7. Cardinality(Holders(j))' <= Cardinality(Holders(j)) + 1
  BY <1>6, CountsTyped, CountAdd
<1>8. Cardinality(Unaware(j))' <= Cardinality(Unaware(j))
  <2>1. Unaware(j) \in SUBSET Workers
    BY DEF Unaware
  <2> QED
    BY <1>4, <2>1, CountLe
<1>9. Cardinality(Unaware(j)) <= Cardinality(Holders(j))
  BY CountsTyped, CountLe
<1>10. Cardinality(Holders(j))' \in Nat /\ Cardinality(Unaware(j))' \in Nat
  <2>1. Holders(j)' \in SUBSET Workers /\ Unaware(j)' \in SUBSET Workers
    BY DEF Holders, Unaware
  <2> QED
    BY <2>1, WorkersCount
<1>11. Awaiting(j) = 1 /\ Awaiting(j)' = 0 /\ reopened'[j] = reopened[j]
  BY <1>1 DEF Awaiting
<1>12. ClaimsCounted(j) /\ AttemptsCounted(j)
  BY DEF QueueInv
<1>13. ClaimsCounted(j)'
  BY <1>7, <1>10, <1>11, <1>12, CountsTyped DEF ClaimsCounted
<1>14. AttemptsCounted(j)'
  BY <1>1, <1>8, <1>9, <1>10, <1>11, <1>12, CountsTyped DEF ClaimsCounted, AttemptsCounted
<1> QED
  BY <1>2, <1>3, <1>5, <1>13, <1>14 DEF QueueInv

(* Both ways to claim: in one transaction, and by a committed operation.     *)
LEMMA ClaimSteps ==
    ASSUME QueueInv, NEW w \in Workers, ClaimLocal(w) \/ ClaimReplicated(w)
    PROVE  QueueInv'
<1> TypeOK
  BY DEF QueueInv
<1> worker[w] \in WorkerRow
  BY DEF TypeOK
<1>1. UNCHANGED <<queue, leader, faults, slow, admin, reopened, replicated, elections>>
  BY DEF ClaimLocal, ClaimReplicated
<1>2. CASE ClaimLocal(w)
  <2>1. PICK j \in Runnable : /\ jobs' = [jobs EXCEPT ![j] = Claimed(j)]
                             /\ Goto(w, [Idle EXCEPT !.pc = "execute", !.job = j])
    BY <1>2 DEF ClaimLocal
  <2> DEFINE s == [Idle EXCEPT !.pc = "execute", !.job = j]
  <2>2. j \in Jobs /\ jobs[j].status = "pending"
    BY RunnablePending
  <2>3. s \in WorkerRow /\ s.pc = "execute" /\ s.job = j
    BY <2>2, TakenRow
  <2> HIDE DEF s
  <2>4. /\ worker' \in [Workers -> WorkerRow] /\ worker'[w] = s
        /\ \A v \in Workers \ {w} : worker'[v] = worker[v]
    BY <2>1, <2>3, WorkerMoved DEF s
  <2>5. TypeOK'
    BY <1>1, <2>1, <2>2, <2>4, ClaimWritten DEF TypeOK
  <2> QED
    BY <1>1, <2>1, <2>2, <2>3, <2>4, <2>5, ClaimStep
<1>3. CASE ClaimReplicated(w) /\ Claimable(Job(w))
  <2> DEFINE j == Job(w)
             s == [worker[w] EXCEPT !.pc = "execute"]
  <2>1. At(w, "claim") /\ jobs' = [jobs EXCEPT ![j] = Claimed(j)] /\ Goto(w, s)
    BY <1>3 DEF ClaimReplicated
  <2>2. j \in Jobs /\ jobs[j].status = "pending"
    BY <1>3, <2>1 DEF QueueInv, WorkExists, At, Claimable
  <2>3. s \in WorkerRow /\ s.pc = "execute" /\ s.job = j
    BY MovedRow DEF Job
  <2> HIDE DEF s, j
  <2>4. /\ worker' \in [Workers -> WorkerRow] /\ worker'[w] = s
        /\ \A v \in Workers \ {w} : worker'[v] = worker[v]
    BY <2>1, <2>3, WorkerMoved
  <2>5. TypeOK'
    BY <1>1, <2>1, <2>2, <2>4, ClaimWritten DEF TypeOK
  <2> QED
    BY <1>1, <2>1, <2>2, <2>3, <2>4, <2>5, ClaimStep
<1>4. CASE ClaimReplicated(w) /\ ~Claimable(Job(w))
  <2>1. UNCHANGED jobs /\ Goto(w, Idle)
    BY <1>4 DEF ClaimReplicated
  <2>2. /\ worker' \in [Workers -> WorkerRow] /\ worker'[w].pc = "idle"
        /\ \A v \in Workers \ {w} : worker'[v] = worker[v]
    BY <2>1, IdleRow, WorkerMoved
  <2>3. TypeOK'
    BY <1>1, <2>1, <2>2 DEF TypeOK
  <2>4. \A j \in Jobs : w \notin Holders(j)' /\ w \notin Unaware(j)'
    BY <2>2 DEF Holders, Unaware, At, Busy
  <2>5. worker'[w].pc \notin {"claim"} \cup Busy
    BY <2>2 DEF Busy
  <2> QED
    BY <1>1, <2>1, <2>2, <2>3, <2>4, <2>5, WorkerOnly
<1> QED
  BY <1>2, <1>3, <1>4

(* A result frees its worker.  It makes the job pending again only on behalf *)
(* of a worker that was counted, or while attempts are left.                *)
LEMMA WriteSteps ==
    ASSUME QueueInv, NEW w \in Workers, WriteSuccess(w) \/ WriteFailure(w)
    PROVE  QueueInv'
<1>0. At(w, "write")
  BY DEF WriteSuccess, WriteFailure
<1>2. PICK j \in Jobs : Job(w) = j
  BY <1>0 DEF QueueInv, WorkExists, At, Busy
<1> DEFINE attempts == IF replicated THEN jobs[j].attempts ELSE worker[w].seen
           x == IF worker[w].ok THEN "succeeded" ELSE Outcome(attempts)
<1> TypeOK
  BY DEF QueueInv
<1> worker[w] \in WorkerRow
  BY DEF TypeOK
<1>1. /\ UNCHANGED <<leader, faults, slow, admin, reopened, replicated, elections>>
      /\ At(w, "write") /\ Goto(w, Idle)
      /\ queue' = queue \/ queue' = Drop(j)
      /\ jobs' = [jobs EXCEPT ![j].status = x, ![j].expired = FALSE]
  <2>1. CASE WriteSuccess(w)
    BY <1>2, <2>1 DEF WriteSuccess
  <2>2. CASE WriteFailure(w)
    BY <1>2, <2>2 DEF WriteFailure
  <2> QED
    BY <2>1, <2>2
<1>3. x \in {"succeeded", "dead", "pending"} /\ x \in Status
  BY DEF Outcome, Status, Open, Terminal
<1> HIDE DEF x
<1>4. /\ jobs' \in [Jobs -> JobRow]
      /\ jobs'[j].status = x
      /\ jobs'[j].attempts = jobs[j].attempts
      /\ \A i \in Jobs \ {j} : jobs'[i] = jobs[i]
  BY <1>1, <1>2, <1>3, StatusWritten
<1>5. /\ worker' \in [Workers -> WorkerRow] /\ worker'[w].pc = "idle"
      /\ \A v \in Workers \ {w} : worker'[v] = worker[v]
  BY <1>1, IdleRow, WorkerMoved
<1>6. queue' \in Seq(Jobs)
  BY <1>1, DropTyped DEF TypeOK
<1>7. TypeOK'
  BY <1>1, <1>4, <1>5, <1>6 DEF TypeOK
<1>8. WorkExists'
  BY <1>3, <1>4, <1>5 DEF QueueInv, WorkExists, Job, Busy
<1>9. DeadLetterEarned'
  <2>1. SUFFICES ASSUME replicated, x = "dead" PROVE jobs[j].attempts >= MaxAttempts
    BY <1>1, <1>4 DEF QueueInv, DeadLetterEarned
  <2> QED
    BY <2>1 DEF x, Outcome
<1>10. ASSUME NEW i \in Jobs
       PROVE  Holders(i)' \subseteq Holders(i) \ {w} /\ Unaware(i)' \subseteq Unaware(i) \ {w}
  BY <1>1, <1>5 DEF Holders, Unaware, Job, At, Busy
<1>11. ASSUME NEW i \in Jobs \ {j} PROVE ClaimsCounted(i)' /\ AttemptsCounted(i)'
  BY <1>1, <1>4, <1>7, <1>10, QuietJob DEF QueueInv
<1>12. ClaimsCounted(j)' /\ AttemptsCounted(j)'
  <2>1. w \in Holders(j)
    BY <1>1, <1>2 DEF Holders, At, Busy
  <2>2. Cardinality(Holders(j))' + 1 <= Cardinality(Holders(j))
    BY <1>2, <1>10, <2>1, CountsTyped, CountRemove
  <2>3. Unaware(j) \in SUBSET Workers
    BY DEF Unaware
  <2>4. Cardinality(Unaware(j))' <= Cardinality(Unaware(j))
    BY <1>2, <1>10, <2>3, CountLe
  <2>5. w \in Unaware(j) => Cardinality(Unaware(j))' + 1 <= Cardinality(Unaware(j))
    BY <1>2, <1>10, <2>3, CountRemove
  <2>6. Cardinality(Holders(j))' \in Nat /\ Cardinality(Unaware(j))' \in Nat
    <3>1. Holders(j)' \in SUBSET Workers /\ Unaware(j)' \in SUBSET Workers
      BY DEF Holders, Unaware
    <3> QED
      BY <3>1, WorkersCount
  <2>7. /\ Awaiting(j)' \in {0, 1}
        /\ Awaiting(j)' = 1 => w \in Unaware(j) \/ jobs[j].attempts < MaxAttempts
    <3>1. Awaiting(j)' = IF x = "pending" THEN 1 ELSE 0
      BY <1>3, <1>4 DEF Awaiting
    <3>2. x = "pending" => ~worker[w].ok /\ ~(attempts >= MaxAttempts)
      BY DEF x, Outcome
    <3>3. jobs[j].attempts \in Nat /\ worker[w].seen \in Nat /\ MaxAttempts \in Nat
      BY <1>2, CountsTyped DEF WorkerRow
    <3>4. x = "pending" => w \in Unaware(j) \/ jobs[j].attempts < MaxAttempts
      BY <1>1, <1>2, <3>2, <3>3 DEF Unaware
    <3> QED
      BY <3>1, <3>4
  <2>8. ClaimsCounted(j) /\ AttemptsCounted(j) /\ reopened'[j] = reopened[j]
    BY <1>1, <1>2 DEF QueueInv
  <2>9. ClaimsCounted(j)'
    BY <1>2, <2>2, <2>6, <2>7, <2>8, CountsTyped DEF ClaimsCounted
  <2>10. AttemptsCounted(j)'
    BY <1>2, <1>4, <2>4, <2>5, <2>6, <2>7, <2>8, CountsTyped DEF AttemptsCounted
  <2> QED
    BY <2>9, <2>10
<1> QED
  BY <1>7, <1>8, <1>9, <1>11, <1>12 DEF QueueInv

(* A step that leaves the workers alone leaves the holders and the unaware.  *)
LEMMA SameWorkers ==
    ASSUME UNCHANGED <<worker, replicated>>, NEW j
    PROVE  Holders(j)' = Holders(j) /\ Unaware(j)' = Unaware(j)
BY DEF Holders, Unaware, Job, At

(* Enqueueing, a backoff that ends, a lease that ends, a cancellation and an *)
(* election.  Nobody holds a job that was absent.                           *)
LEMMA JobSteps ==
    ASSUME QueueInv, NEW k \in Jobs,
           Enqueue(k) \/ Ripen(k) \/ Expire(k) \/ CancelJob(k)
    PROVE  QueueInv'
<1> USE QueueAssumption
<1> TypeOK
  BY DEF QueueInv
<1>1. UNCHANGED <<worker, leader, faults, reopened, replicated, elections>>
  BY DEF Enqueue, Ripen, Expire, CancelJob
<1>2. queue' \in Seq(Jobs)
  <2>1. queue' = queue \/ queue' = Append(queue, k)
    BY DEF Enqueue, Ripen, Expire, CancelJob
  <2>2. queue \in Seq(Jobs)
    BY DEF TypeOK
  <2> QED
    BY <2>1, <2>2
<1>3. slow' \in 0..MaxSlow /\ admin' \in 0..MaxAdmin
  <2>1. /\ slow' = slow \/ (slow < MaxSlow /\ slow' = slow + 1)
        /\ admin' = admin \/ (admin < MaxAdmin /\ admin' = admin + 1)
    BY DEF Enqueue, Ripen, Expire, CancelJob
  <2> QED
    BY <2>1 DEF TypeOK
<1>4. /\ jobs' \in [Jobs -> JobRow]
      /\ \A i \in Jobs \ {k} : jobs'[i] = jobs[i]
      /\ jobs'[k].attempts = jobs[k].attempts
      /\ jobs'[k].status = "dead" => jobs[k].status = "dead"
      /\ jobs'[k].status \in {"absent", "pending"} => jobs[k].status \in {"absent", "pending"}
  <2>1. CASE Enqueue(k)
    BY <2>1 DEF Enqueue, TypeOK, JobRow, Status, Open
  <2>2. CASE Ripen(k)
    BY <2>2 DEF Ripen, TypeOK
  <2>3. CASE Expire(k)
    <3>1. jobs' = [jobs EXCEPT ![k].expired = TRUE]
      BY <2>3 DEF Expire
    <3> QED
      BY <3>1 DEF TypeOK, JobRow
  <2>4. CASE CancelJob(k)
    <3>1. jobs' = [jobs EXCEPT ![k].status = "cancelled", ![k].expired = FALSE]
      BY <2>4 DEF CancelJob
    <3>2. "cancelled" \in Status
      BY DEF Status, Terminal
    <3> QED
      BY <3>1, <3>2, StatusWritten
  <2> QED
    BY <2>1, <2>2, <2>3, <2>4
<1>5. TypeOK'
  BY <1>1, <1>2, <1>3, <1>4 DEF TypeOK
<1>6. WorkExists'
  BY <1>1, <1>4 DEF QueueInv, WorkExists, Job
<1>7. DeadLetterEarned'
  BY <1>1, <1>4 DEF QueueInv, DeadLetterEarned
<1>8. ASSUME NEW j \in Jobs PROVE ClaimsCounted(j)' /\ AttemptsCounted(j)'
  BY <1>1, <1>4, <1>5, SameWorkers, QuietJob DEF QueueInv
<1> QED
  BY <1>5, <1>6, <1>7, <1>8 DEF QueueInv

(* A manual retry starts the attempts over and is counted.                    *)
LEMMA RetryStep ==
    ASSUME QueueInv, NEW k \in Jobs, RetryJob(k)
    PROVE  QueueInv'
<1> USE QueueAssumption
<1> TypeOK
  BY DEF QueueInv
<1>1. /\ UNCHANGED <<worker, leader, faults, slow, replicated, elections>>
      /\ jobs[k].status \in {"dead", "cancelled"}
      /\ admin < MaxAdmin /\ admin' = admin + 1
  BY DEF RetryJob
<1>2. queue' \in Seq(Jobs)
  <2>1. Drop(k) \in Seq(Jobs) /\ queue' = Append(Drop(k), k)
    BY DropTyped DEF RetryJob
  <2> QED
    BY <2>1
<1>3. /\ jobs' \in [Jobs -> JobRow]
      /\ jobs'[k].attempts = 0 /\ jobs'[k].status = "pending"
      /\ \A i \in Jobs \ {k} : jobs'[i] = jobs[i]
  BY DEF RetryJob, TypeOK, JobRow, Status, Open
<1>4. /\ reopened' \in [Jobs -> Nat]
      /\ reopened'[k] = reopened[k] + 1
      /\ \A i \in Jobs \ {k} : reopened'[i] = reopened[i]
  BY DEF RetryJob, TypeOK
<1>5. TypeOK'
  BY <1>1, <1>2, <1>3, <1>4 DEF TypeOK
<1>6. WorkExists'
  BY <1>1 DEF QueueInv, WorkExists, Job
<1>7. DeadLetterEarned'
  BY <1>1, <1>3 DEF QueueInv, DeadLetterEarned
<1>8. ASSUME NEW j \in Jobs \ {k} PROVE ClaimsCounted(j)' /\ AttemptsCounted(j)'
  BY <1>1, <1>3, <1>4, <1>5, SameWorkers, QuietJob DEF QueueInv
<1>9. ClaimsCounted(k)'
  <2>1. Awaiting(k) = 0 /\ Awaiting(k)' = 1
    BY <1>1, <1>3 DEF Awaiting
  <2>2. Holders(k)' = Holders(k)
    BY <1>1, SameWorkers
  <2> QED
    BY <1>4, <2>1, <2>2, CountsTyped DEF QueueInv, ClaimsCounted
<1>10. AttemptsCounted(k)'
  BY <1>3 DEF AttemptsCounted
<1> QED
  BY <1>5, <1>6, <1>7, <1>8, <1>9, <1>10 DEF QueueInv

(* Releasing lost leases makes the jobs pending again, and is counted.        *)
LEMMA ReleaseStep ==
    ASSUME QueueInv, NEW w \in Workers, Release(w)
    PROVE  QueueInv'
<1> USE QueueAssumption
<1> TypeOK
  BY DEF QueueInv
<1>1. /\ UNCHANGED <<queue, leader, faults, slow, admin, replicated, elections>>
      /\ At(w, "idle") /\ Goto(w, [Idle EXCEPT !.pc = "scan"])
  BY DEF Release
<1>2. /\ worker' \in [Workers -> WorkerRow] /\ worker'[w].pc = "scan"
      /\ \A v \in Workers \ {w} : worker'[v] = worker[v]
  BY <1>1, IdleRow, WorkerMoved
<1>3. ASSUME NEW j \in Jobs
      PROVE  /\ jobs'[j] \in JobRow
             /\ jobs'[j].attempts = jobs[j].attempts
             /\ j \in Stale => /\ jobs[j].status = "running" /\ jobs'[j].status = "pending"
                              /\ reopened'[j] = reopened[j] + 1
             /\ j \notin Stale => jobs'[j] = jobs[j] /\ reopened'[j] = reopened[j]
  <2>1. jobs[j] \in JobRow /\ reopened[j] \in Nat
    BY DEF TypeOK
  <2>2. CASE j \in Stale
    <3>1. /\ jobs'[j] = [jobs[j] EXCEPT !.status = "pending", !.expired = FALSE]
          /\ reopened'[j] = reopened[j] + 1
      BY <2>2 DEF Release
    <3>2. /\ jobs'[j] \in JobRow /\ jobs'[j].attempts = jobs[j].attempts
          /\ jobs'[j].status = "pending"
      BY <2>1, <3>1 DEF JobRow, Status, Open
    <3> QED
      BY <2>2, <3>1, <3>2 DEF Stale
  <2>3. CASE j \notin Stale
    <3>1. jobs'[j] = jobs[j] /\ reopened'[j] = reopened[j] + 0
      BY <2>3 DEF Release
    <3> QED
      BY <2>1, <2>3, <3>1
  <2> QED
    BY <2>2, <2>3
<1>4. jobs' \in [Jobs -> JobRow] /\ reopened' \in [Jobs -> Nat]
  <2>1. /\ jobs' = [j \in Jobs |-> jobs'[j]]
        /\ reopened' = [j \in Jobs |-> reopened'[j]]
    BY DEF Release
  <2>2. \A j \in Jobs : jobs'[j] \in JobRow /\ reopened'[j] \in Nat
    BY <1>3 DEF TypeOK
  <2> QED
    BY <2>1, <2>2
<1>5. TypeOK'
  BY <1>1, <1>2, <1>4 DEF TypeOK
<1>6. WorkExists'
  BY <1>2 DEF QueueInv, WorkExists, Job, Busy
<1>7. DeadLetterEarned'
  BY <1>1, <1>3 DEF QueueInv, DeadLetterEarned
<1>8. ASSUME NEW j \in Jobs PROVE ClaimsCounted(j)' /\ AttemptsCounted(j)'
  <2>1. Holders(j)' = Holders(j) /\ Unaware(j)' = Unaware(j)
    BY <1>1, <1>2 DEF Holders, Unaware, Job, At, Busy
  <2>2. CASE j \notin Stale
    BY <1>3, <1>5, <2>1, <2>2, QuietJob DEF QueueInv
  <2>3. CASE j \in Stale
    <3>1. Awaiting(j) = 0 /\ Awaiting(j)' = 1
      BY <1>3, <2>3 DEF Awaiting
    <3>2. ClaimsCounted(j)'
      BY <1>3, <2>1, <2>3, <3>1, CountsTyped DEF QueueInv, ClaimsCounted
    <3>3. AttemptsCounted(j)'
      BY <1>3, <2>1, <2>3, <3>1, CountsTyped DEF QueueInv, AttemptsCounted
    <3> QED
      BY <3>2, <3>3
  <2> QED
    BY <2>2, <2>3
<1> QED
  BY <1>5, <1>6, <1>7, <1>8 DEF QueueInv

-----------------------------------------------------------------------------
(* The theorems *)

(* Every step keeps the counts. *)
LEMMA NextQueueInv == QueueInv /\ [Next]_vars => QueueInv'
<1> SUFFICES ASSUME QueueInv, [Next]_vars PROVE QueueInv'
  OBVIOUS
<1>1. ASSUME NEW j \in Jobs, Enqueue(j) \/ Ripen(j) \/ Expire(j) \/ CancelJob(j) PROVE QueueInv'
  BY <1>1, JobSteps
<1>2. ASSUME NEW j \in Jobs, RetryJob(j) PROVE QueueInv'
  BY <1>2, RetryStep
<1>3. ASSUME NEW w \in Workers, Step(w) PROVE QueueInv'
  BY <1>3, ReleaseStep, WorkerSteps, ClaimSteps, WriteSteps DEF Step
<1>4. ASSUME NEW w \in Workers, ReleaseLost(w) \/ Abandon(w) PROVE QueueInv'
  BY <1>4, WorkerSteps
<1>5. ASSUME NEW w \in Workers, Elect(w) PROVE QueueInv'
  <2>1. TypeOK'
    BY <1>5, QueueAssumption DEF QueueInv, TypeOK, Elect
  <2> QED
    BY <1>5, <2>1 DEF QueueInv, Elect, WorkExists, DeadLetterEarned, ClaimsCounted,
      AttemptsCounted, Holders, Unaware, Awaiting, Job, At
<1>6. CASE UNCHANGED vars
  BY <1>6 DEF vars, QueueInv, TypeOK, WorkExists, DeadLetterEarned, ClaimsCounted,
    AttemptsCounted, Holders, Unaware, Awaiting, Job, At
<1> QED
  BY <1>1, <1>2, <1>3, <1>4, <1>5, <1>6 DEF Next

(* The counts imply what the runs check. *)
LEMMA QueueInvImplies == QueueInv => ClaimExcludes /\ AttemptsHonest
<1> SUFFICES ASSUME QueueInv PROVE ClaimExcludes /\ AttemptsHonest
  OBVIOUS
<1> TypeOK
  BY DEF QueueInv
<1>1. ASSUME NEW j \in Jobs PROVE Cardinality(Holders(j)) <= 1 + reopened[j]
  BY CountsTyped DEF QueueInv, ClaimsCounted
<1>2. ClaimExcludes
  BY <1>1 DEF ClaimExcludes, Holders, Busy
<1>3. AttemptsBounded
  <2> SUFFICES ASSUME NEW j \in Jobs PROVE jobs[j].attempts <= MaxAttempts + reopened[j]
    BY DEF AttemptsBounded
  <2> QED
    BY CountsTyped DEF QueueInv, AttemptsCounted
<1> QED
  BY <1>2, <1>3 DEF AttemptsHonest, QueueInv

(* However workers crash, leases run out, leaders change and administrators  *)
(* cancel and retry, a claim excludes (runOneLocal, applyJobClaim): two       *)
(* workers execute one job only if it was released, or retried, in between.  *)
THEOREM ClaimExcludesAlways == Spec => []ClaimExcludes
BY InitQueueInv, NextQueueInv, QueueInvImplies, PTL DEF Spec

(* The attempts of a job are honest, standalone and in a cluster (finish,     *)
(* applyJobComplete): none beyond max_attempts but one for every lost lease   *)
(* and every retry, and in a cluster no job is dead before it used them.      *)
THEOREM AttemptsHonestAlways == Spec => []AttemptsHonest
BY InitQueueInv, NextQueueInv, QueueInvImplies, PTL DEF Spec
=============================================================================

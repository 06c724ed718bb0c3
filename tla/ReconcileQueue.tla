---------------------------- MODULE ReconcileQueue ----------------------------
(***************************************************************************)
(* The reconcile job queue: the deployment_reconcile_job table, the        *)
(* transactions of JobService (api/app/services/jobs.py) on it, and the    *)
(* worker processes of api/app/worker.py that claim a job, work on its     *)
(* deployment and report the outcome.                                      *)
(*                                                                         *)
(* A transaction is one action.  What a worker does between its claim and  *)
(* its report is left to the modules that compose this one                 *)
(* (DeploymentLifecycle); here it only takes time, during which the        *)
(* process may be killed and its lease may run out.                        *)
(*                                                                         *)
(* Time is abstracted to the one comparison the code makes with it: a      *)
(* running job carries `leaseOver', true once locked_at is older than      *)
(* reconcile_job_lease_seconds.                                            *)
(***************************************************************************)
EXTENDS Naturals, Sequences

CONSTANTS
  Deployments,   \* the deployments jobs are enqueued for
  Workers,       \* worker process identities, base_worker_id plus pid
  NoWorker,      \* a null locked_by
  MayWedge,      \* may a lease run out under a process that is still alive?
  MaxJobs,       \* bound: rows ever inserted in the job table
  MaxCrashes,    \* bound: worker processes ever killed
  MaxAttempts    \* bound: leases of one job that ever run out

ASSUME QueueAssumption ==
  /\ NoWorker \notin Workers
  /\ MayWedge \in BOOLEAN
  /\ MaxJobs \in Nat
  /\ MaxCrashes \in Nat
  /\ MaxAttempts \in Nat

VARIABLES
  jobs,      \* the job table; a job's id is its position
  holds,     \* holds[w]: the id of the job process w is working on, 0 if none
  up,        \* the worker processes that are alive
  crashes    \* how many processes were killed so far

queueVars == <<jobs, holds, up, crashes>>

OpenStatus == {"queued", "running"}

JobRow == [deployment : Deployments,
           status     : {"queued", "running", "done", "failed"},
           lockedBy   : Workers \union {NoWorker},
           leaseOver  : BOOLEAN,
           attempt    : Nat]

JobId == 1 .. Len(jobs)

\* The type invariant of the queue.
TypeOK ==
  /\ jobs \in Seq(JobRow)
  /\ holds \in [Workers -> Nat]
  /\ \A w \in Workers : holds[w] \in 0 .. Len(jobs)
  /\ up \in SUBSET Workers
  /\ crashes \in Nat

-----------------------------------------------------------------------------
(* The table: what the partial unique index and the claim predicate say.   *)

\* The rows of d that uq_open_reconcile_job_per_deployment indexes.
OpenJobs(d) == {j \in JobId : jobs[j].deployment = d /\ jobs[j].status \in OpenStatus}

HasOpenJob(d) == OpenJobs(d) # {}

\* Mutant of Claimable: a running job can be claimed before its lease is over.
Claimable_LeaseIgnored(j) == jobs[j].status \in OpenStatus

\* Mutant of Claimable: a running job is never taken over.
Claimable_QueuedOnly(j) == jobs[j].status = "queued"

\* JobService._claimable_clause: queued, or running with the lease over.  No
\* caller in the code passes run_after, so a queued job is always due.
Claimable(j) == \/ jobs[j].status = "queued"
                \/ jobs[j].status = "running" /\ jobs[j].leaseOver

ClaimableJobs == {j \in JobId : Claimable(j)}

NewJob(d) == [deployment |-> d, status |-> "queued", lockedBy |-> NoWorker,
              leaseOver |-> FALSE, attempt |-> 0]

\* The table after a job for d is flushed into it.
WithJob(d) == Append(jobs, NewJob(d))

\* Mutant of ClaimedRow: every claim counts an attempt.
ClaimedRow_CountsAll(r, w) ==
  [r EXCEPT !.status = "running", !.lockedBy = w, !.leaseOver = FALSE, !.attempt = @ + 1]

\* Mutant of ClaimedRow: a first claim gives an attempt back that was not made.
ClaimedRow_Refunds(r, w) ==
  [r EXCEPT !.status = "running", !.lockedBy = w, !.leaseOver = FALSE,
            !.attempt = IF r.status = "running" THEN @ + 1 ELSE @ - 1]

\* The row that claim_next_job writes for worker w over row r: the lock is
\* overwritten, and taking over a running row counts one more attempt.
ClaimedRow(r, w) ==
  [r EXCEPT !.status = "running",
            !.lockedBy = w,
            !.leaseOver = FALSE,
            !.attempt = IF r.status = "running" THEN @ + 1 ELSE @]

\* Mutant of Completed: the lock is no part of the UPDATE's predicate.
Completed_AnyWorker(w, j, outcome) ==
  [jobs EXCEPT ![j].status = outcome, ![j].lockedBy = NoWorker, ![j].leaseOver = FALSE]

\* The table after _complete_job, run by worker w for job j: the lock is part
\* of the UPDATE's predicate, so a worker that lost its lease changes no row.
Completed(w, j, outcome) ==
  [i \in JobId |-> IF i = j /\ jobs[i].lockedBy = w
                   THEN [jobs[i] EXCEPT !.status = outcome,
                                        !.lockedBy = NoWorker,
                                        !.leaseOver = FALSE]
                   ELSE jobs[i]]

-----------------------------------------------------------------------------
Init ==
  /\ jobs = << >>
  /\ holds = [w \in Workers |-> 0]
  /\ up = Workers
  /\ crashes = 0

\* Mutant of EnqueueJob: no unique index refuses a second open job.
EnqueueJob_NoIndex(d) ==
  /\ Len(jobs) < MaxJobs
  /\ jobs' = WithJob(d)
  /\ UNCHANGED <<holds, up, crashes>>

\* enqueue_job, in the transaction of an API request.  A second open job for
\* the deployment violates the index: the whole request is rolled back.
EnqueueJob(d) ==
  /\ Len(jobs) < MaxJobs
  /\ ~HasOpenJob(d)
  /\ jobs' = WithJob(d)
  /\ UNCHANGED <<holds, up, crashes>>

\* claim_next_job, called by an idle process of the pool: the claimable row
\* that was enqueued first, run_after being the time of the enqueue.
ClaimNextJob(w) ==
  /\ w \in up
  /\ holds[w] = 0
  /\ \E j \in ClaimableJobs :
       /\ \A i \in ClaimableJobs : j <= i
       /\ jobs' = [jobs EXCEPT ![j] = ClaimedRow(@, w)]
       /\ holds' = [holds EXCEPT ![w] = j]
  /\ UNCHANGED <<up, crashes>>

\* process_one_job's report, mark_job_done or mark_job_failed, under the
\* process's own worker id.  The process turns to the next job either way.
CompleteJob(w, outcome) ==
  /\ w \in up
  /\ holds[w] # 0
  /\ jobs' = Completed(w, holds[w], outcome)
  /\ holds' = [holds EXCEPT ![w] = 0]
  /\ UNCHANGED <<up, crashes>>

\* A process dies with whatever it was doing: pod restart, OOM kill, node
\* eviction, or an exception that escapes _worker_loop, which catches none.
Crash(w) ==
  /\ w \in up
  /\ crashes < MaxCrashes
  /\ up' = up \ {w}
  /\ holds' = [holds EXCEPT ![w] = 0]
  /\ crashes' = crashes + 1
  /\ UNCHANGED jobs

\* A process that was signalled leaves the pool between two jobs.
Shutdown(w) ==
  /\ w \in up
  /\ holds[w] = 0
  /\ up' = up \ {w}
  /\ UNCHANGED <<jobs, holds, crashes>>

\* A restarted pod runs its pool again, under the same worker ids where
\* CAELUS_WORKER_ID names the pod and pids repeat.
Restart(w) ==
  /\ w \notin up
  /\ up' = up \union {w}
  /\ UNCHANGED <<jobs, holds, crashes>>

\* Is the process that locked job j alive and still working on it?
Attended(j) == jobs[j].lockedBy \in up /\ holds[jobs[j].lockedBy] = j

\* The lease of job j runs out.  reconcile_job_lease_seconds is twice the Helm
\* timeout so that this happens only after the holder died; MayWedge lifts
\* that assumption (a paused process, a partition, a rollback that itself
\* takes the whole timeout).
LeaseRunsOut(j) ==
  /\ jobs[j].status = "running"
  /\ ~jobs[j].leaseOver
  /\ jobs[j].attempt < MaxAttempts
  /\ MayWedge \/ ~Attended(j)
  /\ jobs' = [jobs EXCEPT ![j].leaseOver = TRUE]
  /\ UNCHANGED <<holds, up, crashes>>

Next ==
  \/ \E d \in Deployments : EnqueueJob(d)
  \/ \E w \in Workers : \/ ClaimNextJob(w)
                        \/ CompleteJob(w, "done")
                        \/ CompleteJob(w, "failed")
                        \/ Crash(w)
                        \/ Shutdown(w)
                        \/ Restart(w)
  \/ \E j \in JobId : LeaseRunsOut(j)

Spec == Init /\ [][Next]_queueVars

\* A live process polls and finishes what it started; an abandoned lease runs
\* out by the passing of time.  Nothing restarts a dead process: run_worker
\* never replaces one, so Restart gets no fairness.
Fairness ==
  /\ \A w \in Workers : WF_queueVars(ClaimNextJob(w))
  /\ \A w \in Workers : WF_queueVars(CompleteJob(w, "done") \/ CompleteJob(w, "failed"))
  /\ WF_queueVars(\E j \in JobId : LeaseRunsOut(j))

FairSpec == Spec /\ Fairness

-----------------------------------------------------------------------------
(* Properties.                                                             *)

\* Mutual exclusion: two live processes never work on the same deployment at
\* once, whatever the order of enqueues, claims, reports and crashes.  It
\* holds only while no lease runs out under a live holder; the reconciler
\* writes deployment rows on the strength of it without looking at its lease.
OneWorkerPerDeployment ==
  ~MayWedge =>
    \A v, w \in up :
      holds[v] # 0 /\ holds[w] # 0
      /\ jobs[holds[v]].deployment = jobs[holds[w]].deployment => v = w

\* At most one open job per deployment, after any sequence of claims,
\* take-overs and reports (uq_open_reconcile_job_per_deployment).
OneOpenJob ==
  \A i, j \in JobId :
    jobs[i].status \in OpenStatus /\ jobs[j].status \in OpenStatus
    /\ jobs[i].deployment = jobs[j].deployment => i = j

\* Even when leases run out under live processes, at most one process per
\* deployment is working under a lock that is still its own.
OneLeaseHolder ==
  \A v, w \in up :
    holds[v] # 0 /\ holds[w] # 0
    /\ jobs[holds[v]].lockedBy = v /\ jobs[holds[w]].lockedBy = w
    /\ jobs[holds[v]].deployment = jobs[holds[w]].deployment => v = w

\* A stale report is harmless (_complete_job): a job closes only by a report
\* of the process that claimed it last, and a closed job never changes again.
StaleReportsChangeNothing ==
  [][\A j \in JobId :
       /\ jobs[j].status \notin OpenStatus => jobs'[j] = jobs[j]
       /\ jobs[j].status \in OpenStatus /\ jobs'[j].status \notin OpenStatus
            => \E w \in up : jobs[j].lockedBy = w /\ holds[w] = j /\ holds'[w] = 0]_queueVars

\* attempt counts how often a worker died holding the job (defer_job's
\* docstring): never more often than processes died.
AttemptsCountDeaths ==
  ~MayWedge => \A j \in JobId : jobs[j].attempt <= crashes

\* No accepted job is stranded: if from some time on one process stays up,
\* every job that was enqueued ends as done or failed, the jobs whose worker
\* died included (_claimable_clause).
JobsSettle ==
  (\E w \in Workers : <>[](w \in up)) =>
    \A j \in 1 .. MaxJobs :
      (j \in JobId) ~> (j \in JobId /\ jobs[j].status \notin OpenStatus)
=============================================================================

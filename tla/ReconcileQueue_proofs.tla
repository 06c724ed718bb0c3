------------------------ MODULE ReconcileQueue_proofs ------------------------
(***************************************************************************)
(* Proofs about the reconcile queue, for any sets of deployments and       *)
(* worker processes and any bounds.                                        *)
(*                                                                         *)
(* None of the safety properties is inductive alone: that two processes    *)
(* never work on one deployment follows from the unique index only         *)
(* together with who holds which lock, so all are proved from QueueInv.    *)
(***************************************************************************)
EXTENDS ReconcileQueue, SequenceTheorems, TLAPS

\* A row is locked exactly while it is running.
LockedRows ==
  \A j \in JobId : (jobs[j].lockedBy # NoWorker) <=> (jobs[j].status = "running")

\* A dead process works on nothing.
DownHoldsNothing == \A w \in Workers : w \notin up => holds[w] = 0

\* While leases outlive live processes, whoever works on a job has its lock.
HoldersAreLocked ==
  ~MayWedge =>
    \A w \in Workers : holds[w] # 0 =>
      /\ jobs[holds[w]].status = "running"
      /\ jobs[holds[w]].lockedBy = w
      /\ ~jobs[holds[w]].leaseOver

\* Every attempt was paid for by a crash, and so is the attempt that a job
\* abandoned by its worker is going to cost.
DeathsCounted ==
  ~MayWedge =>
    \A j \in JobId :
      /\ jobs[j].attempt <= crashes
      /\ jobs[j].status = "running" /\ ~Attended(j) => jobs[j].attempt + 1 <= crashes

\* The inductive invariant.
QueueInv ==
  /\ TypeOK
  /\ OneOpenJob
  /\ LockedRows
  /\ DownHoldsNothing
  /\ HoldersAreLocked
  /\ DeathsCounted

-----------------------------------------------------------------------------
(* What the steps do to the table.                                         *)

\* An enqueue appends one queued, unlocked row and keeps the others
\* (enqueue_job).
LEMMA EnqueueEffect ==
  ASSUME TypeOK, NEW d \in Deployments, EnqueueJob(d)
  PROVE  /\ jobs' \in Seq(JobRow)
         /\ Len(jobs') = Len(jobs) + 1
         /\ \A i \in JobId : jobs'[i] = jobs[i]
         /\ jobs'[Len(jobs) + 1] = NewJob(d)
  <1>1. NewJob(d) \in JobRow
    BY QueueAssumption DEF NewJob, JobRow
  <1>2. jobs' = Append(jobs, NewJob(d))
    BY DEF EnqueueJob, WithJob
  <1> QED
    BY <1>1, <1>2 DEF TypeOK, JobId

\* The row a claim writes (claim_next_job), field by field.
LEMMA ClaimedRowFields ==
  ASSUME NEW r \in JobRow, NEW w \in Workers
  PROVE  /\ ClaimedRow(r, w) \in JobRow
         /\ ClaimedRow(r, w).deployment = r.deployment
         /\ ClaimedRow(r, w).status = "running"
         /\ ClaimedRow(r, w).lockedBy = w
         /\ ClaimedRow(r, w).leaseOver = FALSE
         /\ ClaimedRow(r, w).attempt = IF r.status = "running" THEN r.attempt + 1 ELSE r.attempt
  <1>1. (IF r.status = "running" THEN r.attempt + 1 ELSE r.attempt) \in Nat
    BY DEF JobRow
  <1> QED
    BY <1>1 DEF ClaimedRow, JobRow

\* A claim writes one row that was claimable: running, locked by the claiming
\* process, with one more attempt if it was taken over (claim_next_job).
LEMMA ClaimEffect ==
  ASSUME TypeOK, NEW w \in Workers, ClaimNextJob(w)
  PROVE  \E j \in JobId :
           /\ Claimable(j)
           /\ jobs' \in Seq(JobRow)
           /\ Len(jobs') = Len(jobs)
           /\ \A i \in JobId : jobs'[i] = IF i = j THEN ClaimedRow(jobs[j], w) ELSE jobs[i]
           /\ holds' = [holds EXCEPT ![w] = j]
  <1>1. PICK j \in ClaimableJobs :
          /\ jobs' = [jobs EXCEPT ![j] = ClaimedRow(@, w)]
          /\ holds' = [holds EXCEPT ![w] = j]
    BY DEF ClaimNextJob
  <1>2. j \in 1 .. Len(jobs) /\ Claimable(j) /\ jobs \in Seq(JobRow)
    BY DEF ClaimableJobs, JobId, TypeOK
  <1>3. jobs[j] \in JobRow
    BY <1>2, ElementOfSeq
  <1>4. ClaimedRow(jobs[j], w) \in JobRow
    BY <1>3, ClaimedRowFields
  <1>5. jobs' = [jobs EXCEPT ![j] = ClaimedRow(jobs[j], w)]
    BY <1>1
  <1>6. /\ jobs' \in Seq(JobRow)
        /\ Len(jobs') = Len(jobs)
        /\ \A i \in JobId : jobs'[i] = IF i = j THEN ClaimedRow(jobs[j], w) ELSE jobs[i]
    <2> DEFINE r == ClaimedRow(jobs[j], w)
    <2>1. r \in JobRow /\ jobs' = [jobs EXCEPT ![j] = r]
      BY <1>4, <1>5
    <2> HIDE DEF r
    <2>2. /\ jobs' \in Seq(JobRow)
          /\ Len(jobs') = Len(jobs)
          /\ \A i \in JobId : jobs'[i] = IF i = j THEN r ELSE jobs[i]
      BY <1>2, <2>1, ExceptSeq DEF JobId
    <2> QED
      BY <2>2 DEF r
  <1> QED
    BY <1>1, <1>2, <1>6 DEF JobId

\* A report writes at most the row the process works on, and only if that
\* row is locked by the process (_complete_job).
LEMMA CompleteEffect ==
  ASSUME TypeOK, NEW w \in Workers, NEW outcome \in {"done", "failed"},
         CompleteJob(w, outcome)
  PROVE  /\ jobs' \in Seq(JobRow)
         /\ Len(jobs') = Len(jobs)
         /\ \A i \in JobId :
              jobs'[i] = IF i = holds[w] /\ jobs[i].lockedBy = w
                         THEN [jobs[i] EXCEPT !.status = outcome, !.lockedBy = NoWorker,
                                              !.leaseOver = FALSE]
                         ELSE jobs[i]
  <1> DEFINE row(i) == IF i = holds[w] /\ jobs[i].lockedBy = w
                       THEN [jobs[i] EXCEPT !.status = outcome, !.lockedBy = NoWorker,
                                            !.leaseOver = FALSE]
                       ELSE jobs[i]
  <1>1. jobs \in Seq(JobRow) /\ Len(jobs) \in Nat
    BY DEF TypeOK
  <1>2. ASSUME NEW i \in 1 .. Len(jobs)
        PROVE  row(i) \in JobRow
    <2>1. jobs[i] \in JobRow
      BY <1>1, ElementOfSeq
    <2> QED
      BY <2>1 DEF JobRow
  <1>3. jobs' = [i \in 1 .. Len(jobs) |-> row(i)]
    BY DEF CompleteJob, Completed, JobId
  <1> HIDE DEF row
  <1>4. jobs' \in [1 .. Len(jobs) -> JobRow]
    BY <1>2, <1>3
  <1>5. jobs' \in Seq(JobRow) /\ Len(jobs') = Len(jobs)
    BY <1>1, <1>4, SeqDef, LenProperties
  <1>6. \A i \in JobId : jobs'[i] = row(i)
    BY <1>3 DEF JobId
  <1> QED
    BY <1>5, <1>6 DEF row

\* A lease that runs out marks one running row and nothing else.
LEMMA LeaseEffect ==
  ASSUME TypeOK, NEW j \in JobId, LeaseRunsOut(j)
  PROVE  /\ jobs' \in Seq(JobRow)
         /\ Len(jobs') = Len(jobs)
         /\ \A i \in JobId : jobs'[i] = IF i = j THEN [jobs[j] EXCEPT !.leaseOver = TRUE]
                                        ELSE jobs[i]
  <1>1. jobs \in Seq(JobRow) /\ j \in 1 .. Len(jobs)
    BY DEF TypeOK, JobId
  <1>2. jobs[j] \in JobRow
    BY <1>1, ElementOfSeq
  <1>3. [jobs[j] EXCEPT !.leaseOver = TRUE] \in JobRow
    BY <1>2 DEF JobRow
  <1>4. jobs' = [jobs EXCEPT ![j] = [jobs[j] EXCEPT !.leaseOver = TRUE]]
    BY DEF LeaseRunsOut
  <1> QED
    BY <1>1, <1>3, <1>4, ExceptSeq DEF JobId

\* Every row of the table is typed.
LEMMA RowTyped ==
  ASSUME TypeOK
  PROVE  /\ Len(jobs) \in Nat
         /\ \A j \in JobId : jobs[j] \in JobRow
         /\ \A w \in Workers : holds[w] # 0 => holds[w] \in JobId
  BY ElementOfSeq DEF TypeOK, JobId

-----------------------------------------------------------------------------
(* The invariant holds initially and every step keeps it.                  *)

\* The empty queue satisfies the invariant.
LEMMA InitEstablishes == Init => QueueInv
  BY QueueAssumption, EmptySeq
  DEF Init, QueueInv, TypeOK, OneOpenJob, LockedRows, DownHoldsNothing,
      HoldersAreLocked, DeathsCounted, JobId

\* enqueue_job keeps the invariant: the index refuses a second open job.
LEMMA EnqueueKeeps ==
  ASSUME QueueInv, NEW d \in Deployments, EnqueueJob(d)
  PROVE  QueueInv'
  <1> USE DEF QueueInv
  <1>1. /\ jobs' \in Seq(JobRow)
        /\ Len(jobs') = Len(jobs) + 1
        /\ \A i \in JobId : jobs'[i] = jobs[i]
        /\ jobs'[Len(jobs) + 1] = NewJob(d)
    BY EnqueueEffect
  <1>2. UNCHANGED <<holds, up, crashes>>
    BY DEF EnqueueJob
  <1>3. JobId' = JobId \union {Len(jobs) + 1} /\ Len(jobs) + 1 \notin JobId
    BY <1>1, RowTyped DEF JobId
  <1>4. \A w \in Workers : holds[w] # 0 => holds[w] \in JobId
    BY RowTyped
  <1>5. /\ NewJob(d).deployment = d
        /\ NewJob(d).status = "queued"
        /\ NewJob(d).lockedBy = NoWorker
        /\ NewJob(d).attempt = 0
    BY DEF NewJob
  <1>6. TypeOK'
    BY <1>1, <1>2, RowTyped DEF TypeOK
  <1>7. OneOpenJob'
    <2>1. \A i \in JobId : ~(jobs[i].deployment = d /\ jobs[i].status \in OpenStatus)
      BY DEF EnqueueJob, HasOpenJob, OpenJobs
    <2> QED
      BY <1>1, <1>3, <1>5, <2>1 DEF OneOpenJob, OpenStatus
  <1>8. LockedRows'
    BY <1>1, <1>3, <1>5 DEF LockedRows
  <1>9. DownHoldsNothing'
    BY <1>2 DEF DownHoldsNothing
  <1>10. HoldersAreLocked'
    BY <1>1, <1>2, <1>4 DEF HoldersAreLocked
  <1>11. DeathsCounted'
    BY <1>1, <1>2, <1>3, <1>5 DEF DeathsCounted, Attended, TypeOK
  <1> QED
    BY <1>6, <1>7, <1>8, <1>9, <1>10, <1>11

\* claim_next_job keeps the invariant: a running row is taken over only once
\* its lease is over, when nobody works on it any more.
LEMMA ClaimKeeps ==
  ASSUME QueueInv, NEW w \in Workers, ClaimNextJob(w)
  PROVE  QueueInv'
  <1> USE DEF QueueInv
  <1>1. PICK j \in JobId :
          /\ Claimable(j)
          /\ jobs' \in Seq(JobRow)
          /\ Len(jobs') = Len(jobs)
          /\ \A i \in JobId : jobs'[i] = IF i = j THEN ClaimedRow(jobs[j], w) ELSE jobs[i]
          /\ holds' = [holds EXCEPT ![w] = j]
    BY ClaimEffect
  <1>2. /\ UNCHANGED <<up, crashes>> /\ w \in up /\ holds[w] = 0
        /\ JobId' = JobId
    BY <1>1 DEF ClaimNextJob, JobId
  <1>3. /\ jobs[j] \in JobRow
        /\ \A v \in Workers : holds[v] # 0 => holds[v] \in JobId
    BY RowTyped
  <1>4. /\ jobs'[j].deployment = jobs[j].deployment
        /\ jobs'[j].status = "running"
        /\ jobs'[j].lockedBy = w
        /\ jobs'[j].leaseOver = FALSE
        /\ jobs'[j].attempt = IF jobs[j].status = "running" THEN jobs[j].attempt + 1
                               ELSE jobs[j].attempt
    <2> DEFINE r == jobs[j]
    <2>1. jobs'[j] = ClaimedRow(r, w)
      BY <1>1
    <2>2. r \in JobRow
      BY <1>3
    <2> HIDE DEF r
    <2>3. /\ ClaimedRow(r, w).deployment = r.deployment
          /\ ClaimedRow(r, w).status = "running"
          /\ ClaimedRow(r, w).lockedBy = w
          /\ ClaimedRow(r, w).leaseOver = FALSE
          /\ ClaimedRow(r, w).attempt = IF r.status = "running" THEN r.attempt + 1
                                        ELSE r.attempt
      BY <2>2, ClaimedRowFields
    <2> QED
      BY <2>1, <2>3 DEF r
  <1>5. \A i \in JobId : i # j => jobs'[i] = jobs[i]
    BY <1>1
  <1>6. /\ holds'[w] = j
        /\ \A v \in Workers : v # w => holds'[v] = holds[v]
    BY <1>1 DEF TypeOK
  <1>7. ~MayWedge => \A v \in Workers : holds[v] # j
    BY <1>1, <1>3 DEF HoldersAreLocked, Claimable, JobId
  <1>8. TypeOK'
    BY <1>1, <1>2 DEF TypeOK, JobId
  <1>9. OneOpenJob'
    BY <1>1, <1>2, <1>4, <1>5 DEF OneOpenJob, Claimable, OpenStatus
  <1>10. LockedRows'
    BY <1>2, <1>4, <1>5, QueueAssumption DEF LockedRows
  <1>11. DownHoldsNothing'
    BY <1>2, <1>6 DEF DownHoldsNothing
  <1>12. HoldersAreLocked'
    BY <1>3, <1>4, <1>5, <1>6, <1>7 DEF HoldersAreLocked
  <1>13. DeathsCounted'
    <2> SUFFICES ASSUME ~MayWedge, NEW i \in JobId
                 PROVE  /\ jobs'[i].attempt <= crashes
                        /\ jobs'[i].status = "running" /\ ~Attended(i)' =>
                             jobs'[i].attempt + 1 <= crashes
      BY <1>2 DEF DeathsCounted
    <2>1. CASE i = j
      <3>1. Attended(j)'
        BY <1>2, <1>4, <1>6 DEF Attended
      <3>2. jobs[j].status = "running" => ~Attended(j)
        BY <1>7, <1>2, QueueAssumption DEF Attended, TypeOK
      <3> QED
        BY <2>1, <3>1, <3>2, <1>4 DEF DeathsCounted
    <2>2. CASE i # j
      <3>1. Attended(i) => Attended(i)'
        BY <2>2, <1>2, <1>5, <1>6 DEF Attended, TypeOK, JobId
      <3> QED
        BY <2>2, <3>1, <1>5 DEF DeathsCounted
    <2> QED
      BY <2>1, <2>2
  <1> QED
    BY <1>8, <1>9, <1>10, <1>11, <1>12, <1>13

\* mark_job_done and mark_job_failed keep the invariant.
LEMMA CompleteKeeps ==
  ASSUME QueueInv, NEW w \in Workers, NEW outcome \in {"done", "failed"},
         CompleteJob(w, outcome)
  PROVE  QueueInv'
  <1> USE DEF QueueInv
  <1>1. /\ jobs' \in Seq(JobRow)
        /\ Len(jobs') = Len(jobs)
        /\ \A i \in JobId :
             jobs'[i] = IF i = holds[w] /\ jobs[i].lockedBy = w
                        THEN [jobs[i] EXCEPT !.status = outcome, !.lockedBy = NoWorker,
                                             !.leaseOver = FALSE]
                        ELSE jobs[i]
    BY CompleteEffect
  <1>2. /\ UNCHANGED <<up, crashes>> /\ w \in up
        /\ holds' = [holds EXCEPT ![w] = 0]
        /\ JobId' = JobId
    BY <1>1 DEF CompleteJob, JobId
  <1>3. /\ \A i \in JobId : jobs[i] \in JobRow
        /\ \A v \in Workers : holds[v] # 0 => holds[v] \in JobId
    BY RowTyped
  <1>4. /\ holds'[w] = 0
        /\ \A v \in Workers : v # w => holds'[v] = holds[v]
    BY <1>2 DEF TypeOK
  <1>5. \A i \in JobId : ~(i = holds[w] /\ jobs[i].lockedBy = w) => jobs'[i] = jobs[i]
    BY <1>1
  <1>6. \A i \in JobId : i = holds[w] /\ jobs[i].lockedBy = w =>
          /\ jobs'[i].deployment = jobs[i].deployment
          /\ jobs'[i].status = outcome
          /\ jobs'[i].lockedBy = NoWorker
          /\ jobs'[i].attempt = jobs[i].attempt
    BY <1>1, <1>3 DEF JobRow
  <1>7. TypeOK'
    <2>1. jobs' \in Seq(JobRow) /\ Len(jobs') = Len(jobs) /\ Len(jobs) \in Nat
      BY <1>1, RowTyped
    <2>2. /\ holds' \in [Workers -> Nat]
          /\ \A v \in Workers : holds'[v] \in 0 .. Len(jobs)
      BY <1>2, <1>4, <2>1 DEF TypeOK
    <2> QED
      BY <1>2, <2>1, <2>2 DEF TypeOK
  <1>8. OneOpenJob'
    BY <1>2, <1>5, <1>6 DEF OneOpenJob, OpenStatus
  <1>9. LockedRows'
    BY <1>2, <1>5, <1>6 DEF LockedRows
  <1>10. DownHoldsNothing'
    BY <1>2, <1>4 DEF DownHoldsNothing
  <1>11. HoldersAreLocked'
    BY <1>3, <1>4, <1>5 DEF HoldersAreLocked
  <1>12. DeathsCounted'
    <2> SUFFICES ASSUME ~MayWedge, NEW i \in JobId
                 PROVE  /\ jobs'[i].attempt <= crashes
                        /\ jobs'[i].status = "running" /\ ~Attended(i)' =>
                             jobs'[i].attempt + 1 <= crashes
      BY <1>2 DEF DeathsCounted
    <2>1. CASE i = holds[w] /\ jobs[i].lockedBy = w
      BY <2>1, <1>6 DEF DeathsCounted
    <2>2. CASE ~(i = holds[w] /\ jobs[i].lockedBy = w)
      <3>1. Attended(i) => Attended(i)'
        BY <2>2, <1>2, <1>4, <1>5 DEF Attended, TypeOK
      <3> QED
        BY <2>2, <3>1, <1>5 DEF DeathsCounted
    <2> QED
      BY <2>1, <2>2
  <1> QED
    BY <1>7, <1>8, <1>9, <1>10, <1>11, <1>12

\* The death of a process keeps the invariant: a crash is counted for the one
\* job that it leaves without a worker.
LEMMA CrashKeeps ==
  ASSUME QueueInv, NEW w \in Workers, Crash(w)
  PROVE  QueueInv'
  <1> USE DEF QueueInv
  <1>1. /\ UNCHANGED jobs /\ JobId' = JobId
        /\ up' = up \ {w} /\ crashes' = crashes + 1
        /\ holds' = [holds EXCEPT ![w] = 0]
    BY DEF Crash, JobId
  <1>2. /\ holds'[w] = 0
        /\ \A v \in Workers : v # w => holds'[v] = holds[v]
    BY <1>1 DEF TypeOK
  <1>3. \A i \in JobId : jobs[i] \in JobRow
    BY RowTyped
  <1>4. TypeOK'
    BY <1>1, <1>2, RowTyped DEF TypeOK
  <1>5. OneOpenJob' /\ LockedRows'
    BY <1>1 DEF OneOpenJob, LockedRows
  <1>6. DownHoldsNothing' /\ HoldersAreLocked'
    BY <1>1, <1>2 DEF DownHoldsNothing, HoldersAreLocked
  <1>7. DeathsCounted'
    <2>1. \A i \in JobId : jobs[i].attempt \in Nat
      BY <1>3 DEF JobRow
    <2> QED
      BY <1>1, <2>1 DEF DeathsCounted, TypeOK
  <1> QED
    BY <1>4, <1>5, <1>6, <1>7

\* An idle process that leaves, and a process that comes back, keep the
\* invariant: neither attends a job.
LEMMA PoolKeeps ==
  ASSUME QueueInv, NEW w \in Workers, Shutdown(w) \/ Restart(w)
  PROVE  QueueInv'
  <1> USE DEF QueueInv
  <1>1. /\ UNCHANGED <<jobs, holds, crashes>> /\ JobId' = JobId
        /\ holds[w] = 0
        /\ up' \in SUBSET Workers
        /\ \A v \in Workers : v # w => (v \in up <=> v \in up')
    BY DEF Shutdown, Restart, JobId, DownHoldsNothing, TypeOK
  <1>2. TypeOK'
    BY <1>1 DEF TypeOK
  <1>3. OneOpenJob' /\ LockedRows'
    BY <1>1 DEF OneOpenJob, LockedRows
  <1>4. DownHoldsNothing' /\ HoldersAreLocked'
    BY <1>1 DEF DownHoldsNothing, HoldersAreLocked
  <1>5. \A i \in JobId : Attended(i) => Attended(i)'
    BY <1>1 DEF Attended, TypeOK, JobId
  <1>6. DeathsCounted'
    BY <1>1, <1>5 DEF DeathsCounted
  <1> QED
    BY <1>2, <1>3, <1>4, <1>6

\* A lease that runs out keeps the invariant: without wedged processes it is
\* the lease of a job that nobody works on.
LEMMA LeaseKeeps ==
  ASSUME QueueInv, NEW j \in JobId, LeaseRunsOut(j)
  PROVE  QueueInv'
  <1> USE DEF QueueInv
  <1>1. /\ jobs' \in Seq(JobRow)
        /\ Len(jobs') = Len(jobs)
        /\ \A i \in JobId : jobs'[i] = IF i = j THEN [jobs[j] EXCEPT !.leaseOver = TRUE]
                                       ELSE jobs[i]
    BY LeaseEffect
  <1>2. /\ UNCHANGED <<holds, up, crashes>> /\ JobId' = JobId
        /\ jobs[j].status = "running"
        /\ MayWedge \/ ~Attended(j)
    BY <1>1 DEF LeaseRunsOut, JobId
  <1>3. /\ \A i \in JobId : jobs[i] \in JobRow
        /\ \A v \in Workers : holds[v] # 0 => holds[v] \in JobId
    BY RowTyped
  <1>4. \A i \in JobId : /\ jobs'[i].deployment = jobs[i].deployment
                         /\ jobs'[i].status = jobs[i].status
                         /\ jobs'[i].lockedBy = jobs[i].lockedBy
                         /\ jobs'[i].attempt = jobs[i].attempt
                         /\ i # j => jobs'[i].leaseOver = jobs[i].leaseOver
    BY <1>1, <1>3 DEF JobRow
  <1>5. TypeOK'
    BY <1>1, <1>2 DEF TypeOK
  <1>6. OneOpenJob' /\ LockedRows'
    BY <1>2, <1>4 DEF OneOpenJob, LockedRows
  <1>7. DownHoldsNothing'
    BY <1>2 DEF DownHoldsNothing
  <1>8. HoldersAreLocked'
    <2>1. ~MayWedge => \A v \in Workers : holds[v] # j
      BY <1>2, <1>3 DEF HoldersAreLocked, DownHoldsNothing, Attended, JobId
    <2> QED
      BY <1>2, <1>3, <1>4, <2>1 DEF HoldersAreLocked
  <1>9. DeathsCounted'
    BY <1>2, <1>4 DEF DeathsCounted, Attended
  <1> QED
    BY <1>5, <1>6, <1>7, <1>8, <1>9

\* Every step of the queue keeps the invariant.
LEMMA NextKeeps == QueueInv /\ [Next]_queueVars => QueueInv'
  <1> SUFFICES ASSUME QueueInv, [Next]_queueVars
               PROVE  QueueInv'
    OBVIOUS
  <1>1. ASSUME NEW d \in Deployments, EnqueueJob(d) PROVE QueueInv'
    BY <1>1, EnqueueKeeps
  <1>2. ASSUME NEW w \in Workers, ClaimNextJob(w) PROVE QueueInv'
    BY <1>2, ClaimKeeps
  <1>3. ASSUME NEW w \in Workers, CompleteJob(w, "done") \/ CompleteJob(w, "failed")
        PROVE  QueueInv'
    BY <1>3, CompleteKeeps
  <1>4. ASSUME NEW w \in Workers, Crash(w) PROVE QueueInv'
    BY <1>4, CrashKeeps
  <1>5. ASSUME NEW w \in Workers, Shutdown(w) \/ Restart(w) PROVE QueueInv'
    BY <1>5, PoolKeeps
  <1>6. ASSUME NEW j \in JobId, LeaseRunsOut(j) PROVE QueueInv'
    BY <1>6, LeaseKeeps
  <1>7. CASE UNCHANGED queueVars
    BY <1>7 DEF queueVars, QueueInv, TypeOK, OneOpenJob, LockedRows, DownHoldsNothing,
                HoldersAreLocked, DeathsCounted, Attended, JobId
  <1> QED
    BY <1>1, <1>2, <1>3, <1>4, <1>5, <1>6, <1>7 DEF Next

\* The queue satisfies its inductive invariant in every reachable state.
LEMMA QueueInvariance == Spec => []QueueInv
  BY InitEstablishes, NextKeeps, PTL DEF Spec

-----------------------------------------------------------------------------
(* What a module that composes the queue knows of its steps: which open    *)
(* jobs there are, what a process works on, and whether under its own lock.*)

\* Does the lock of the row that w works on still name w?
HoldsLock(w) == holds[w] # 0 /\ jobs[holds[w]].lockedBy = w

\* Is j an open job of d?
IsOpen(d, j) == jobs[j].deployment = d /\ jobs[j].status \in OpenStatus

\* A deployment has an open job if some row is one.
LEMMA OpenMeansSome ==
  ASSUME NEW d
  PROVE  HasOpenJob(d) <=> \E j \in JobId : IsOpen(d, j)
  BY DEF HasOpenJob, OpenJobs, IsOpen

\* A row that a process holds the lock of is open; while leases outlive their
\* holders every process holds the lock of what it works on, and no other
\* process of that deployment works at all.
LEMMA LockedIsOpen ==
  ASSUME QueueInv, NEW w \in Workers, holds[w] # 0
  PROVE  /\ holds[w] \in JobId
         /\ HoldsLock(w) => HasOpenJob(jobs[holds[w]].deployment)
         /\ ~MayWedge => HoldsLock(w)
  <1>1. holds[w] \in JobId
    BY RowTyped DEF QueueInv
  <1>2. jobs[holds[w]].lockedBy = w => IsOpen(jobs[holds[w]].deployment, holds[w])
    BY <1>1, QueueAssumption DEF QueueInv, LockedRows, IsOpen, OpenStatus
  <1>3. HoldsLock(w) => HasOpenJob(jobs[holds[w]].deployment)
    BY <1>1, <1>2, OpenMeansSome DEF HoldsLock
  <1>4. ~MayWedge => HoldsLock(w)
    BY DEF QueueInv, HoldersAreLocked, HoldsLock
  <1> QED
    BY <1>1, <1>3, <1>4

\* An enqueue opens a job where there was none and disturbs nobody.
LEMMA EnqueueOpens ==
  ASSUME QueueInv, NEW d \in Deployments, EnqueueJob(d)
  PROVE  /\ ~HasOpenJob(d) /\ HasOpenJob(d)'
         /\ UNCHANGED <<holds, up>>
         /\ Len(jobs') > 0
         /\ \A v \in Workers : HoldsLock(v)' => HoldsLock(v)
  <1>1. /\ Len(jobs) \in Nat /\ Len(jobs') = Len(jobs) + 1
        /\ \A i \in JobId : jobs'[i] = jobs[i]
        /\ jobs'[Len(jobs) + 1] = NewJob(d)
    BY EnqueueEffect, RowTyped DEF QueueInv
  <1>2. \E j \in JobId' : jobs'[j].deployment = d /\ jobs'[j].status \in OpenStatus
    <2>1. Len(jobs) + 1 \in 1 .. Len(jobs')
      BY <1>1
    <2>2. NewJob(d).deployment = d /\ NewJob(d).status \in OpenStatus
      BY DEF NewJob, OpenStatus
    <2> QED
      BY <1>1, <2>1, <2>2 DEF JobId
  <1>3. HasOpenJob(d)'
    BY <1>2 DEF HasOpenJob, OpenJobs
  <1>4. ~HasOpenJob(d) /\ UNCHANGED <<holds, up>>
    BY DEF EnqueueJob
  <1>5. ASSUME NEW v \in Workers, HoldsLock(v)' PROVE HoldsLock(v)
    <2>1. holds[v] # 0 /\ jobs'[holds[v]].lockedBy = v
      BY <1>4, <1>5 DEF HoldsLock
    <2>2. holds[v] \in JobId
      BY <2>1, RowTyped DEF QueueInv
    <2> QED
      BY <1>1, <2>1, <2>2 DEF HoldsLock
  <1> QED
    BY <1>1, <1>3, <1>4, <1>5

\* A claim opens and closes nothing, gives the claiming process a row, and
\* takes at most the lock of another away.
LEMMA ClaimOpens ==
  ASSUME QueueInv, NEW w \in Workers, ClaimNextJob(w)
  PROVE  /\ \A d \in Deployments : HasOpenJob(d)' <=> HasOpenJob(d)
         /\ w \in up /\ holds[w] = 0 /\ holds'[w] # 0
         /\ \A v \in Workers \ {w} : holds'[v] = holds[v] /\ (HoldsLock(v)' => HoldsLock(v))
         /\ up' = up /\ Len(jobs') = Len(jobs) /\ Len(jobs) > 0
  <1>1. PICK j \in JobId :
          /\ Claimable(j)
          /\ Len(jobs') = Len(jobs)
          /\ \A i \in JobId : jobs'[i] = IF i = j THEN ClaimedRow(jobs[j], w) ELSE jobs[i]
          /\ holds' = [holds EXCEPT ![w] = j]
    BY ClaimEffect DEF QueueInv
  <1>2. /\ jobs[j] \in JobRow
        /\ Len(jobs) \in Nat
        /\ \A v \in Workers : holds[v] # 0 => holds[v] \in JobId
    BY RowTyped DEF QueueInv
  <1>3. /\ ClaimedRow(jobs[j], w).deployment = jobs[j].deployment
        /\ ClaimedRow(jobs[j], w).status = "running"
        /\ ClaimedRow(jobs[j], w).lockedBy = w
    BY <1>2, ClaimedRowFields
  <1>4. JobId' = JobId /\ j > 0 /\ Len(jobs) > 0
    BY <1>1, <1>2 DEF JobId
  <1>5. \A d \in Deployments, i \in JobId : IsOpen(d, i)' <=> IsOpen(d, i)
    BY <1>1, <1>3 DEF IsOpen, Claimable, OpenStatus
  <1>6. \A d \in Deployments : HasOpenJob(d)' <=> HasOpenJob(d)
    <2>1. \A d \in Deployments : HasOpenJob(d)' <=> \E i \in JobId' : IsOpen(d, i)'
      BY DEF HasOpenJob, OpenJobs, IsOpen
    <2> QED
      BY <1>4, <1>5, <2>1, OpenMeansSome
  <1>7. w \in up /\ holds[w] = 0 /\ up' = up
    BY DEF ClaimNextJob
  <1>8. holds'[w] = j /\ \A v \in Workers \ {w} : holds'[v] = holds[v]
    BY <1>1 DEF QueueInv, TypeOK
  <1>9. \A v \in Workers \ {w} : HoldsLock(v)' => HoldsLock(v)
    <2> SUFFICES ASSUME NEW v \in Workers \ {w}, HoldsLock(v)'
                 PROVE  HoldsLock(v)
      OBVIOUS
    <2>1. holds[v] # 0 /\ jobs'[holds[v]].lockedBy = v
      BY <1>8 DEF HoldsLock
    <2> QED
      BY <1>1, <1>2, <1>3, <2>1 DEF HoldsLock
  <1> QED
    BY <1>1, <1>4, <1>6, <1>7, <1>8, <1>9

\* A report ends the reporting process's work, closes nothing unless the
\* process still holds its lock, and leaves the others alone.
LEMMA CompleteOpens ==
  ASSUME QueueInv, NEW w \in Workers, NEW outcome \in {"done", "failed"}, CompleteJob(w, outcome)
  PROVE  /\ ~HoldsLock(w) => \A d \in Deployments : HasOpenJob(d)' <=> HasOpenJob(d)
         /\ w \in up /\ holds[w] # 0 /\ holds'[w] = 0
         /\ \A v \in Workers \ {w} : holds'[v] = holds[v] /\ (HoldsLock(v)' => HoldsLock(v))
         /\ up' = up /\ Len(jobs') = Len(jobs)
  <1>1. /\ Len(jobs') = Len(jobs)
        /\ \A i \in JobId :
              jobs'[i] = IF i = holds[w] /\ jobs[i].lockedBy = w
                         THEN [jobs[i] EXCEPT !.status = outcome, !.lockedBy = NoWorker,
                                              !.leaseOver = FALSE]
                         ELSE jobs[i]
    BY CompleteEffect DEF QueueInv
  <1>2. /\ w \in up /\ holds[w] # 0 /\ up' = up
        /\ holds'[w] = 0 /\ \A v \in Workers \ {w} : holds'[v] = holds[v]
    BY DEF CompleteJob, QueueInv, TypeOK
  <1>3. \A v \in Workers : holds[v] # 0 => holds[v] \in JobId /\ jobs[holds[v]] \in JobRow
    BY RowTyped DEF QueueInv
  <1>4. JobId' = JobId
    BY <1>1 DEF JobId
  <1>5. ASSUME ~HoldsLock(w), NEW d \in Deployments PROVE HasOpenJob(d)' <=> HasOpenJob(d)
    <2>1. \A i \in JobId : jobs'[i] = jobs[i]
      BY <1>1, <1>2, <1>5 DEF HoldsLock
    <2>2. HasOpenJob(d)' <=> \E i \in JobId' : IsOpen(d, i)'
      BY DEF HasOpenJob, OpenJobs, IsOpen
    <2> QED
      BY <1>4, <2>1, <2>2, OpenMeansSome DEF IsOpen
  <1>6. ASSUME NEW v \in Workers \ {w}, HoldsLock(v)' PROVE HoldsLock(v)
    <2>1. holds[v] # 0 /\ jobs'[holds[v]].lockedBy = v /\ holds[v] \in JobId
      BY <1>2, <1>3, <1>6 DEF HoldsLock
    <2>2. CASE holds[v] = holds[w] /\ jobs[holds[v]].lockedBy = w
      <3>1. jobs'[holds[v]] = [jobs[holds[v]] EXCEPT !.status = outcome, !.lockedBy = NoWorker,
                                                     !.leaseOver = FALSE]
        BY <1>1, <2>1, <2>2
      <3>2. jobs'[holds[v]].lockedBy = NoWorker
        BY <1>3, <2>1, <3>1 DEF JobRow
      <3> QED
        BY <2>1, <3>2, QueueAssumption
    <2>3. CASE ~(holds[v] = holds[w] /\ jobs[holds[v]].lockedBy = w)
      BY <1>1, <2>1, <2>3 DEF HoldsLock
    <2> QED
      BY <2>2, <2>3
  <1> QED
    BY <1>1, <1>2, <1>5, <1>6

\* A lease that runs out opens and closes nothing and takes no lock.
LEMMA LeaseOpens ==
  ASSUME QueueInv, NEW j \in JobId, LeaseRunsOut(j)
  PROVE  /\ \A d \in Deployments : HasOpenJob(d)' <=> HasOpenJob(d)
         /\ UNCHANGED <<holds, up>> /\ Len(jobs') = Len(jobs)
         /\ \A v \in Workers : HoldsLock(v)' => HoldsLock(v)
  <1>1. /\ Len(jobs') = Len(jobs)
        /\ \A i \in JobId : jobs'[i] = IF i = j THEN [jobs[j] EXCEPT !.leaseOver = TRUE]
                                       ELSE jobs[i]
    BY LeaseEffect DEF QueueInv
  <1>2. /\ \A i \in JobId : jobs[i] \in JobRow
        /\ \A v \in Workers : holds[v] # 0 => holds[v] \in JobId
    BY RowTyped DEF QueueInv
  <1>3. JobId' = JobId /\ UNCHANGED <<holds, up>>
    BY <1>1 DEF JobId, LeaseRunsOut
  <1>4. \A i \in JobId : /\ jobs'[i].deployment = jobs[i].deployment
                         /\ jobs'[i].status = jobs[i].status
                         /\ jobs'[i].lockedBy = jobs[i].lockedBy
    BY <1>1, <1>2 DEF JobRow
  <1>5. ASSUME NEW d \in Deployments PROVE HasOpenJob(d)' <=> HasOpenJob(d)
    <2>1. HasOpenJob(d)' <=> \E i \in JobId' : IsOpen(d, i)'
      BY DEF HasOpenJob, OpenJobs, IsOpen
    <2> QED
      BY <1>3, <1>4, <2>1, OpenMeansSome DEF IsOpen
  <1>6. \A v \in Workers : HoldsLock(v)' => HoldsLock(v)
    BY <1>2, <1>3, <1>4 DEF HoldsLock
  <1> QED
    BY <1>1, <1>3, <1>5, <1>6

-----------------------------------------------------------------------------
(* The properties.                                                         *)

\* The queue's state is typed, for all constants.
THEOREM QueueTypeCorrect == Spec => []TypeOK
  <1>1. QueueInv => TypeOK
    BY DEF QueueInv
  <1> QED
    BY <1>1, QueueInvariance, PTL

\* There is never more than one open job for a deployment (the partial unique
\* index), with or without wedged processes.
THEOREM OneOpenJobAlways == Spec => []OneOpenJob
  <1>1. QueueInv => OneOpenJob
    BY DEF QueueInv
  <1> QED
    BY <1>1, QueueInvariance, PTL

\* By the invariant alone: the unique index and the locks exclude a second
\* process.
LEMMA InvExcludes == QueueInv => OneWorkerPerDeployment
  <1> SUFFICES ASSUME QueueInv, ~MayWedge, NEW v \in up, NEW w \in up,
                      holds[v] # 0, holds[w] # 0,
                      jobs[holds[v]].deployment = jobs[holds[w]].deployment
               PROVE  v = w
    BY DEF OneWorkerPerDeployment
  <1>1. /\ v \in Workers /\ w \in Workers
        /\ holds[v] \in JobId /\ holds[w] \in JobId
    BY RowTyped DEF QueueInv, TypeOK
  <1>2. /\ jobs[holds[v]].lockedBy = v /\ jobs[holds[v]].status \in OpenStatus
        /\ jobs[holds[w]].lockedBy = w /\ jobs[holds[w]].status \in OpenStatus
    BY <1>1 DEF QueueInv, HoldersAreLocked, OpenStatus
  <1>3. holds[v] = holds[w]
    BY <1>1, <1>2 DEF QueueInv, OneOpenJob
  <1> QED
    BY <1>2, <1>3

\* Two live processes never work on the same deployment at once, as long as
\* leases outlive the processes that hold them (claim_next_job).
THEOREM MutualExclusion == Spec => []OneWorkerPerDeployment
  BY InvExcludes, QueueInvariance, PTL

\* Also when a lease runs out under a live process, at most one process per
\* deployment works under a lock that is still its own (claim_next_job
\* overwrites locked_by).
THEOREM LeaseExclusion == Spec => []OneLeaseHolder
  <1>1. QueueInv => OneLeaseHolder
    <2> SUFFICES ASSUME QueueInv, NEW v \in up, NEW w \in up,
                        holds[v] # 0, holds[w] # 0,
                        jobs[holds[v]].lockedBy = v, jobs[holds[w]].lockedBy = w,
                        jobs[holds[v]].deployment = jobs[holds[w]].deployment
                 PROVE  v = w
      BY DEF OneLeaseHolder
    <2>1. /\ v \in Workers /\ w \in Workers
          /\ holds[v] \in JobId /\ holds[w] \in JobId
      BY RowTyped DEF QueueInv, TypeOK
    <2>2. jobs[holds[v]].status \in OpenStatus /\ jobs[holds[w]].status \in OpenStatus
      BY <2>1, QueueAssumption DEF QueueInv, LockedRows, OpenStatus
    <2>3. holds[v] = holds[w]
      BY <2>1, <2>2 DEF QueueInv, OneOpenJob
    <2> QED
      BY <2>3
  <1> QED
    BY <1>1, QueueInvariance, PTL

\* attempt never exceeds the number of processes that died, as defer_job's
\* docstring says of it.
THEOREM AttemptsAreDeaths == Spec => []AttemptsCountDeaths
  <1>1. QueueInv => AttemptsCountDeaths
    BY DEF QueueInv, DeathsCounted, AttemptsCountDeaths
  <1> QED
    BY <1>1, QueueInvariance, PTL

\* A job is closed only by the process that holds its lock, and never changes
\* after that, however late other reports arrive (_complete_job).
THEOREM StaleReports == Spec => StaleReportsChangeNothing
  <1> DEFINE Frozen(j) ==
        /\ jobs[j].status \notin OpenStatus => jobs'[j] = jobs[j]
        /\ jobs[j].status \in OpenStatus /\ jobs'[j].status \notin OpenStatus
             => \E w \in up : jobs[j].lockedBy = w /\ holds[w] = j /\ holds'[w] = 0
  <1>1. ASSUME QueueInv, [Next]_queueVars, NEW j \in JobId
        PROVE  Frozen(j)
    <2>1. ASSUME NEW d \in Deployments, EnqueueJob(d) PROVE Frozen(j)
      BY <1>1, <2>1, EnqueueEffect DEF QueueInv
    <2>2. ASSUME NEW w \in Workers, ClaimNextJob(w) PROVE Frozen(j)
      <3>1. PICK i \in JobId :
              /\ Claimable(i)
              /\ jobs'[j] = IF j = i THEN ClaimedRow(jobs[i], w) ELSE jobs[j]
        BY <1>1, <2>2, ClaimEffect DEF QueueInv
      <3>2. CASE j = i
        <4>1. jobs'[j].status = "running"
          <5>1. jobs'[j] = ClaimedRow(jobs[j], w)
            BY <3>1, <3>2
          <5>2. jobs[j] \in JobRow
            BY <1>1, RowTyped DEF QueueInv
          <5>3. \A r \in JobRow : ClaimedRow(r, w).status = "running"
            BY ClaimedRowFields
          <5> QED
            BY <5>1, <5>2, <5>3
        <4> QED
          BY <3>1, <3>2, <4>1 DEF Claimable, OpenStatus
      <3>3. CASE j # i
        BY <3>1, <3>3
      <3> QED
        BY <3>2, <3>3
    <2>3. ASSUME NEW w \in Workers, NEW outcome \in {"done", "failed"},
                 CompleteJob(w, outcome)
          PROVE  Frozen(j)
      <3>1. w \in up /\ holds'[w] = 0
        BY <1>1, <2>3 DEF CompleteJob, QueueInv, TypeOK
      <3>2. ~(j = holds[w] /\ jobs[j].lockedBy = w) => jobs'[j] = jobs[j]
        BY <1>1, <2>3, CompleteEffect DEF QueueInv
      <3>3. jobs[j].lockedBy = w => jobs[j].status \in OpenStatus
        BY <1>1, QueueAssumption DEF QueueInv, LockedRows, OpenStatus
      <3> QED
        BY <3>1, <3>2, <3>3
    <2>4. ASSUME NEW w \in Workers, Crash(w) \/ Shutdown(w) \/ Restart(w) PROVE Frozen(j)
      BY <2>4 DEF Crash, Shutdown, Restart
    <2>5. ASSUME NEW i \in JobId, LeaseRunsOut(i) PROVE Frozen(j)
      <3>1. /\ jobs'[j] = IF j = i THEN [jobs[i] EXCEPT !.leaseOver = TRUE] ELSE jobs[j]
            /\ jobs[i].status = "running" /\ jobs[i] \in JobRow
        BY <1>1, <2>5, LeaseEffect, RowTyped DEF QueueInv, LeaseRunsOut
      <3>2. jobs'[j].status = jobs[j].status
        BY <3>1 DEF JobRow
      <3> QED
        BY <3>1, <3>2 DEF OpenStatus
    <2>6. CASE UNCHANGED queueVars
      BY <2>6 DEF queueVars
    <2> QED
      BY <1>1, <2>1, <2>2, <2>3, <2>4, <2>5, <2>6 DEF Next
  <1>2. QueueInv /\ [Next]_queueVars => [\A j \in JobId : Frozen(j)]_queueVars
    BY <1>1
  <1> QED
    BY <1>2, QueueInvariance, PTL DEF Spec, StaleReportsChangeNothing
=============================================================================

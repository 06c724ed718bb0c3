---------------------- MODULE DeploymentLifecycle_proofs ----------------------
(***************************************************************************)
(* A deployment under requests, reconciles, crashes and, if they may, late *)
(* leases.  The reconciler and the API use the job queue as ReconcileQueue *)
(* prescribes, so what is proved of the queue holds of the deployment; on  *)
(* that rests what is proved of its rows and of the cluster.               *)
(***************************************************************************)
EXTENDS DeploymentLifecycle, SequenceTheorems, TLAPS

QueueProofs == INSTANCE ReconcileQueue_proofs WITH Deployments <- {App}

\* A deployment starts with the queue's initial state.
LEMMA StartsTheQueue == Init => Queue!Init
  BY DEF Init

\* Every API request is an enqueue of the queue or leaves it alone.
LEMMA RequestsUseTheQueue == RequestStep => Queue!Next \/ UNCHANGED queueVars
  <1> SUFFICES ASSUME RequestStep
               PROVE  Queue!EnqueueJob(App) \/ UNCHANGED queueVars
    BY DEF Queue!Next
  <1> QED
    BY DEF RequestStep, CreateDeployment, UpdateRead, UpdateCommit, DeleteRead,
           DeleteCommit, RefuseRequest, ChangePower

\* Every step of a worker process, from claim to report, is a step of that
\* process in the queue or leaves it alone.
LEMMA WorkersUseTheQueue ==
  ASSUME NEW w \in Workers, WorkerStep(w)
  PROVE  Queue!Next \/ UNCHANGED queueVars
  <1>1. CASE ClaimJob(w)
    BY <1>1 DEF ClaimJob, Queue!Next
  <1>2. CASE ReportJob(w)
    BY <1>2 DEF ReportJob, Queue!Next
  <1>3. CASE CrashWorker(w)
    BY <1>3 DEF CrashWorker, Queue!Next
  <1>4. CASE PoolStep(w)
    BY <1>4 DEF PoolStep, Queue!Next
  <1>5. CASE ReconcileStep(w) /\ ~ReportJob(w)
    BY <1>5 DEF ReconcileStep, LoadAndClaimRelease, ClaimPower, ValidateInputState,
                PublishPrerequisites, PrerequisiteFails, HelmUpgrade, HelmRollsBack,
                AfterUpgradeFails, SweepAndReap, HelmUninstall, DeleteNamespace,
                DeleteFails, RecordOutcome
  <1> QED
    BY <1>1, <1>2, <1>3, <1>4, <1>5 DEF WorkerStep, ReconcileStep

\* Every step of the lifecycle is a step of the queue or leaves it alone.
LEMMA StepsUseTheQueue == [Next]_vars => [Queue!Next]_(Queue!queueVars)
  <1> SUFFICES ASSUME [Next]_vars
               PROVE  Queue!Next \/ UNCHANGED queueVars
    BY DEF queueVars, Queue!queueVars
  <1>1. CASE LeaseStep
    BY <1>1 DEF LeaseStep, Queue!Next
  <1>2. CASE UNCHANGED vars
    BY <1>2 DEF vars
  <1> QED
    BY <1>1, <1>2, RequestsUseTheQueue, WorkersUseTheQueue DEF Next

\* The lifecycle implements the queue: requests, reconciles, crashes and
\* expiring leases change the job table and the worker pool only by the
\* queue's own transactions.
THEOREM LifecycleUsesTheQueue == Spec => UsesTheQueue
  <1> QED
    BY StartsTheQueue, StepsUseTheQueue, PTL DEF Spec, UsesTheQueue, Queue!Spec

\* The queue of the lifecycle is the queue of the proofs.
LEMMA SameQueue ==
  /\ Queue!Init <=> QueueProofs!Init
  /\ Queue!Next <=> QueueProofs!Next
  /\ Queue!queueVars = QueueProofs!queueVars
  /\ QueueProofs!OneWorkerPerDeployment <=> Queue!OneWorkerPerDeployment
  <1>1. Queue!Init <=> QueueProofs!Init
    BY DEF Queue!Init, QueueProofs!Init
  <1>2. Queue!Next <=> QueueProofs!Next
    BY DEF Queue!Next, QueueProofs!Next, Queue!EnqueueJob, QueueProofs!EnqueueJob,
        Queue!ClaimNextJob, QueueProofs!ClaimNextJob, Queue!CompleteJob,
        QueueProofs!CompleteJob, Queue!Crash, QueueProofs!Crash, Queue!Shutdown,
        QueueProofs!Shutdown, Queue!Restart, QueueProofs!Restart, Queue!LeaseRunsOut,
        QueueProofs!LeaseRunsOut, Queue!HasOpenJob, QueueProofs!HasOpenJob,
        Queue!OpenJobs, QueueProofs!OpenJobs, Queue!OpenStatus, QueueProofs!OpenStatus,
        Queue!JobId, QueueProofs!JobId, Queue!WithJob, QueueProofs!WithJob, Queue!NewJob,
        QueueProofs!NewJob, Queue!ClaimableJobs, QueueProofs!ClaimableJobs,
        Queue!Claimable, QueueProofs!Claimable, Queue!ClaimedRow, QueueProofs!ClaimedRow,
        Queue!Completed, QueueProofs!Completed, Queue!Attended, QueueProofs!Attended
  <1>3. QueueProofs!OneWorkerPerDeployment <=> Queue!OneWorkerPerDeployment
    BY DEF Queue!OneWorkerPerDeployment, QueueProofs!OneWorkerPerDeployment
  <1> QED
    BY <1>1, <1>2, <1>3 DEF Queue!queueVars, QueueProofs!queueVars

\* Two live workers never reconcile the deployment at once, as long as leases
\* outlive the processes that hold them: the queue's mutual exclusion, carried
\* over to the reconciler that relies on it.
THEOREM ReconcilesExclude == Spec => []Queue!OneWorkerPerDeployment
  <1>1. QueueProofs!Spec => []QueueProofs!OneWorkerPerDeployment
    BY QueueProofs!MutualExclusion, LifecycleAssumption
  <1>2. Queue!Init => QueueProofs!Init
    BY SameQueue
  <1>3. [Queue!Next]_(Queue!queueVars) => [QueueProofs!Next]_(QueueProofs!queueVars)
    BY SameQueue DEF Queue!queueVars, QueueProofs!queueVars
  <1>4. QueueProofs!OneWorkerPerDeployment => Queue!OneWorkerPerDeployment
    BY SameQueue
  <1> QED
    BY <1>1, <1>2, <1>3, <1>4, LifecycleUsesTheQueue, PTL
    DEF UsesTheQueue, Queue!Spec, QueueProofs!Spec
-----------------------------------------------------------------------------
(* What the reconciler knows of the queue's steps.  From here on the job   *)
(* table is looked at only through three questions: is a job open, what    *)
(* does a process work on, and does it still have its lock.                *)

\* Is a job open for the deployment?
Open == Queue!HasOpenJob(App)

\* Does process w work on a job under a lock that is still its own?
Locked(w) == holds[w] # 0 /\ jobs[holds[w]].lockedBy = w

\* The inductive invariant of the queue, proved there.
QueueInv == QueueProofs!QueueInv

\* Each transaction of the queue is the one the queue's proofs are about.
LEMMA SameSteps ==
  /\ Queue!EnqueueJob(App) <=> QueueProofs!EnqueueJob(App)
  /\ \A w : /\ Queue!ClaimNextJob(w) <=> QueueProofs!ClaimNextJob(w)
            /\ Queue!CompleteJob(w, "done") <=> QueueProofs!CompleteJob(w, "done")
            /\ Queue!CompleteJob(w, "failed") <=> QueueProofs!CompleteJob(w, "failed")
            /\ Queue!Crash(w) <=> QueueProofs!Crash(w)
  /\ \A j : Queue!LeaseRunsOut(j) <=> QueueProofs!LeaseRunsOut(j)
  /\ Queue!JobId = QueueProofs!JobId
  BY DEF Queue!EnqueueJob, QueueProofs!EnqueueJob,
        Queue!ClaimNextJob, QueueProofs!ClaimNextJob, Queue!CompleteJob,
        QueueProofs!CompleteJob, Queue!Crash, QueueProofs!Crash, Queue!LeaseRunsOut,
        QueueProofs!LeaseRunsOut, Queue!HasOpenJob, QueueProofs!HasOpenJob,
        Queue!OpenJobs, QueueProofs!OpenJobs, Queue!OpenStatus, QueueProofs!OpenStatus,
        Queue!JobId, QueueProofs!JobId, Queue!WithJob, QueueProofs!WithJob, Queue!NewJob,
        QueueProofs!NewJob, Queue!ClaimableJobs, QueueProofs!ClaimableJobs,
        Queue!Claimable, QueueProofs!Claimable, Queue!ClaimedRow, QueueProofs!ClaimedRow,
        Queue!Completed, QueueProofs!Completed, Queue!Attended, QueueProofs!Attended

\* And so are the questions asked of it.
LEMMA SameQuestions ==
  /\ Open <=> QueueProofs!HasOpenJob(App)
  /\ Open' <=> QueueProofs!HasOpenJob(App)'
  /\ \A w : /\ Locked(w) <=> QueueProofs!HoldsLock(w)
            /\ Locked(w)' <=> QueueProofs!HoldsLock(w)'
  BY DEF Open, Locked, Queue!HasOpenJob, QueueProofs!HasOpenJob, Queue!OpenJobs,
         QueueProofs!OpenJobs, Queue!OpenStatus, QueueProofs!OpenStatus, Queue!JobId,
         QueueProofs!JobId, QueueProofs!HoldsLock

\* Whoever works on a job is alive, and whoever has its lock works on an open
\* one; while leases outlive their holders that is everybody who works, and
\* nobody works beside another.
LEMMA WhoWorks ==
  ASSUME QueueInv
  PROVE  /\ Queue!TypeOK
         /\ \A w \in Workers : holds[w] # 0 =>
              /\ w \in up /\ Len(jobs) > 0
              /\ Locked(w) => Open
              /\ ~MayWedge => Locked(w) /\ \A v \in Workers : holds[v] # 0 => v = w
  <1> USE DEF QueueInv
  <1>1. QueueProofs!TypeOK
    BY DEF QueueProofs!QueueInv
  <1>2. Queue!TypeOK
    BY <1>1 DEF QueueProofs!TypeOK, Queue!TypeOK, QueueProofs!JobRow, Queue!JobRow
  <1>3. ASSUME NEW w \in Workers, holds[w] # 0
        PROVE  /\ w \in up /\ Len(jobs) > 0
               /\ jobs[holds[w]].deployment = App
               /\ Locked(w) => Open
               /\ ~MayWedge => Locked(w)
    <2>1. /\ holds[w] \in QueueProofs!JobId
          /\ Locked(w) => QueueProofs!HasOpenJob(jobs[holds[w]].deployment)
          /\ ~MayWedge => Locked(w)
      BY <1>3, QueueProofs!LockedIsOpen, LifecycleAssumption, SameQuestions
    <2>2. Len(jobs) > 0 /\ jobs[holds[w]] \in QueueProofs!JobRow
      BY <1>1, <2>1, QueueProofs!RowTyped, LifecycleAssumption DEF QueueProofs!JobId
    <2>3. jobs[holds[w]].deployment = App
      BY <2>2 DEF QueueProofs!JobRow
    <2>4. w \in up
      BY <1>3 DEF QueueProofs!QueueInv, QueueProofs!DownHoldsNothing
    <2> QED
      BY <2>1, <2>2, <2>3, <2>4, SameQuestions
  <1>4. QueueProofs!OneWorkerPerDeployment
    BY QueueProofs!InvExcludes, LifecycleAssumption
  <1>5. ASSUME ~MayWedge, NEW v \in Workers, NEW w \in Workers, holds[v] # 0, holds[w] # 0
        PROVE  v = w
    BY <1>3, <1>4, <1>5 DEF QueueProofs!OneWorkerPerDeployment
  <1> QED
    BY <1>2, <1>3, <1>5

\* A step that asks nothing new of the queue.
SameLocks == (Open' <=> Open) /\ \A v \in Workers : Locked(v)' <=> Locked(v)

\* The others go on as they were; at most they lose a lock.
OthersWork(w) == \A v \in Workers \ {w} : holds'[v] = holds[v] /\ (Locked(v)' => Locked(v))

\* A request's job is the only open one, and nobody has a lock before.
LEMMA Enqueues ==
  ASSUME QueueInv, Queue!EnqueueJob(App)
  PROVE  /\ ~Open /\ Open' /\ UNCHANGED <<holds, up>> /\ Len(jobs') > 0
         /\ \A v \in Workers : ~Locked(v) /\ ~Locked(v)'
         /\ ~MayWedge => \A v \in Workers : holds[v] = 0
  <1>1. /\ ~Open /\ Open' /\ UNCHANGED <<holds, up>> /\ Len(jobs') > 0
        /\ \A v \in Workers : Locked(v)' => Locked(v)
    BY QueueProofs!EnqueueOpens, LifecycleAssumption, SameSteps, SameQuestions DEF QueueInv
  <1>2. \A v \in Workers : ~Locked(v)
    BY <1>1, WhoWorks DEF Locked
  <1> QED
    BY <1>1, <1>2, WhoWorks

\* A claim gives an idle process a job and changes nothing else about it.
LEMMA Claims ==
  ASSUME QueueInv, NEW w \in Workers, Queue!ClaimNextJob(w)
  PROVE  /\ w \in up /\ holds[w] = 0 /\ holds'[w] # 0 /\ OthersWork(w)
         /\ (Open' <=> Open) /\ up' = up /\ Len(jobs) > 0 /\ Len(jobs') > 0
  BY QueueProofs!ClaimOpens, LifecycleAssumption, SameSteps, SameQuestions
  DEF QueueInv, OthersWork

\* A report frees the process; only a report under its own lock closes the job.
LEMMA Reports ==
  ASSUME QueueInv, NEW w \in Workers, NEW outcome \in {"done", "failed"},
         Queue!CompleteJob(w, outcome)
  PROVE  /\ w \in up /\ holds[w] # 0 /\ holds'[w] = 0 /\ OthersWork(w)
         /\ ~Locked(w) => (Open' <=> Open)
         /\ up' = up /\ Len(jobs') = Len(jobs)
  <1>1. QueueProofs!CompleteJob(w, outcome)
    BY SameSteps
  <1> QED
    BY <1>1, QueueProofs!CompleteOpens, LifecycleAssumption, SameQuestions
    DEF QueueInv, OthersWork

\* The death of a process closes no job.
LEMMA Dies ==
  ASSUME QueueInv, NEW w \in Workers, Queue!Crash(w)
  PROVE  /\ w \in up /\ holds'[w] = 0 /\ OthersWork(w) /\ (Open' <=> Open) /\ jobs' = jobs
  <1>1. w \in up /\ holds' = [holds EXCEPT ![w] = 0] /\ jobs' = jobs
    BY DEF Queue!Crash
  <1>2. holds \in [Workers -> Nat]
    BY WhoWorks DEF Queue!TypeOK
  <1>3. holds'[w] = 0 /\ \A v \in Workers \ {w} : holds'[v] = holds[v]
    BY <1>1, <1>2
  <1>4. Open' <=> Open
    BY <1>1 DEF Open, Queue!HasOpenJob, Queue!OpenJobs, Queue!JobId
  <1> QED
    BY <1>1, <1>3, <1>4 DEF OthersWork, Locked

\* Processes that leave or return, and leases that run out, change no answer.
LEMMA PoolMoves ==
  ASSUME QueueInv, NEW w \in Workers, Queue!Shutdown(w) \/ Queue!Restart(w)
  PROVE  SameLocks /\ UNCHANGED <<jobs, holds>>
  BY DEF Queue!Shutdown, Queue!Restart, SameLocks, Open, Locked, Queue!HasOpenJob,
         Queue!OpenJobs, Queue!JobId

LEMMA LeaseEnds ==
  ASSUME QueueInv, NEW j \in Queue!JobId, Queue!LeaseRunsOut(j)
  PROVE  /\ Open' <=> Open
         /\ UNCHANGED <<holds, up>> /\ Len(jobs') = Len(jobs)
         /\ \A v \in Workers : Locked(v)' => Locked(v)
  <1>1. j \in QueueProofs!JobId /\ QueueProofs!LeaseRunsOut(j)
    BY SameSteps
  <1> QED
    BY <1>1, QueueProofs!LeaseOpens, LifecycleAssumption, SameQuestions DEF QueueInv

LEMMA LeavesQueue ==
  ASSUME UNCHANGED queueVars
  PROVE  SameLocks /\ UNCHANGED <<jobs, holds, up>>
  BY DEF queueVars, SameLocks, Open, Locked, Queue!HasOpenJob, Queue!OpenJobs, Queue!JobId
-----------------------------------------------------------------------------
(* The part of the invariant that holds under any leases: types, and that  *)
(* whatever a row or a process refers to exists.                           *)

\* A process is in reconcile() exactly while it works on a job.
Engaged == \A w \in Workers : work[w].phase = "idle" <=> holds[w] = 0

\* The releases and power rows that a deployment row refers to exist.
RowInRange(row) ==
  /\ row.desiredRelease <= Len(releases) /\ row.appliedRelease <= Len(releases)
  /\ row.desiredPower <= Len(powers) /\ row.appliedPower <= Len(powers)

\* So do those that a process works with, and it tears down only what is
\* deleted: a deletion is never taken back.
LocalInRange(w) ==
  /\ RowInRange(work[w].row)
  /\ work[w].release <= Len(releases)
  /\ work[w].power <= Len(powers)
  /\ work[w].phase \in {"record", "report"} => work[w].result # "none"
  /\ work[w].row.deletedAt => dep.deletedAt
  /\ work[w].phase \in {"teardown", "namespace"} => dep.deletedAt
  /\ work[w].phase \in {"record", "report"} /\ work[w].result = "deleted" => dep.deletedAt

\* And the desired release is the newest: an update's number is never older.
InRange ==
  /\ RowInRange(dep)
  /\ dep.desiredRelease = Len(releases)
  /\ Len(jobs) > 0 => dep.status # "absent"
  /\ dep.status # "absent" => Len(releases) > 0
  /\ dep.status = "absent" => dep = NoRow /\ releases = << >> /\ powers = << >>
  /\ dep.status \in {"deleting", "deleted"} => dep.deletedAt
  /\ \A w \in Workers : LocalInRange(w)
  /\ \A c \in Requests : /\ api[c].number <= Len(releases) + 1
                         /\ api[c].op # "none" => dep.status # "absent"

Sound == QueueInv /\ TypeOK /\ Engaged /\ InRange

\* The steps of reconcile() before its last transaction.
LocalStep(w) ==
  \/ LoadAndClaimRelease(w) \/ ClaimPower(w) \/ ValidateInputState(w)
  \/ PublishPrerequisites(w) \/ PrerequisiteFails(w)
  \/ HelmUpgrade(w) \/ HelmRollsBack(w)
  \/ AfterUpgradeFails(w) \/ SweepAndReap(w)
  \/ HelmUninstall(w) \/ DeleteNamespace(w) \/ DeleteFails(w)

\* The rows of a process, typed.
LEMMA LocalTyped ==
  ASSUME TypeOK, NEW w \in Workers
  PROVE  /\ work[w] \in Work
         /\ work[w].row \in DeploymentRow
         /\ Seen(w) \in DeploymentRow
         /\ work[w].values \in Nat /\ work[w].release \in Nat /\ work[w].power \in Nat
         /\ work[w].phase \in Phases /\ work[w].expired \in BOOLEAN
         /\ work[w].result \in {"none", "ready", "error", "deleted"}
  BY DEF TypeOK, Work, Seen

\* Marking a row as started, or writing its end, keeps the table typed and as
\* long as it is (_claim_release, _record_release_outcome).
LEMMA RowWritten ==
  ASSUME NEW S, NEW s \in Seq(S), NEW i \in 1 .. Len(s), NEW e \in S
  PROVE  /\ [s EXCEPT ![i] = e] \in Seq(S)
         /\ Len([s EXCEPT ![i] = e]) = Len(s)
         /\ \A j \in 1 .. Len(s) : [s EXCEPT ![i] = e][j] = IF j = i THEN e ELSE s[j]
  BY ExceptSeq

\* Only the start of a row may be recorded.
StartsOnly ==
  /\ releases' \in Seq(Outcome) /\ Len(releases') = Len(releases)
  /\ \A r \in 1 .. Len(releases) :
       /\ releases'[r].outcome = releases[r].outcome
       /\ releases'[r] # releases[r] => r = dep.desiredRelease /\ r # dep.appliedRelease
  /\ powers' \in Seq(PowerRow) /\ Len(powers') = Len(powers)
  /\ \A p \in 1 .. Len(powers) : /\ powers'[p].state = powers[p].state
                                 /\ powers'[p].run.ended = powers[p].run.ended
                                 /\ powers'[p].run.outcome = powers[p].run.outcome

\* _get_deployment_orm and _claim_release.
LEMMA LoadEffect ==
  ASSUME Sound, NEW w \in Workers, LoadAndClaimRelease(w)
  PROVE  /\ StartsOnly
         /\ UNCHANGED <<queueVars, dep, live, secrets, api>>
         /\ work[w].phase = "claimed"
         /\ \A v \in Workers \ {w} : work'[v] = work[v]
         /\ work' \in [Workers -> Work]
         /\ work'[w].phase = IF dep.deletedAt THEN "validate" ELSE "power"
         /\ work'[w].row = dep
         /\ work'[w].values = IF dep.deletedAt THEN 0 ELSE dep.desiredRelease
         /\ work'[w].release = IF ~dep.deletedAt /\ dep.appliedRelease # dep.desiredRelease
                               THEN dep.desiredRelease ELSE 0
         /\ work'[w].power = 0 /\ work'[w].result = "none"
  <1> DEFINE d == dep.desiredRelease
             rollout == ~dep.deletedAt /\ dep.appliedRelease # d
             fresh == rollout /\ ~releases[d].started
             local == [Idle EXCEPT !.phase = IF dep.deletedAt THEN "validate" ELSE "power",
                          !.row = dep,
                          !.expired = fresh,
                          !.values = IF dep.deletedAt THEN 0 ELSE d,
                          !.release = IF rollout THEN d ELSE 0]
  <1>1. /\ work[w].phase = "claimed" /\ work' = [work EXCEPT ![w] = local]
        /\ releases' = IF fresh THEN [releases EXCEPT ![d].started = TRUE] ELSE releases
        /\ UNCHANGED <<queueVars, dep, powers, live, secrets, api>>
    BY DEF LoadAndClaimRelease, At, clusterVars
  <1>2. holds[w] # 0
    BY <1>1 DEF Sound, Engaged
  <1>3. d \in 1 .. Len(releases) /\ releases \in Seq(Outcome) /\ Len(releases) \in Nat
    BY <1>2, WhoWorks, LenProperties DEF Sound, InRange, TypeOK, DeploymentRow
  <1>4. StartsOnly
    <2>1. releases[d] \in Outcome
      BY <1>3, ElementOfSeq
    <2>2. CASE fresh
      <3> DEFINE e == [releases[d] EXCEPT !.started = TRUE]
      <3>1. e \in Outcome /\ e.outcome = releases[d].outcome
        BY <2>1 DEF Outcome
      <3>2. releases' = [releases EXCEPT ![d] = e]
        BY <1>1, <2>2
      <3> HIDE DEF e
      <3>3. /\ releases' \in Seq(Outcome) /\ Len(releases') = Len(releases)
            /\ \A j \in 1 .. Len(releases) : releases'[j] = IF j = d THEN e ELSE releases[j]
        BY <1>3, <3>1, <3>2, RowWritten
      <3> QED
        BY <1>1, <2>2, <3>1, <3>3 DEF StartsOnly, Sound, TypeOK
    <2>3. CASE ~fresh
      BY <1>1, <2>3 DEF StartsOnly, Sound, TypeOK
    <2> QED
      BY <2>2, <2>3
  <1>5. local \in Work
    BY DEF Sound, TypeOK, DeploymentRow, Work, Idle, Phases
  <1>6. work \in [Workers -> Work]
    BY DEF Sound, TypeOK
  <1>7. /\ local.phase = IF dep.deletedAt THEN "validate" ELSE "power"
        /\ local.row = dep
        /\ local.values = IF dep.deletedAt THEN 0 ELSE d
        /\ local.release = IF rollout THEN d ELSE 0
        /\ local.power = 0 /\ local.result = "none"
    BY DEF Idle
  <1> HIDE DEF local
  <1> QED
    BY <1>1, <1>4, <1>5, <1>6, <1>7

\* _claim_power.
LEMMA PowerEffect ==
  ASSUME Sound, NEW w \in Workers, ClaimPower(w)
  PROVE  /\ StartsOnly
         /\ UNCHANGED <<queueVars, dep, live, secrets, api>>
         /\ releases' = releases
         /\ work[w].phase = "power"
         /\ \A v \in Workers \ {w} : work'[v] = work[v]
         /\ work' \in [Workers -> Work]
         /\ work'[w].phase = "validate"
         /\ work'[w].row = Seen(w)
         /\ work'[w].values = work[w].values
         /\ work'[w].release = work[w].release
         /\ work'[w].power = IF Seen(w).desiredPower # Seen(w).appliedPower
                             THEN Seen(w).desiredPower ELSE 0
         /\ work'[w].result = work[w].result
  <1> DEFINE p == Seen(w).desiredPower
             change == p # 0 /\ p # Seen(w).appliedPower
             fresh == change /\ ~powers[p].run.started
             local == [work[w] EXCEPT !.phase = "validate",
                                      !.row = Seen(w),
                                      !.expired = fresh,
                                      !.power = IF change THEN p ELSE 0]
  <1>1. /\ work[w].phase = "power" /\ work' = [work EXCEPT ![w] = local]
        /\ powers' = IF fresh THEN [powers EXCEPT ![p].run.started = TRUE] ELSE powers
        /\ UNCHANGED <<queueVars, dep, releases, live, secrets, api>>
    BY DEF ClaimPower, At, clusterVars
  <1>2. powers \in Seq(PowerRow) /\ Len(powers) \in Nat /\ Seen(w) \in DeploymentRow
    BY LocalTyped, LenProperties DEF Sound, TypeOK
  <1>3. p # 0 => p \in 1 .. Len(powers)
    BY <1>2 DEF Sound, InRange, LocalInRange, RowInRange, Seen, DeploymentRow
  <1>4. StartsOnly
    <2>1. CASE fresh
      <3> DEFINE e == [powers[p] EXCEPT !.run.started = TRUE]
      <3>1. powers[p] \in PowerRow
        BY <1>2, <1>3, <2>1, ElementOfSeq
      <3>2. /\ e \in PowerRow /\ e.state = powers[p].state
            /\ e.run.ended = powers[p].run.ended /\ e.run.outcome = powers[p].run.outcome
        BY <3>1 DEF PowerRow, Outcome
      <3>3. powers' = [powers EXCEPT ![p] = e]
        BY <1>1, <2>1
      <3> HIDE DEF e
      <3>4. /\ powers' \in Seq(PowerRow) /\ Len(powers') = Len(powers)
            /\ \A j \in 1 .. Len(powers) : powers'[j] = IF j = p THEN e ELSE powers[j]
        BY <1>2, <1>3, <2>1, <3>2, <3>3, RowWritten
      <3> QED
        BY <1>1, <3>2, <3>4 DEF StartsOnly, Sound, TypeOK
    <2>2. CASE ~fresh
      BY <1>1, <2>2 DEF StartsOnly, Sound, TypeOK
    <2> QED
      BY <2>1, <2>2
  <1>5. local \in Work
    <2>1. fresh \in BOOLEAN /\ p \in Nat
      BY <1>2 DEF DeploymentRow
    <2>2. (IF change THEN p ELSE 0) \in Nat
      BY <2>1
    <2> HIDE DEF fresh, change
    <2> QED
      BY <1>2, <2>1, <2>2, LocalTyped DEF Sound, Work, Phases
  <1>6. work \in [Workers -> Work]
    BY DEF Sound, TypeOK
  <1>7. /\ local.phase = "validate"
        /\ local.row = Seen(w)
        /\ local.values = work[w].values
        /\ local.release = work[w].release
        /\ local.power = IF p # Seen(w).appliedPower THEN p ELSE 0
        /\ local.result = work[w].result
    BY LocalTyped DEF Sound, Work
  <1> HIDE DEF local
  <1> QED
    BY <1>1, <1>4, <1>5, <1>6, <1>7

\* The steps after the claims change the cluster and the process's own state:
\* neither the tables nor what the process renders and will record.
CallStep(w) ==
  \/ ValidateInputState(w)
  \/ PublishPrerequisites(w) \/ PrerequisiteFails(w)
  \/ HelmUpgrade(w) \/ HelmRollsBack(w)
  \/ AfterUpgradeFails(w) \/ SweepAndReap(w)
  \/ HelmUninstall(w) \/ DeleteNamespace(w) \/ DeleteFails(w)

\* The calls on which reconcile() gives up.
Fails(w) == PrerequisiteFails(w) \/ HelmRollsBack(w) \/ AfterUpgradeFails(w) \/ DeleteFails(w)

LEMMA CallEffect ==
  ASSUME Sound, NEW w \in Workers, CallStep(w)
  PROVE  /\ UNCHANGED <<queueVars, rowVars, api>>
         /\ \A v \in Workers \ {w} : work'[v] = work[v]
         /\ work' \in [Workers -> Work]
         /\ work[w].phase \in {"validate", "publish", "helm", "sweep", "teardown", "namespace"}
         /\ work'[w].phase \in {"publish", "helm", "sweep", "teardown", "namespace", "record"}
         /\ work'[w].row \in {work[w].row, Seen(w)}
         /\ Seen(w)' \in {dep, Seen(w)}
         /\ work'[w].values = work[w].values
         /\ work'[w].release = work[w].release
         /\ work'[w].power = work[w].power
         /\ work'[w].phase = "record" => work'[w].result # "none"
         /\ work'[w].phase = "teardown" => Seen(w).deletedAt
         /\ work'[w].phase = "namespace" => work[w].phase = "teardown"
         /\ work'[w].phase = "record" /\ work'[w].result = "deleted" =>
              work[w].phase = "namespace"
         /\ live' \in [release : Nat, power : PowerStates]
         /\ secrets' \in SUBSET Nat
  <1> DEFINE Local(l) == /\ work' = [work EXCEPT ![w] = l]
                         /\ l \in Work
                         /\ l.phase \in {"publish", "helm", "sweep", "teardown", "namespace", "record"}
                         /\ l.row \in {work[w].row, Seen(w)}
                         /\ ~l.expired => l.row \in {dep, Seen(w)}
                         /\ l.values = work[w].values /\ l.release = work[w].release
                         /\ l.power = work[w].power
                         /\ l.phase = "record" => l.result # "none"
                         /\ l.phase = "teardown" => Seen(w).deletedAt
                         /\ l.phase = "namespace" => work[w].phase = "teardown"
                         /\ l.phase = "record" /\ l.result = "deleted" =>
                              work[w].phase = "namespace"
  <1>1. /\ work[w] \in Work /\ Seen(w) \in DeploymentRow /\ work \in [Workers -> Work]
        /\ work[w].values \in Nat
        /\ live \in [release : Nat, power : PowerStates] /\ secrets \in SUBSET Nat
        /\ dep \in DeploymentRow
    BY LocalTyped DEF Sound, TypeOK
  <1>2. /\ UNCHANGED <<queueVars, rowVars, api>>
        /\ work[w].phase \in {"validate", "publish", "helm", "sweep", "teardown", "namespace"}
    BY DEF CallStep, ValidateInputState, PublishPrerequisites, PrerequisiteFails, HelmUpgrade,
           HelmRollsBack, AfterUpgradeFails, SweepAndReap, HelmUninstall, DeleteNamespace,
           DeleteFails, At
  <1>3. \E l : Local(l)
    <2>1. CASE ValidateInputState(w)
      <3> DEFINE pending == [work[w] EXCEPT !.row = Seen(w), !.expired = FALSE,
                                            !.phase = "record", !.result = "error"]
                 path(ph) == [work[w] EXCEPT !.row = Seen(w), !.expired = FALSE, !.phase = ph]
      <3>1. \/ work' = [work EXCEPT ![w] = pending]
            \/ work' = [work EXCEPT ![w] = path("teardown")] /\ Seen(w).deletedAt
            \/ work' = [work EXCEPT ![w] = path("publish")]
        BY <1>1, <2>1 DEF ValidateInputState, Work
      <3>2. CASE work' = [work EXCEPT ![w] = pending]
        <4>1. Local(pending)
          BY <1>1, <3>2 DEF Work, Phases
        <4> QED
          BY <4>1
      <3>3. ASSUME NEW ph \in {"teardown", "publish"}, work' = [work EXCEPT ![w] = path(ph)],
                   ph = "teardown" => Seen(w).deletedAt
            PROVE  \E l : Local(l)
        <4>1. Local(path(ph))
          BY <1>1, <3>3 DEF Work, Phases
        <4> QED
          BY <4>1
      <3> QED
        BY <3>1, <3>2, <3>3
    <2>2. CASE PublishPrerequisites(w) \/ HelmUninstall(w)
      <3>1. PICK e \in AfterDatabaseStep(w), ph \in {"helm", "namespace"} :
              /\ work' = [work EXCEPT ![w].phase = ph, ![w].expired = e]
              /\ ph = "namespace" => work[w].phase = "teardown"
        BY <2>2 DEF PublishPrerequisites, HelmUninstall, At
      <3>2. e \in BOOLEAN /\ (~e => ~work[w].expired)
        BY <1>1, <3>1 DEF AfterDatabaseStep, Work
      <3> DEFINE l == [work[w] EXCEPT !.phase = ph, !.expired = e]
      <3>3. work' = [work EXCEPT ![w] = l]
        BY <1>1, <3>1
      <3>4. Local(l)
        BY <1>1, <3>1, <3>2, <3>3 DEF Work, Phases, Seen
      <3> QED
        BY <3>4
    <2>3. CASE HelmUpgrade(w)
      <3> DEFINE l == [work[w] EXCEPT !.phase = "sweep", !.row = Seen(w), !.expired = FALSE]
      <3>1. Local(l)
        BY <1>1, <2>3 DEF HelmUpgrade, Work, Phases
      <3> QED
        BY <3>1
    <2>4. CASE Fails(w) \/ SweepAndReap(w) \/ DeleteNamespace(w)
      <3>1. PICK r \in {"error", "ready", "deleted"} :
              /\ work' = [work EXCEPT ![w] = Result(w, r)]
              /\ r = "deleted" => work[w].phase = "namespace"
        BY <2>4 DEF Fails, SweepAndReap, DeleteNamespace, PrerequisiteFails, HelmRollsBack,
                    AfterUpgradeFails, DeleteFails, At
      <3>2. Local(Result(w, r))
        BY <1>1, <3>1 DEF Result, Work, Phases, Seen
      <3> QED
        BY <3>2
    <2> QED
      BY <2>1, <2>2, <2>3, <2>4 DEF CallStep, Fails
  <1>4. PICK l : Local(l)
    BY <1>3
  <1>5. work'[w] = l /\ \A v \in Workers \ {w} : work'[v] = work[v]
    BY <1>1, <1>4
  <1>6. Seen(w)' \in {dep, Seen(w)}
    BY <1>2, <1>4, <1>5 DEF Seen, rowVars
  <1>7. /\ live' \in [release : Nat, power : PowerStates]
        /\ secrets' \in SUBSET Nat
    <2>1. \A p \in Nat : p <= Len(powers) => PowerOf(p) \in PowerStates
      <3>1. powers \in Seq(PowerRow) /\ Len(powers) \in Nat
        BY LenProperties DEF Sound, TypeOK
      <3>2. \A p \in 1 .. Len(powers) : powers[p] \in PowerRow
        BY <3>1, ElementOfSeq
      <3> QED
        BY <3>1, <3>2 DEF PowerOf, PowerStates, PowerRow
    <2>2. PowerOf(Seen(w).desiredPower) \in PowerStates
      BY <1>1, <2>1 DEF Sound, InRange, LocalInRange, RowInRange, Seen, DeploymentRow
    <2>3. NothingLive \in [release : Nat, power : PowerStates]
      BY DEF NothingLive, PowerStates
    <2> QED
      BY <1>1, <2>2, <2>3
      DEF CallStep, ValidateInputState, PublishPrerequisites, PrerequisiteFails, HelmUpgrade,
          HelmRollsBack, AfterUpgradeFails, SweepAndReap, HelmUninstall, DeleteNamespace,
          DeleteFails, clusterVars
  <1> QED
    BY <1>1, <1>2, <1>4, <1>5, <1>6, <1>7

\* What every step of reconcile() before its last transaction leaves alone:
\* the deployment row, the queue, the requests, and all of the tables but the
\* record that a row was started.
LEMMA LocalEffect ==
  ASSUME Sound, NEW w \in Workers, LocalStep(w)
  PROVE  /\ StartsOnly
         /\ UNCHANGED <<queueVars, dep, api>>
         /\ \A v \in Workers \ {w} : work'[v] = work[v]
         /\ work' \in [Workers -> Work]
         /\ work[w].phase \notin {"idle", "record", "report"}
         /\ work'[w].phase \notin {"idle", "claimed", "report"}
         /\ RowInRange(work'[w].row)
         /\ work'[w].release <= Len(releases) /\ work'[w].power <= Len(powers)
         /\ work'[w].phase = "record" => work'[w].result # "none"
         /\ work'[w].row.deletedAt => dep.deletedAt
         /\ work'[w].phase \in {"teardown", "namespace"} => dep.deletedAt
         /\ work'[w].phase = "record" /\ work'[w].result = "deleted" => dep.deletedAt
         /\ Seen(w)' \in {dep, Seen(w)}
         /\ work[w].phase = "claimed" => Seen(w)' = dep
         /\ live' \in [release : Nat, power : PowerStates]
         /\ secrets' \in SUBSET Nat
  <1>1. /\ dep \in DeploymentRow /\ Seen(w) \in DeploymentRow /\ work[w] \in Work
        /\ live \in [release : Nat, power : PowerStates] /\ secrets \in SUBSET Nat
        /\ releases \in Seq(Outcome) /\ powers \in Seq(PowerRow)
        /\ Len(releases) \in Nat /\ Len(powers) \in Nat
    BY LocalTyped, LenProperties DEF Sound, TypeOK
  <1>2. /\ RowInRange(dep) /\ RowInRange(Seen(w)) /\ LocalInRange(w)
        /\ RowInRange(work[w].row)
        /\ Seen(w).deletedAt \/ work[w].row.deletedAt => dep.deletedAt
        /\ work[w].phase \in {"teardown", "namespace"} => dep.deletedAt
    <2>1. RowInRange(dep) /\ LocalInRange(w)
      BY DEF Sound, InRange
    <2> QED
      BY <2>1 DEF LocalInRange, Seen
  <1>3. CASE LoadAndClaimRelease(w)
    <2>1. /\ work'[w].row = dep /\ work'[w].power = 0
          /\ work'[w].release \in {0, dep.desiredRelease}
      BY <1>3, LoadEffect
    <2>2. Seen(w)' = dep
      BY <1>3, <2>1, LoadEffect DEF Seen
    <2>3. work'[w].release <= Len(releases) /\ work'[w].power <= Len(powers)
      BY <1>1, <1>2, <2>1 DEF RowInRange
    <2> QED
      BY <1>1, <1>2, <1>3, <2>1, <2>2, <2>3, LoadEffect
  <1>4. CASE ClaimPower(w)
    <2>1. /\ work'[w].row = Seen(w) /\ work'[w].release = work[w].release
          /\ work'[w].power \in {0, Seen(w).desiredPower}
      BY <1>4, PowerEffect
    <2>2. Seen(w)' \in {dep, Seen(w)}
      BY <1>4, <2>1, PowerEffect DEF Seen
    <2>3. work'[w].release <= Len(releases) /\ work'[w].power <= Len(powers)
      BY <1>1, <1>2, <2>1 DEF RowInRange, LocalInRange
    <2> QED
      BY <1>1, <1>2, <1>4, <2>1, <2>2, <2>3, PowerEffect
  <1>5. CASE CallStep(w)
    <2>1. StartsOnly
      BY <1>1, <1>5, CallEffect DEF StartsOnly, rowVars
    <2> QED
      BY <1>2, <1>5, <2>1, CallEffect DEF LocalInRange, rowVars
  <1> QED
    BY <1>3, <1>4, <1>5 DEF LocalStep, CallStep

\* SQLAlchemy's flush writes a typed row over a typed row.
LEMMA FlushedFields ==
  ASSUME dep \in DeploymentRow, NEW loaded \in DeploymentRow, NEW new \in DeploymentRow
  PROVE  LET row == Flushed(loaded, new)
         IN /\ row \in DeploymentRow
            /\ row.status = IF new.status # loaded.status THEN new.status ELSE dep.status
            /\ row.deletedAt = IF new.deletedAt # loaded.deletedAt THEN new.deletedAt
                               ELSE dep.deletedAt
            /\ row.desiredRelease = IF new.desiredRelease # loaded.desiredRelease
                                    THEN new.desiredRelease ELSE dep.desiredRelease
            /\ row.appliedRelease = IF new.appliedRelease # loaded.appliedRelease
                                    THEN new.appliedRelease ELSE dep.appliedRelease
            /\ row.desiredPower = IF new.desiredPower # loaded.desiredPower
                                  THEN new.desiredPower ELSE dep.desiredPower
            /\ row.appliedPower = IF new.appliedPower # loaded.appliedPower
                                  THEN new.appliedPower ELSE dep.appliedPower
  BY DEF Flushed, DeploymentRow

\* The end of a row, field by field (_record_release_outcome).
LEMMA EndedFields ==
  ASSUME NEW run \in Outcome, NEW ok
  PROVE  /\ Ended(run, ok) \in Outcome
         /\ Ended(run, ok).ended = run.ended + 1
         /\ Ended(run, ok).outcome = IF ok THEN "ok" ELSE "failed"
  <1>1. run.ended + 1 \in Nat
    BY DEF Outcome
  <1>2. (IF ok THEN "ok" ELSE "failed") \in {"none", "ok", "failed"}
    OBVIOUS
  <1> QED
    BY <1>1, <1>2 DEF Ended, Outcome

\* A recorded outcome: the status and the pointers that reconcile() changed
\* over the row it saw, and one more end on the rows it worked on.
LEMMA RecordEffect ==
  ASSUME Sound, NEW w \in Workers, RecordOutcome(w)
  PROVE  /\ UNCHANGED <<queueVars, live, secrets, api>>
         /\ work[w].phase = "record" /\ work[w].result # "none"
         /\ \A v \in Workers \ {w} : work'[v] = work[v]
         /\ work' \in [Workers -> Work]
         /\ work'[w].phase = "report" /\ work'[w].result = work[w].result
         /\ work'[w].row = work[w].row
         /\ work'[w].release = work[w].release /\ work'[w].power = work[w].power
         /\ dep' \in DeploymentRow
         /\ dep'.deletedAt = dep.deletedAt /\ dep'.desiredRelease = dep.desiredRelease
         /\ dep'.status = IF work[w].result # Seen(w).status THEN work[w].result ELSE dep.status
         /\ dep'.appliedRelease = IF /\ work[w].result = "ready" /\ work[w].release # 0
                                     /\ work[w].release # Seen(w).appliedRelease
                                  THEN work[w].release ELSE dep.appliedRelease
         /\ dep'.appliedPower = IF /\ work[w].result = "ready" /\ work[w].power # 0
                                   /\ work[w].power # Seen(w).appliedPower
                                THEN work[w].power ELSE dep.appliedPower
         /\ dep'.desiredPower = IF /\ work[w].result # "ready" /\ work[w].power # 0
                                   /\ Seen(w).appliedPower # Seen(w).desiredPower
                                THEN Seen(w).appliedPower ELSE dep.desiredPower
         /\ releases' \in Seq(Outcome) /\ Len(releases') = Len(releases)
         /\ \A r \in 1 .. Len(releases) :
              releases'[r] = IF r = work[w].release
                             THEN Ended(releases[r], work[w].result # "error") ELSE releases[r]
         /\ powers' \in Seq(PowerRow) /\ Len(powers') = Len(powers)
         /\ \A p \in 1 .. Len(powers) :
              /\ powers'[p].state = powers[p].state
              /\ powers'[p].run = IF p = work[w].power
                                  THEN Ended(powers[p].run, work[w].result # "error")
                                  ELSE powers[p].run
  <1> DEFINE ok == work[w].result # "error"
  <1>1. /\ UNCHANGED <<queueVars, live, secrets, api>> /\ work[w].phase = "record"
        /\ dep' = Flushed(Seen(w), RecordedRow(w))
        /\ releases' = IF work[w].release = 0 THEN releases
                       ELSE [releases EXCEPT ![work[w].release] = Ended(@, ok)]
        /\ powers' = IF work[w].power = 0 THEN powers
                     ELSE [powers EXCEPT ![work[w].power].run = Ended(@, ok)]
        /\ work' = [work EXCEPT ![w].phase = "report"]
    BY DEF RecordOutcome, At, clusterVars, Goto
  <1>2. /\ dep \in DeploymentRow /\ Seen(w) \in DeploymentRow /\ work[w] \in Work
        /\ work \in [Workers -> Work]
        /\ releases \in Seq(Outcome) /\ powers \in Seq(PowerRow)
        /\ Len(releases) \in Nat /\ Len(powers) \in Nat
        /\ work[w].release \in Nat /\ work[w].power \in Nat
    BY LocalTyped, LenProperties DEF Sound, TypeOK
  <1>3. /\ work[w].release # 0 => work[w].release \in 1 .. Len(releases)
        /\ work[w].power # 0 => work[w].power \in 1 .. Len(powers)
        /\ work[w].result # "none" /\ work[w].result \in {"ready", "error", "deleted"}
    BY <1>1, <1>2, LocalTyped DEF Sound, InRange, LocalInRange
  <1>4. /\ work' \in [Workers -> Work]
        /\ \A v \in Workers \ {w} : work'[v] = work[v]
        /\ work'[w].phase = "report" /\ work'[w].result = work[w].result
        /\ work'[w].row = work[w].row
        /\ work'[w].release = work[w].release /\ work'[w].power = work[w].power
    <2> DEFINE l == [work[w] EXCEPT !.phase = "report"]
    <2>1. work' = [work EXCEPT ![w] = l]
      BY <1>1, <1>2
    <2>2. /\ l \in Work /\ l.phase = "report" /\ l.result = work[w].result
          /\ l.row = work[w].row /\ l.release = work[w].release /\ l.power = work[w].power
      BY <1>2 DEF Work, Phases
    <2> HIDE DEF l
    <2> QED
      BY <1>2, <2>1, <2>2
  <1>5. /\ RecordedRow(w) \in DeploymentRow
        /\ RecordedRow(w).status = work[w].result
        /\ RecordedRow(w).deletedAt = Seen(w).deletedAt
        /\ RecordedRow(w).desiredRelease = Seen(w).desiredRelease
        /\ RecordedRow(w).appliedRelease =
             IF work[w].result = "ready" /\ work[w].release # 0 THEN work[w].release
             ELSE Seen(w).appliedRelease
        /\ RecordedRow(w).appliedPower =
             IF work[w].result = "ready" /\ work[w].power # 0 THEN work[w].power
             ELSE Seen(w).appliedPower
        /\ RecordedRow(w).desiredPower =
             IF work[w].result # "ready" /\ work[w].power # 0 THEN Seen(w).appliedPower
             ELSE Seen(w).desiredPower
    BY <1>2, <1>3 DEF RecordedRow, DeploymentRow, Status
  <1>6. /\ dep' \in DeploymentRow
        /\ dep'.deletedAt = dep.deletedAt /\ dep'.desiredRelease = dep.desiredRelease
        /\ dep'.status = IF work[w].result # Seen(w).status THEN work[w].result ELSE dep.status
        /\ dep'.appliedRelease = IF /\ work[w].result = "ready" /\ work[w].release # 0
                                    /\ work[w].release # Seen(w).appliedRelease
                                 THEN work[w].release ELSE dep.appliedRelease
        /\ dep'.appliedPower = IF /\ work[w].result = "ready" /\ work[w].power # 0
                                  /\ work[w].power # Seen(w).appliedPower
                               THEN work[w].power ELSE dep.appliedPower
        /\ dep'.desiredPower = IF /\ work[w].result # "ready" /\ work[w].power # 0
                                  /\ Seen(w).appliedPower # Seen(w).desiredPower
                               THEN Seen(w).appliedPower ELSE dep.desiredPower
    <2> DEFINE new == RecordedRow(w)
               loaded == Seen(w)
    <2>1. dep' = Flushed(loaded, new) /\ new \in DeploymentRow /\ loaded \in DeploymentRow
      BY <1>1, <1>2, <1>5
    <2> HIDE DEF new, loaded
    <2>2. /\ dep' \in DeploymentRow
          /\ dep'.status = IF new.status # loaded.status THEN new.status ELSE dep.status
          /\ dep'.deletedAt = IF new.deletedAt # loaded.deletedAt THEN new.deletedAt
                              ELSE dep.deletedAt
          /\ dep'.desiredRelease = IF new.desiredRelease # loaded.desiredRelease
                                   THEN new.desiredRelease ELSE dep.desiredRelease
          /\ dep'.appliedRelease = IF new.appliedRelease # loaded.appliedRelease
                                   THEN new.appliedRelease ELSE dep.appliedRelease
          /\ dep'.desiredPower = IF new.desiredPower # loaded.desiredPower
                                 THEN new.desiredPower ELSE dep.desiredPower
          /\ dep'.appliedPower = IF new.appliedPower # loaded.appliedPower
                                 THEN new.appliedPower ELSE dep.appliedPower
      BY <1>2, <2>1, FlushedFields
    <2> QED
      BY <1>5, <2>2 DEF new, loaded
  <1>7. /\ releases' \in Seq(Outcome) /\ Len(releases') = Len(releases)
        /\ \A r \in 1 .. Len(releases) :
             releases'[r] = IF r = work[w].release THEN Ended(releases[r], ok) ELSE releases[r]
    <2>1. CASE work[w].release = 0
      BY <1>1, <1>2, <2>1
    <2>2. CASE work[w].release # 0
      <3> DEFINE i == work[w].release
                 e == Ended(releases[i], ok)
      <3>1. i \in 1 .. Len(releases) /\ releases[i] \in Outcome
        BY <1>2, <1>3, <2>2, ElementOfSeq
      <3>2. e \in Outcome
        BY <3>1, EndedFields
      <3>3. releases' = [releases EXCEPT ![i] = e]
        BY <1>1, <2>2
      <3> HIDE DEF e
      <3>4. /\ releases' \in Seq(Outcome) /\ Len(releases') = Len(releases)
            /\ \A r \in 1 .. Len(releases) : releases'[r] = IF r = i THEN e ELSE releases[r]
        BY <1>2, <3>1, <3>2, <3>3, RowWritten
      <3> QED
        BY <3>4 DEF e
    <2> QED
      BY <2>1, <2>2
  <1>8. /\ powers' \in Seq(PowerRow) /\ Len(powers') = Len(powers)
        /\ \A p \in 1 .. Len(powers) :
             /\ powers'[p].state = powers[p].state
             /\ powers'[p].run = IF p = work[w].power THEN Ended(powers[p].run, ok)
                                 ELSE powers[p].run
    <2>1. CASE work[w].power = 0
      BY <1>1, <1>2, <2>1
    <2>2. CASE work[w].power # 0
      <3> DEFINE i == work[w].power
                 e == [powers[i] EXCEPT !.run = Ended(powers[i].run, ok)]
      <3>1. i \in 1 .. Len(powers) /\ powers[i] \in PowerRow
        BY <1>2, <1>3, <2>2, ElementOfSeq
      <3>2. /\ e \in PowerRow /\ e.state = powers[i].state
            /\ e.run = Ended(powers[i].run, ok)
        <4>1. Ended(powers[i].run, ok) \in Outcome
          BY <3>1, EndedFields DEF PowerRow
        <4> QED
          BY <3>1, <4>1 DEF PowerRow
      <3>3. powers' = [powers EXCEPT ![i] = e]
        BY <1>1, <2>2
      <3> HIDE DEF e
      <3>4. /\ powers' \in Seq(PowerRow) /\ Len(powers') = Len(powers)
            /\ \A p \in 1 .. Len(powers) : powers'[p] = IF p = i THEN e ELSE powers[p]
        BY <1>2, <3>1, <3>2, <3>3, RowWritten
      <3> QED
        BY <3>2, <3>4
    <2> QED
      BY <2>1, <2>2
  <1> QED
    BY <1>1, <1>3, <1>4, <1>6, <1>7, <1>8
-----------------------------------------------------------------------------
(* Every step keeps the sound part of the invariant.                       *)

\* Whatever uses the queue as it prescribes keeps the queue's invariant.
LEMMA QueueKeeps ==
  ASSUME QueueInv, Queue!Next \/ UNCHANGED queueVars
  PROVE  QueueInv' /\ Queue!TypeOK'
  <1>1. [QueueProofs!Next]_(QueueProofs!queueVars)
    BY SameQueue DEF queueVars, QueueProofs!queueVars
  <1>2. QueueInv'
    BY <1>1, QueueProofs!NextKeeps, LifecycleAssumption DEF QueueInv
  <1>3. Queue!TypeOK'
    BY <1>2 DEF QueueInv, QueueProofs!QueueInv, QueueProofs!TypeOK, Queue!TypeOK,
                QueueProofs!JobRow, Queue!JobRow
  <1> QED
    BY <1>2, <1>3

\* The lengths of the tables are numbers.
LEMMA Lengths ==
  ASSUME TypeOK
  PROVE  Len(releases) \in Nat /\ Len(powers) \in Nat /\ Len(jobs) \in Nat
  BY LenProperties DEF TypeOK, Queue!TypeOK

\* Of the processes only w moved, and the tables kept their lengths.
LEMMA OneMoved ==
  ASSUME Sound, NEW w \in Workers,
         \A v \in Workers \ {w} : work'[v] = work[v],
         Len(releases') = Len(releases), Len(powers') = Len(powers),
         dep'.deletedAt = dep.deletedAt,
         LocalInRange(w)'
  PROVE  \A v \in Workers : LocalInRange(v)'
  BY DEF Sound, InRange, LocalInRange, RowInRange

LEMMA LocalKeepsSound ==
  ASSUME Sound, NEW w \in Workers, LocalStep(w)
  PROVE  Sound'
  <1>1. /\ QueueInv' /\ Queue!TypeOK' /\ jobs' = jobs /\ holds' = holds
    BY LocalEffect, QueueKeeps DEF Sound, queueVars
  <1>2. TypeOK'
    BY <1>1, LocalEffect DEF Sound, TypeOK, StartsOnly
  <1>3. Engaged'
    BY <1>1, LocalEffect DEF Sound, Engaged
  <1>4. LocalInRange(w)'
    BY LocalEffect DEF LocalInRange, RowInRange, StartsOnly
  <1>5. \A v \in Workers : LocalInRange(v)'
    BY <1>4, LocalEffect, OneMoved DEF StartsOnly
  <1>6. dep.status # "absent"
    BY LocalEffect, WhoWorks DEF Sound, Engaged, InRange
  <1>7. InRange'
    BY <1>1, <1>5, <1>6, LocalEffect DEF Sound, InRange, RowInRange, StartsOnly
  <1> QED
    BY <1>1, <1>2, <1>3, <1>7 DEF Sound

LEMMA RecordKeepsSound ==
  ASSUME Sound, NEW w \in Workers, RecordOutcome(w)
  PROVE  Sound'
  <1>1. QueueInv' /\ Queue!TypeOK' /\ jobs' = jobs /\ holds' = holds
    BY RecordEffect, QueueKeeps DEF Sound, queueVars
  <1>2. TypeOK'
    BY <1>1, RecordEffect DEF Sound, TypeOK
  <1>3. Engaged'
    BY <1>1, RecordEffect DEF Sound, Engaged
  <1>4. RowInRange(dep) /\ RowInRange(Seen(w)) /\ LocalInRange(w)
    BY DEF Sound, InRange, LocalInRange, Seen
  <1>5. RowInRange(dep)' /\ LocalInRange(w)'
    BY <1>4, RecordEffect DEF RowInRange, LocalInRange
  <1>6. \A v \in Workers : LocalInRange(v)'
    BY <1>5, RecordEffect, OneMoved
  <1>7. /\ dep'.status # "absent" /\ dep.status # "absent"
        /\ dep'.status = "deleting" => dep.status = "deleting"
    <2>1. work[w].result \in {"ready", "error", "deleted"}
      BY RecordEffect, LocalTyped DEF Sound
    <2>2. dep.status # "absent"
      BY RecordEffect, WhoWorks DEF Sound, Engaged, InRange
    <2> QED
      BY <2>1, <2>2, RecordEffect
  <1>8. dep'.status = "deleted" => dep'.deletedAt
    <2>1. dep.status = "deleted" => dep.deletedAt
      BY DEF Sound, InRange
    <2>2. work[w].phase = "record" /\ work[w].result = "deleted" => dep.deletedAt
      BY <1>4 DEF LocalInRange
    <2> QED
      BY <2>1, <2>2, RecordEffect
  <1>9. InRange'
    BY <1>1, <1>5, <1>6, <1>7, <1>8, RecordEffect DEF Sound, InRange
  <1> QED
    BY <1>1, <1>2, <1>3, <1>9 DEF Sound

\* The initial state is sound.
LEMMA InitSound == Init => Sound
  <1> SUFFICES ASSUME Init PROVE Sound
    OBVIOUS
  <1>1. QueueInv
    BY SameQueue, QueueProofs!InitEstablishes, LifecycleAssumption DEF Init, QueueInv
  <1>2. TypeOK
    BY <1>1, WhoWorks
    DEF Init, TypeOK, NoRow, DeploymentRow, Status, NothingLive, PowerStates, Idle, Work,
        Phases, NoRequest, Request
  <1>3. Engaged
    BY DEF Init, Engaged, Queue!Init, Idle
  <1>4. InRange
    BY DEF Init, InRange, RowInRange, LocalInRange, Queue!Init, NoRow, Idle, NoRequest
  <1> QED
    BY <1>1, <1>2, <1>3, <1>4 DEF Sound

\* An idle process is typed and refers to nothing.
LEMMA IdleRow ==
  /\ Idle \in Work /\ Idle.phase = "idle" /\ Idle.row = NoRow /\ Idle.result = "none"
  /\ Idle.release = 0 /\ Idle.power = 0
  /\ NoRow.desiredRelease = 0 /\ NoRow.appliedRelease = 0 /\ NoRow.desiredPower = 0
  /\ NoRow.appliedPower = 0 /\ ~NoRow.deletedAt /\ NoRow.status = "absent"
  BY DEF Idle, Work, Phases, NoRow, DeploymentRow, Status

\* A process that takes up or puts down a job: its claim, its report, its
\* death.  The tables and the cluster are left alone.
LEMMA TurnsSound ==
  ASSUME Sound, NEW w \in Workers,
         Queue!Next, OthersWork(w), Len(jobs') > 0 => Len(jobs) > 0,
         UNCHANGED <<rowVars, clusterVars, api>>,
         \/ work' = [work EXCEPT ![w] = Idle] /\ holds'[w] = 0
         \/ work[w].phase = "idle" /\ Goto(w, "claimed") /\ holds'[w] # 0
  PROVE  Sound'
  <1>1. QueueInv' /\ Queue!TypeOK'
    BY QueueKeeps DEF Sound
  <1>2. /\ work \in [Workers -> Work] /\ work[w] \in Work
        /\ Len(releases) \in Nat /\ Len(powers) \in Nat
    BY LocalTyped, Lengths DEF Sound, TypeOK
  <1>3. PICK l \in Work :
          /\ work' = [work EXCEPT ![w] = l]
          /\ l.phase \in {"idle", "claimed"} /\ (l.phase = "idle" <=> holds'[w] = 0)
          /\ l.row \in {NoRow, work[w].row}
          /\ l.release \in {0, work[w].release} /\ l.power \in {0, work[w].power}
    <2>1. CASE work' = [work EXCEPT ![w] = Idle] /\ holds'[w] = 0
      BY <2>1, IdleRow
    <2>2. CASE work[w].phase = "idle" /\ Goto(w, "claimed") /\ holds'[w] # 0
      <3> DEFINE l == [work[w] EXCEPT !.phase = "claimed"]
      <3>1. work' = [work EXCEPT ![w] = l]
        BY <1>2, <2>2 DEF Goto
      <3>2. /\ l \in Work /\ l.phase = "claimed" /\ l.row = work[w].row
            /\ l.release = work[w].release /\ l.power = work[w].power
        BY <1>2 DEF Work, Phases
      <3> QED
        BY <2>2, <3>1, <3>2
    <2> QED
      BY <2>1, <2>2
  <1>4. work'[w] = l /\ \A v \in Workers \ {w} : work'[v] = work[v]
    BY <1>2, <1>3
  <1>5. TypeOK'
    BY <1>1, <1>2, <1>3 DEF Sound, TypeOK, rowVars, clusterVars
  <1>6. Engaged'
    BY <1>3, <1>4 DEF Sound, Engaged, OthersWork
  <1>7. LocalInRange(w)'
    <2>1. LocalInRange(w)
      BY DEF Sound, InRange
    <2> QED
      BY <1>2, <1>3, <1>4, <2>1, IdleRow DEF LocalInRange, RowInRange, rowVars
  <1>8. \A v \in Workers : LocalInRange(v)'
    BY <1>4, <1>7, OneMoved DEF rowVars
  <1>9. InRange'
    BY <1>8 DEF Sound, InRange, RowInRange, rowVars
  <1> QED
    BY <1>1, <1>5, <1>6, <1>9 DEF Sound

LEMMA ClaimKeepsSound ==
  ASSUME Sound, NEW w \in Workers, ClaimJob(w)
  PROVE  Sound'
  <1>1. Queue!ClaimNextJob(w) /\ Queue!Next
    BY DEF ClaimJob, Queue!Next
  <1>2. work[w].phase = "idle" /\ holds'[w] # 0 /\ OthersWork(w) /\ Len(jobs) > 0
    BY <1>1, Claims DEF Sound, Engaged
  <1> QED
    BY <1>1, <1>2, TurnsSound DEF ClaimJob

\* A report of process w is one of the queue's two.
LEMMA ReportIsComplete ==
  ASSUME NEW w \in Workers, ReportJob(w)
  PROVE  \E outcome \in {"done", "failed"} : Queue!CompleteJob(w, outcome)
  BY DEF ReportJob

LEMMA ReportKeepsSound ==
  ASSUME Sound, NEW w \in Workers, ReportJob(w)
  PROVE  Sound'
  <1>1. PICK outcome \in {"done", "failed"} : Queue!CompleteJob(w, outcome)
    BY ReportIsComplete
  <1>2. Queue!Next
    BY <1>1 DEF Queue!Next
  <1>3. holds'[w] = 0 /\ OthersWork(w) /\ Len(jobs') = Len(jobs)
    BY <1>1, Reports DEF Sound
  <1> QED
    BY <1>2, <1>3, TurnsSound DEF ReportJob

LEMMA CrashKeepsSound ==
  ASSUME Sound, NEW w \in Workers, CrashWorker(w)
  PROVE  Sound'
  <1>1. Queue!Crash(w) /\ Queue!Next
    BY DEF CrashWorker, Queue!Next
  <1>2. holds'[w] = 0 /\ OthersWork(w) /\ jobs' = jobs
    BY <1>1, Dies DEF Sound
  <1> QED
    BY <1>1, <1>2, TurnsSound DEF CrashWorker

\* Steps that only the queue sees, if that: processes that leave or return,
\* leases that run out.
QuietStep == (\E w \in Workers : PoolStep(w)) \/ LeaseStep \/ UNCHANGED vars

LEMMA QuietEffect ==
  ASSUME Sound, QuietStep
  PROVE  /\ Queue!Next \/ UNCHANGED queueVars
         /\ UNCHANGED <<rowVars, clusterVars, work, api>>
         /\ holds' = holds /\ Len(jobs') = Len(jobs)
         /\ (Open' <=> Open) /\ \A v \in Workers : Locked(v)' => Locked(v)
  <1>1. CASE \E w \in Workers : PoolStep(w)
    BY <1>1, PoolMoves DEF PoolStep, Queue!Next, Sound, SameLocks
  <1>2. CASE LeaseStep
    BY <1>2, LeaseEnds DEF LeaseStep, Queue!Next, Sound
  <1>3. CASE UNCHANGED vars
    BY <1>3, LeavesQueue DEF vars, SameLocks
  <1> QED
    BY <1>1, <1>2, <1>3 DEF QuietStep

LEMMA QuietKeepsSound ==
  ASSUME Sound, QuietStep
  PROVE  Sound'
  <1>1. QueueInv' /\ Queue!TypeOK'
    BY QuietEffect, QueueKeeps DEF Sound
  <1> QED
    BY <1>1, QuietEffect
    DEF Sound, TypeOK, Engaged, InRange, RowInRange, LocalInRange, rowVars, clusterVars

\* The requests that enqueue a job.
WriteStep ==
  \/ CreateDeployment
  \/ \E c \in Requests : UpdateCommit(c) \/ DeleteCommit(c)
  \/ \E target \in PowerStates : ChangePower(target)

\* The requests that read, or fail.
ReadStep(c) == UpdateRead(c) \/ DeleteRead(c) \/ RefuseRequest(c)

\* A read changes nothing but the request's own state (update_deployment).
LEMMA ReadEffect ==
  ASSUME Sound, NEW c \in Requests, ReadStep(c)
  PROVE  /\ UNCHANGED <<queueVars, rowVars, clusterVars, work>>
         /\ \E r \in Request : /\ api' = [api EXCEPT ![c] = r]
                               /\ r.number <= Len(releases) + 1
                               /\ r.op # "none" => dep.status # "absent"
  <1>1. Len(releases) \in Nat /\ "none" \notin {"update", "delete"}
    BY Lengths DEF Sound
  <1>2. \A op \in {"update", "delete", "none"}, n \in Nat :
          [op |-> op, number |-> n] \in Request
    BY DEF Request
  <1>3. CASE UpdateRead(c)
    <2> DEFINE r == [op |-> "update", number |-> Len(releases) + 1]
    <2>1. r \in Request /\ r.number <= Len(releases) + 1
      BY <1>1, <1>2
    <2> QED
      BY <1>3, <2>1 DEF UpdateRead
  <1>4. CASE DeleteRead(c)
    <2> DEFINE r == [op |-> "delete", number |-> 0]
    <2>1. r \in Request /\ r.number <= Len(releases) + 1
      BY <1>1, <1>2
    <2> QED
      BY <1>4, <2>1 DEF DeleteRead
  <1>5. CASE RefuseRequest(c)
    <2>1. NoRequest \in Request /\ NoRequest.number <= Len(releases) + 1 /\ NoRequest.op = "none"
      BY <1>1, <1>2 DEF NoRequest
    <2> QED
      BY <1>5, <2>1 DEF RefuseRequest
  <1> QED
    BY <1>3, <1>4, <1>5 DEF ReadStep

LEMMA ReadKeepsSound ==
  ASSUME Sound, NEW c \in Requests, ReadStep(c)
  PROVE  Sound'
  <1>1. PICK r \in Request :
          /\ api' = [api EXCEPT ![c] = r] /\ r.number <= Len(releases) + 1
          /\ r.op # "none" => dep.status # "absent"
          /\ UNCHANGED <<queueVars, rowVars, clusterVars, work>>
    BY ReadEffect
  <1>2. QueueInv' /\ Queue!TypeOK'
    BY <1>1, QueueKeeps DEF Sound
  <1>3. TypeOK'
    BY <1>1, <1>2 DEF Sound, TypeOK, rowVars, clusterVars
  <1>4. Engaged'
    BY <1>1 DEF Sound, Engaged, queueVars
  <1>5. \A b \in Requests : /\ api'[b].number <= Len(releases) + 1
                            /\ api'[b].op # "none" => dep.status # "absent"
    BY <1>1 DEF Sound, InRange, TypeOK
  <1>6. InRange'
    BY <1>1, <1>5 DEF Sound, InRange, RowInRange, LocalInRange, rowVars, queueVars
  <1> QED
    BY <1>2, <1>3, <1>4, <1>6 DEF Sound

\* What a request that enqueues a job writes: a row that is not waiting for
\* its payment, and at most one new release or power row, which it desires.
LEMMA WriteEffect ==
  ASSUME Sound, WriteStep
  PROVE  /\ Queue!EnqueueJob(App)
         /\ UNCHANGED <<live, secrets, work>>
         /\ api' \in [Requests -> Request]
         /\ \A c \in Requests : api'[c].number <= Len(releases) + 1
         /\ dep' \in DeploymentRow
         /\ dep'.status \in {"provisioning", "deleting", "ready"}
         /\ dep'.status = "ready" => dep.status = "ready"
         /\ dep.deletedAt => dep'.deletedAt
         /\ dep'.status = "deleting" => dep'.deletedAt
         /\ dep.status = "absent" => releases' = Append(releases, NotStarted)
         /\ dep'.appliedRelease = dep.appliedRelease /\ dep'.appliedPower = dep.appliedPower
         /\ \/ releases' = releases /\ dep'.desiredRelease = dep.desiredRelease
            \/ /\ releases' = Append(releases, NotStarted)
               /\ dep'.desiredRelease = Len(releases) + 1
         /\ \/ powers' = powers /\ dep'.desiredPower = dep.desiredPower
            \/ \E target \in PowerStates :
                 /\ powers' = Append(powers, [state |-> target, run |-> NotStarted])
                 /\ dep'.desiredPower = Len(powers) + 1
  <1>1. /\ dep \in DeploymentRow /\ Len(releases) \in Nat /\ Len(powers) \in Nat
        /\ api \in [Requests -> Request] /\ \A c \in Requests : api[c].number <= Len(releases) + 1
        /\ dep.status \in {"deleting", "deleted"} => dep.deletedAt
    BY Lengths DEF Sound, TypeOK, InRange
  <1>2. NoRequest \in Request /\ NoRequest.number = 0
    BY DEF NoRequest, Request
  <1>3. CASE CreateDeployment
    <2>1. dep = NoRow /\ releases = << >> /\ powers = << >>
      BY <1>3 DEF CreateDeployment, Sound, InRange
    <2>2. releases' = Append(releases, NotStarted) /\ Len(releases) = 0
      BY <1>3, <2>1, EmptySeq DEF CreateDeployment
    <2>3. dep' = [NoRow EXCEPT !.status = "provisioning", !.desiredRelease = 1]
      BY <1>3 DEF CreateDeployment
    <2>4. /\ dep' \in DeploymentRow /\ dep'.status = "provisioning"
          /\ dep'.desiredRelease = 1 /\ dep'.appliedRelease = 0 /\ dep'.deletedAt = FALSE
          /\ dep'.desiredPower = 0 /\ dep'.appliedPower = 0
      BY <2>3 DEF NoRow, DeploymentRow, Status
    <2>5. ~dep.deletedAt /\ dep.appliedRelease = 0 /\ dep.desiredPower = 0 /\ dep.appliedPower = 0
      BY <2>1 DEF NoRow
    <2>6. Queue!EnqueueJob(App) /\ UNCHANGED <<powers, live, secrets, work, api>>
      BY <1>3 DEF CreateDeployment, clusterVars
    <2> QED
      BY <1>1, <2>2, <2>4, <2>5, <2>6
  <1>4. ASSUME NEW c \in Requests, UpdateCommit(c)
        PROVE  /\ Queue!EnqueueJob(App) /\ UNCHANGED <<live, secrets, work, powers>>
               /\ api' = [api EXCEPT ![c] = NoRequest]
               /\ dep' = [dep EXCEPT !.status = "provisioning", !.desiredRelease = Len(releases) + 1]
               /\ releases' = Append(releases, NotStarted)
    <2>1. api[c].number > Len(releases) /\ api[c].number \in Nat
      BY <1>1, <1>4 DEF UpdateCommit, UpdateRefused, Request
    <2>2. api[c].number = Len(releases) + 1
      BY <1>1, <2>1
    <2> QED
      BY <1>4, <2>2 DEF UpdateCommit, clusterVars
  <1>5. ASSUME NEW c \in Requests, DeleteCommit(c)
        PROVE  /\ Queue!EnqueueJob(App) /\ UNCHANGED <<live, secrets, work, powers, releases>>
               /\ dep.status # "absent"
               /\ api' = [api EXCEPT ![c] = NoRequest]
               /\ dep' = [dep EXCEPT !.status = "deleting", !.deletedAt = TRUE]
    BY <1>5 DEF DeleteCommit, clusterVars, Sound, InRange
  <1>6. ASSUME NEW c \in Requests, UpdateCommit(c) \/ DeleteCommit(c)
        PROVE  /\ api' \in [Requests -> Request]
               /\ \A b \in Requests : api'[b].number <= Len(releases) + 1
    BY <1>1, <1>2, <1>4, <1>5, <1>6
  <1>7. CASE \E c \in Requests : UpdateCommit(c)
    <2>1. PICK c \in Requests : UpdateCommit(c)
      BY <1>7
    <2>2. /\ dep' \in DeploymentRow /\ dep'.status = "provisioning"
          /\ dep'.desiredRelease = Len(releases) + 1
          /\ dep'.appliedRelease = dep.appliedRelease /\ dep'.deletedAt = dep.deletedAt
          /\ dep'.desiredPower = dep.desiredPower /\ dep'.appliedPower = dep.appliedPower
      <3> DEFINE n == Len(releases) + 1
      <3>1. dep' = [dep EXCEPT !.status = "provisioning", !.desiredRelease = n] /\ n \in Nat
        BY <1>1, <1>4, <2>1
      <3> HIDE DEF n
      <3>2. /\ dep' \in DeploymentRow /\ dep'.status = "provisioning" /\ dep'.desiredRelease = n
            /\ dep'.appliedRelease = dep.appliedRelease /\ dep'.deletedAt = dep.deletedAt
            /\ dep'.desiredPower = dep.desiredPower /\ dep'.appliedPower = dep.appliedPower
        BY <1>1, <3>1 DEF DeploymentRow, Status
      <3> QED
        BY <3>2 DEF n
    <2>3. /\ Queue!EnqueueJob(App) /\ UNCHANGED <<live, secrets, work, powers>>
          /\ releases' = Append(releases, NotStarted)
      BY <1>4, <2>1
    <2>4. /\ api' \in [Requests -> Request]
          /\ \A b \in Requests : api'[b].number <= Len(releases) + 1
      BY <1>6, <2>1
    <2> QED
      BY <2>2, <2>3, <2>4
  <1>8. CASE \E c \in Requests : DeleteCommit(c)
    <2>1. PICK c \in Requests : DeleteCommit(c)
      BY <1>8
    <2>2. /\ dep' \in DeploymentRow /\ dep'.status = "deleting" /\ dep'.deletedAt = TRUE
          /\ dep'.desiredRelease = dep.desiredRelease
          /\ dep'.appliedRelease = dep.appliedRelease
          /\ dep'.desiredPower = dep.desiredPower /\ dep'.appliedPower = dep.appliedPower
      BY <1>1, <1>5, <2>1 DEF DeploymentRow, Status
    <2> QED
      BY <1>5, <1>6, <2>1, <2>2
  <1>9. ASSUME NEW target \in PowerStates, ChangePower(target)
        PROVE  /\ Queue!EnqueueJob(App) /\ UNCHANGED <<live, secrets, work, api, releases>>
               /\ dep.status = "ready"
               /\ dep' = [dep EXCEPT !.desiredPower = Len(powers) + 1]
               /\ powers' = Append(powers, [state |-> target, run |-> NotStarted])
    BY <1>9 DEF ChangePower, clusterVars
  <1>10. CASE \E target \in PowerStates : ChangePower(target)
    <2>1. PICK target \in PowerStates : ChangePower(target)
      BY <1>10
    <2>2. /\ dep' \in DeploymentRow /\ dep'.status = "ready" /\ dep'.deletedAt = dep.deletedAt
          /\ dep'.desiredRelease = dep.desiredRelease
          /\ dep'.appliedRelease = dep.appliedRelease
          /\ dep'.desiredPower = Len(powers) + 1 /\ dep'.appliedPower = dep.appliedPower
      <3> DEFINE n == Len(powers) + 1
      <3>1. dep' = [dep EXCEPT !.desiredPower = n] /\ n \in Nat /\ dep.status = "ready"
        <4>1. dep' = [dep EXCEPT !.desiredPower = Len(powers) + 1] /\ dep.status = "ready"
          BY <1>9, <2>1
        <4> QED
          BY <1>1, <4>1
      <3> HIDE DEF n
      <3>2. /\ dep' \in DeploymentRow /\ dep'.status = "ready" /\ dep'.deletedAt = dep.deletedAt
            /\ dep'.desiredRelease = dep.desiredRelease
            /\ dep'.appliedRelease = dep.appliedRelease
            /\ dep'.desiredPower = n /\ dep'.appliedPower = dep.appliedPower
        BY <1>1, <3>1 DEF DeploymentRow, Status
      <3> QED
        BY <3>2 DEF n
    <2>3. /\ Queue!EnqueueJob(App) /\ UNCHANGED <<live, secrets, work, api, releases>>
          /\ dep.status = "ready"
          /\ powers' = Append(powers, [state |-> target, run |-> NotStarted])
      BY <1>9, <2>1
    <2> QED
      BY <1>1, <2>2, <2>3
  <1> QED
    BY <1>3, <1>7, <1>8, <1>10 DEF WriteStep
LEMMA WriteKeepsSound ==
  ASSUME Sound, WriteStep
  PROVE  Sound'
  <1>1. /\ Queue!Next /\ QueueInv' /\ Queue!TypeOK'
        /\ ~Open /\ UNCHANGED <<holds, up>> /\ Len(jobs') > 0
    BY WriteEffect, Enqueues, QueueKeeps DEF Sound, Queue!Next
  <1>2. /\ releases \in Seq(Outcome) /\ powers \in Seq(PowerRow)
        /\ Len(releases) \in Nat /\ Len(powers) \in Nat
        /\ dep \in DeploymentRow
        /\ \A v \in Workers : work[v] \in Work
    BY Lengths DEF Sound, TypeOK
  <1>3. NotStarted \in Outcome /\ \A t \in PowerStates : [state |-> t, run |-> NotStarted] \in PowerRow
    BY DEF NotStarted, Outcome, PowerRow
  <1>4. /\ releases' \in Seq(Outcome)
        /\ Len(releases') \in {Len(releases), Len(releases) + 1}
        /\ dep'.desiredRelease = Len(releases')
    <2>1. dep.desiredRelease = Len(releases)
      BY DEF Sound, InRange
    <2>2. \/ releases' = releases /\ dep'.desiredRelease = dep.desiredRelease
          \/ /\ releases' = Append(releases, NotStarted)
             /\ dep'.desiredRelease = Len(releases) + 1
      BY WriteEffect
    <2> QED
      BY <1>2, <1>3, <2>1, <2>2
  <1>5. /\ powers' \in Seq(PowerRow)
        /\ Len(powers') \in {Len(powers), Len(powers) + 1}
        /\ dep'.desiredPower <= Len(powers')
    <2>1. dep.desiredPower <= Len(powers)
      BY DEF Sound, InRange, RowInRange
    <2>2. \/ powers' = powers /\ dep'.desiredPower = dep.desiredPower
          \/ \E target \in PowerStates :
               /\ powers' = Append(powers, [state |-> target, run |-> NotStarted])
               /\ dep'.desiredPower = Len(powers) + 1
      BY WriteEffect
    <2>3. ASSUME NEW e \in PowerRow, powers' = Append(powers, e)
          PROVE  powers' \in Seq(PowerRow) /\ Len(powers') = Len(powers) + 1
      BY <1>2, <2>3
    <2>4. CASE powers' = powers /\ dep'.desiredPower = dep.desiredPower
      BY <1>2, <2>1, <2>4
    <2>5. ASSUME NEW target \in PowerStates, dep'.desiredPower = Len(powers) + 1,
                 powers' = Append(powers, [state |-> target, run |-> NotStarted])
          PROVE  /\ powers' \in Seq(PowerRow)
                 /\ Len(powers') = Len(powers) + 1
                 /\ dep'.desiredPower <= Len(powers')
      <3>1. [state |-> target, run |-> NotStarted] \in PowerRow
        BY <1>3
      <3>2. powers' \in Seq(PowerRow) /\ Len(powers') = Len(powers) + 1
        BY <2>3, <2>5, <3>1
      <3> QED
        BY <1>2, <2>5, <3>2
    <2> QED
      BY <2>2, <2>4, <2>5
  <1>6. TypeOK'
    BY <1>1, <1>4, <1>5, WriteEffect DEF Sound, TypeOK
  <1>7. Engaged'
    BY <1>1, WriteEffect DEF Sound, Engaged
  <1>8. RowInRange(dep)'
    BY <1>2, <1>4, <1>5, WriteEffect DEF Sound, InRange, RowInRange, DeploymentRow
  <1>9. ASSUME NEW v \in Workers PROVE LocalInRange(v)'
    <2>1. LocalInRange(v) /\ work'[v] = work[v] /\ work[v].row \in DeploymentRow
      BY WriteEffect, LocalTyped DEF Sound, InRange
    <2>2. RowInRange(work[v].row)'
      <3>1. /\ work[v].row.desiredRelease \in Nat /\ work[v].row.appliedRelease \in Nat
            /\ work[v].row.desiredPower \in Nat /\ work[v].row.appliedPower \in Nat
        BY <2>1 DEF DeploymentRow
      <3> QED
        BY <1>2, <1>4, <1>5, <2>1, <3>1 DEF LocalInRange, RowInRange
    <2>3. work[v].release <= Len(releases') /\ work[v].power <= Len(powers')
      BY <1>2, <1>4, <1>5, <2>1, LocalTyped DEF LocalInRange, Sound
    <2> QED
      BY <2>1, <2>2, <2>3, WriteEffect DEF LocalInRange
  <1>10. Len(releases') > 0
    <2>1. CASE dep.status = "absent"
      BY <1>2, <1>3, <2>1, WriteEffect
    <2>2. CASE dep.status # "absent"
      BY <1>2, <1>4, <2>2 DEF Sound, InRange
    <2> QED
      BY <2>1, <2>2
  <1>11. InRange'
    BY <1>2, <1>4, <1>8, <1>9, <1>10, WriteEffect DEF InRange, Sound, TypeOK, Request
  <1> QED
    BY <1>1, <1>6, <1>7, <1>11 DEF Sound
-----------------------------------------------------------------------------
(* No deployment waits for nobody, whatever leases do.                     *)

\* Statuses that say that work is under way.
InProgress == {"provisioning", "deleting"}

\* A process that still has its lock knows whether work is under way: what it
\* saw as settled is settled, and once it recorded an outcome nothing is.
KnowsProgress(w) ==
  Locked(w) =>
    /\ work[w].phase \notin {"idle", "claimed", "report"} /\ Seen(w).status \notin InProgress
         => dep.status \notin InProgress
    /\ work[w].phase = "report" => dep.status \notin InProgress

Progress == NeverStranded /\ \A w \in Workers : KnowsProgress(w)

\* With the row and the processes as they were, it is enough that no job was
\* closed and no lock taken.
LEMMA StillProgress ==
  ASSUME Progress, NEW S \in SUBSET Workers,
         Open => Open', dep' = dep,
         \A v \in S : work'[v] = work[v] /\ (Locked(v)' => Locked(v))
  PROVE  NeverStranded' /\ \A v \in S : KnowsProgress(v)'
  BY DEF Progress, NeverStranded, Open, KnowsProgress, Seen

LEMMA LocalKeepsProgress ==
  ASSUME Sound, Progress, NEW w \in Workers, LocalStep(w)
  PROVE  Progress'
  <1>1. dep' = dep /\ SameLocks /\ \A v \in Workers \ {w} : work'[v] = work[v]
    BY LocalEffect, LeavesQueue
  <1>2. NeverStranded' /\ \A v \in Workers \ {w} : KnowsProgress(v)'
    BY <1>1, StillProgress DEF SameLocks
  <1>3. KnowsProgress(w)'
    <2>1. /\ Locked(w)' => Locked(w)
          /\ Seen(w)' \in {dep, Seen(w)}
          /\ work[w].phase = "claimed" => Seen(w)' = dep
          /\ work[w].phase \notin {"idle", "report"} /\ work'[w].phase # "report"
      BY <1>1, LocalEffect DEF SameLocks
    <2>2. KnowsProgress(w)
      BY DEF Progress
    <2> QED
      BY <1>1, <2>1, <2>2 DEF KnowsProgress
  <1> QED
    BY <1>2, <1>3 DEF Progress

\* The end of reconcile(): a status in progress survives only under a process
\* that lost its lock to another one.
LEMMA RecordKeepsProgress ==
  ASSUME Sound, Progress, NEW w \in Workers, RecordOutcome(w)
  PROVE  Progress'
  <1>1. SameLocks /\ \A v \in Workers \ {w} : work'[v] = work[v]
    BY RecordEffect, LeavesQueue
  <1>2. work[w].result \notin InProgress
    BY LocalTyped DEF Sound, InProgress
  <1>3. dep'.status \in InProgress => dep.status \in InProgress /\ Seen(w).status \notin InProgress
    BY <1>2, RecordEffect
  <1>4. NeverStranded'
    BY <1>1, <1>3 DEF Progress, NeverStranded, SameLocks, Open, InProgress
  <1>5. KnowsProgress(w)'
    <2>1. Locked(w)' => dep'.status \notin InProgress
      BY <1>1, <1>3, RecordEffect DEF Progress, KnowsProgress, SameLocks
    <2> QED
      BY <2>1 DEF KnowsProgress
  <1>6. ASSUME NEW v \in Workers \ {w} PROVE KnowsProgress(v)'
    <2>1. KnowsProgress(v) /\ (Locked(v)' => Locked(v)) /\ work'[v] = work[v]
      BY <1>1 DEF Progress, SameLocks
    <2>2. Seen(v)' = IF work[v].expired THEN dep' ELSE Seen(v)
      BY <2>1 DEF Seen
    <2> QED
      BY <1>3, <2>1, <2>2 DEF KnowsProgress
  <1> QED
    BY <1>4, <1>5, <1>6 DEF Progress

LEMMA ClaimKeepsProgress ==
  ASSUME Sound, Progress, NEW w \in Workers, ClaimJob(w)
  PROVE  Progress'
  <1>1. Queue!ClaimNextJob(w) /\ dep' = dep /\ Goto(w, "claimed")
    BY DEF ClaimJob, rowVars
  <1>2. work \in [Workers -> Work] /\ work[w] \in Work
    BY LocalTyped DEF Sound, TypeOK
  <1>3. work'[w].phase = "claimed" /\ \A v \in Workers \ {w} : work'[v] = work[v]
    BY <1>1, <1>2 DEF Goto, Work
  <1>4. (Open => Open') /\ OthersWork(w)
    BY <1>1, Claims DEF Sound
  <1>5. NeverStranded' /\ \A v \in Workers \ {w} : KnowsProgress(v)'
    BY <1>1, <1>3, <1>4, StillProgress DEF OthersWork
  <1>6. KnowsProgress(w)'
    BY <1>3 DEF KnowsProgress
  <1> QED
    BY <1>5, <1>6 DEF Progress

\* A job is closed only under its lock, and then nothing is under way.
LEMMA ReportKeepsProgress ==
  ASSUME Sound, Progress, NEW w \in Workers, ReportJob(w)
  PROVE  Progress'
  <1>1. /\ dep' = dep /\ work' = [work EXCEPT ![w] = Idle] /\ work \in [Workers -> Work]
        /\ work[w].phase = "report"
    BY DEF ReportJob, At, rowVars, Sound, TypeOK
  <1>2. PICK outcome \in {"done", "failed"} : Queue!CompleteJob(w, outcome)
    BY ReportIsComplete
  <1>3. OthersWork(w) /\ (~Locked(w) => (Open => Open'))
    BY <1>2, Reports DEF Sound
  <1>4. work'[w] = Idle /\ \A v \in Workers \ {w} : work'[v] = work[v]
    BY <1>1
  <1>5. NeverStranded'
    BY <1>1, <1>3 DEF Progress, NeverStranded, KnowsProgress, Open, InProgress
  <1>6. \A v \in Workers \ {w} : KnowsProgress(v)'
    BY <1>1, <1>3, <1>4 DEF Progress, KnowsProgress, OthersWork, Seen
  <1>7. KnowsProgress(w)'
    BY <1>4, IdleRow DEF KnowsProgress
  <1> QED
    BY <1>5, <1>6, <1>7 DEF Progress

LEMMA CrashKeepsProgress ==
  ASSUME Sound, Progress, NEW w \in Workers, CrashWorker(w)
  PROVE  Progress'
  <1>1. /\ dep' = dep /\ work' = [work EXCEPT ![w] = Idle] /\ work \in [Workers -> Work]
        /\ Queue!Crash(w)
    BY DEF CrashWorker, rowVars, Sound, TypeOK
  <1>2. OthersWork(w) /\ (Open => Open')
    BY <1>1, Dies DEF Sound
  <1>3. work'[w] = Idle /\ \A v \in Workers \ {w} : work'[v] = work[v]
    BY <1>1
  <1>4. NeverStranded' /\ \A v \in Workers \ {w} : KnowsProgress(v)'
    BY <1>1, <1>2, <1>3, StillProgress DEF OthersWork
  <1>5. KnowsProgress(w)'
    BY <1>3, IdleRow DEF KnowsProgress
  <1> QED
    BY <1>4, <1>5 DEF Progress

LEMMA QuietKeepsProgress ==
  ASSUME Sound, Progress, QuietStep
  PROVE  Progress'
  BY QuietEffect, StillProgress DEF Progress, rowVars

LEMMA ReadKeepsProgress ==
  ASSUME Sound, Progress, NEW c \in Requests, ReadStep(c)
  PROVE  Progress'
  BY ReadEffect, LeavesQueue, StillProgress DEF Progress, rowVars, SameLocks

\* A request that puts work under way enqueues its job with it, and finds
\* nobody with a lock.
LEMMA WriteKeepsProgress ==
  ASSUME Sound, Progress, WriteStep
  PROVE  Progress'
  <1>1. Open' /\ \A v \in Workers : ~Locked(v)'
    BY WriteEffect, Enqueues DEF Sound
  <1> QED
    BY <1>1 DEF Progress, NeverStranded, Open, KnowsProgress
-----------------------------------------------------------------------------
(* What a process knows while no other one works on the deployment: its    *)
(* copy of the row is the row, so what it plans is what is desired.        *)

\* The phases in which a process has loaded the deployment row.
Reconciling ==
  {"power", "validate", "publish", "helm", "sweep", "teardown", "namespace", "record"}

\* What the cluster should run.
Wanted == [release |-> dep.desiredRelease, power |-> PowerOf(dep.desiredPower)]

\* A deletion renders nothing and records no row; a rollout renders the
\* desired release, and will record the desired rows that are not applied yet.
PlanIsDesired(w) ==
  LET local == work[w]
  IN IF dep.deletedAt
     THEN /\ local.phase \in {"validate", "teardown", "namespace", "record"}
          /\ local.release = 0 /\ local.power = 0
     ELSE /\ local.phase \notin {"teardown", "namespace"}
          /\ local.values = dep.desiredRelease
          /\ local.release = IF dep.appliedRelease = dep.desiredRelease THEN 0
                             ELSE dep.desiredRelease
          /\ local.power = IF local.phase = "power" \/ dep.appliedPower = dep.desiredPower
                           THEN 0 ELSE dep.desiredPower

\* What the calls a process has behind it left in the cluster.
ClusterFollows(w) ==
  LET local == work[w]
  IN /\ local.phase = "helm" => local.values \in secrets
     /\ local.phase = "sweep" => live = Wanted /\ local.values \in secrets
     /\ local.phase = "namespace" => live = NothingLive
     /\ local.phase = "record" /\ local.result = "ready" => ~dep.deletedAt /\ live = Wanted
     /\ local.phase = "record" /\ local.result = "deleted" => live = NothingLive /\ secrets = {}
     /\ local.phase = "report" => dep.status = local.result

Knows(w) ==
  /\ work[w].phase \in Reconciling => Seen(w) = dep /\ PlanIsDesired(w)
  /\ ClusterFollows(w)

\* The cluster runs what is desired, and the applied pointers say so.
InSync ==
  /\ live = Wanted
  /\ dep.appliedRelease = dep.desiredRelease
  /\ dep.appliedPower = dep.desiredPower

\* A ready row is true unless a job is open to make it so; a process that is
\* about to report has made it so.
ReadyHolds ==
  dep.status = "ready" /\ (~Open \/ \E w \in Workers : work[w].phase = "report") => InSync

\* The applied power is one that succeeded, a desired power that is not
\* applied is one that never ended, and a failed one is neither.
PowersAgree ==
  /\ dep.appliedPower # 0 => powers[dep.appliedPower].run.outcome = "ok"
  /\ dep.desiredPower # dep.appliedPower =>
       /\ dep.desiredPower # 0
       /\ powers[dep.desiredPower].run.outcome = "none"
       /\ powers[dep.desiredPower].run.ended = 0
  /\ \A p \in 1 .. Len(powers) :
       /\ powers[p].run.ended <= 1
       /\ powers[p].run.outcome = "failed" => p # dep.desiredPower /\ p # dep.appliedPower

\* The applied release is one that succeeded, a desired one that is not
\* applied has not.
ReleasesAgree ==
  /\ dep.appliedRelease # 0 => releases[dep.appliedRelease].outcome = "ok"
  /\ dep.appliedRelease # dep.desiredRelease => releases[dep.desiredRelease].outcome # "ok"

\* All of it holds while leases outlive the processes that hold them.
Alone ==
  /\ \A w \in Workers : Knows(w)
  /\ ReadyHolds
  /\ DeletedIsGone
  /\ LiveHasItsSecret
  /\ PowersAgree
  /\ ReleasesAgree

\* Beside a process that works every other one is idle, and a job is open.
LEMMA NobodyElse ==
  ASSUME Sound, ~MayWedge, NEW w \in Workers, work[w].phase # "idle"
  PROVE  Open /\ \A v \in Workers \ {w} : work[v].phase = "idle"
  BY WhoWorks DEF Sound, Engaged

\* An idle process, or one that only just claimed its job, knows nothing.
LEMMA NothingToKnow ==
  ASSUME NEW w \in Workers
  PROVE  /\ work[w].phase \in {"idle", "claimed"} => Knows(w)
         /\ work'[w].phase \in {"idle", "claimed"} => Knows(w)'
  BY DEF Knows, Reconciling, ClusterFollows

\* Recording that a row was started changes neither what is wanted nor what
\* succeeded.
LEMMA StartsAgree ==
  ASSUME Sound, StartsOnly, dep' = dep, PowersAgree, ReleasesAgree
  PROVE  Wanted' = Wanted /\ PowersAgree' /\ ReleasesAgree'
  <1>1. /\ dep \in DeploymentRow /\ RowInRange(dep) /\ Len(releases) \in Nat /\ Len(powers) \in Nat
    BY Lengths DEF Sound, TypeOK, InRange
  <1>2. /\ dep.desiredRelease \in Nat /\ dep.appliedRelease \in Nat
        /\ dep.desiredPower \in Nat /\ dep.appliedPower \in Nat
        /\ dep.desiredRelease # 0 => dep.desiredRelease \in 1 .. Len(releases)
        /\ dep.appliedRelease # 0 => dep.appliedRelease \in 1 .. Len(releases)
        /\ dep.desiredPower # 0 => dep.desiredPower \in 1 .. Len(powers)
        /\ dep.appliedPower # 0 => dep.appliedPower \in 1 .. Len(powers)
    BY <1>1 DEF DeploymentRow, RowInRange
  <1>3. dep.appliedRelease # dep.desiredRelease => dep.desiredRelease # 0
    BY <1>1, <1>2 DEF Sound, InRange, RowInRange
  <1>4. Wanted' = Wanted
    BY <1>2 DEF Wanted, PowerOf, StartsOnly
  <1>5. PowersAgree'
    BY <1>2 DEF PowersAgree, StartsOnly
  <1>6. ReleasesAgree'
    BY <1>2, <1>3 DEF ReleasesAgree, StartsOnly
  <1> QED
    BY <1>4, <1>5, <1>6

\* A step of one process inside reconcile() leaves the rest of the invariant
\* to what it does to the cluster: the others are idle and the job is open.
LEMMA LocalAlone ==
  ASSUME Sound, ~MayWedge, Alone, NEW w \in Workers, LocalStep(w),
         Knows(w)', DeletedIsGone', LiveHasItsSecret'
  PROVE  Alone'
  <1>1. /\ work[w].phase # "idle" /\ work'[w].phase # "report" /\ dep' = dep /\ SameLocks
        /\ \A v \in Workers \ {w} : work'[v] = work[v]
    BY LocalEffect, LeavesQueue
  <1>2. Open' /\ \A v \in Workers \ {w} : work'[v].phase = "idle"
    BY <1>1, NobodyElse DEF SameLocks
  <1>3. \A v \in Workers : Knows(v)'
    BY <1>2, NothingToKnow
  <1>4. ReadyHolds'
    BY <1>1, <1>2 DEF ReadyHolds
  <1>5. PowersAgree' /\ ReleasesAgree'
    BY <1>1, LocalEffect, StartsAgree DEF Alone
  <1> QED
    BY <1>3, <1>4, <1>5 DEF Alone

LEMMA LoadKeepsAlone ==
  ASSUME Sound, ~MayWedge, Alone, NEW w \in Workers, LoadAndClaimRelease(w)
  PROVE  Alone'
  <1>1. LocalStep(w) /\ dep' = dep /\ live' = live /\ secrets' = secrets
    BY LoadEffect DEF LocalStep
  <1>2. Wanted' = Wanted
    BY <1>1, LoadEffect, StartsAgree DEF Alone
  <1>3. Seen(w)' = dep
    BY LoadEffect, <1>1, LocalEffect
  <1>4. PlanIsDesired(w)'
    BY <1>1, LoadEffect DEF PlanIsDesired
  <1>5. ClusterFollows(w)'
    BY LoadEffect DEF ClusterFollows
  <1>6. DeletedIsGone' /\ LiveHasItsSecret'
    BY <1>1 DEF Alone, DeletedIsGone, LiveHasItsSecret
  <1> QED
    BY <1>1, <1>3, <1>4, <1>5, <1>6, LocalAlone DEF Knows

LEMMA PowerKeepsAlone ==
  ASSUME Sound, ~MayWedge, Alone, NEW w \in Workers, ClaimPower(w)
  PROVE  Alone'
  <1>1. LocalStep(w) /\ dep' = dep /\ live' = live /\ secrets' = secrets
    BY PowerEffect DEF LocalStep
  <1>2. work[w].phase = "power" /\ Seen(w) = dep /\ PlanIsDesired(w)
    BY PowerEffect DEF Alone, Knows, Reconciling
  <1>3. Seen(w)' = dep
    BY <1>1, <1>2, LocalEffect
  <1>4. PlanIsDesired(w)'
    BY <1>1, <1>2, PowerEffect DEF PlanIsDesired
  <1>5. ClusterFollows(w)'
    BY PowerEffect DEF ClusterFollows
  <1>6. DeletedIsGone' /\ LiveHasItsSecret'
    BY <1>1 DEF Alone, DeletedIsGone, LiveHasItsSecret
  <1> QED
    BY <1>1, <1>3, <1>4, <1>5, <1>6, LocalAlone DEF Knows

\* A call keeps the process's view and its plan, whichever way it goes.
LEMMA CallKeepsPlan ==
  ASSUME Sound, ~MayWedge, Alone, NEW w \in Workers, CallStep(w)
  PROVE  /\ LocalStep(w) /\ dep' = dep /\ Wanted' = Wanted
         /\ Seen(w) = dep /\ Seen(w)' = dep
         /\ PlanIsDesired(w)
         /\ dep.status = "deleted" => dep.deletedAt
         /\ work'[w].values = work[w].values
         /\ work'[w].release = work[w].release
         /\ work'[w].power = work[w].power
         /\ work[w].phase \in {"validate", "publish", "helm", "sweep", "teardown", "namespace"}
  <1>1. /\ LocalStep(w) /\ UNCHANGED rowVars
        /\ work[w].phase \in {"validate", "publish", "helm", "sweep", "teardown", "namespace"}
        /\ work'[w].values = work[w].values
        /\ work'[w].release = work[w].release
        /\ work'[w].power = work[w].power
        /\ Seen(w)' \in {dep, Seen(w)}
    BY CallEffect DEF LocalStep, CallStep
  <1>2. Seen(w) = dep /\ PlanIsDesired(w)
    BY <1>1 DEF Alone, Knows, Reconciling
  <1>3. dep' = dep /\ Wanted' = Wanted
    BY <1>1 DEF rowVars, Wanted, PowerOf
  <1> QED
    BY <1>1, <1>2, <1>3 DEF Sound, InRange

\* A process's row after an assignment to two of its fields.
LEMMA Moved ==
  ASSUME Sound, NEW w \in Workers, NEW ph \in Phases, NEW r \in {"none", "ready", "error", "deleted"}
  PROVE  /\ \A e : work' = [work EXCEPT ![w].phase = ph, ![w].expired = e] =>
              work'[w].phase = ph
         /\ work' = [work EXCEPT ![w] = Result(w, r)] =>
              work'[w].phase = "record" /\ work'[w].result = r
  <1>1. work \in [Workers -> Work] /\ work[w] \in Work
    BY LocalTyped DEF Sound, TypeOK
  <1>2. ASSUME NEW e, work' = [work EXCEPT ![w].phase = ph, ![w].expired = e]
        PROVE  work'[w].phase = ph
    BY <1>1, <1>2 DEF Work
  <1>3. ASSUME work' = [work EXCEPT ![w] = Result(w, r)]
        PROVE  work'[w].phase = "record" /\ work'[w].result = r
    BY <1>1, <1>3 DEF Result, Work
  <1> QED
    BY <1>2, <1>3

\* _validate_input_state chooses the path by deleted_at, and rejects a
\* deployment that awaits its payment.
LEMMA ValidateKeepsAlone ==
  ASSUME Sound, ~MayWedge, Alone, NEW w \in Workers, ValidateInputState(w)
  PROVE  Alone'
  <1>1. CallStep(w) /\ UNCHANGED <<live, secrets>> /\ work[w].phase = "validate"
    BY DEF ValidateInputState, CallStep, clusterVars, At
  <1>2. /\ dep' = dep /\ Seen(w) = dep /\ Seen(w)' = dep /\ PlanIsDesired(w) /\ LocalStep(w)
        /\ work'[w].values = work[w].values
        /\ work'[w].release = work[w].release /\ work'[w].power = work[w].power
    BY <1>1, CallKeepsPlan
  <1>3. \/ work'[w].phase = "record" /\ work'[w].result = "error"
        \/ work'[w].phase = IF dep.deletedAt THEN "teardown" ELSE "publish"
    <2>1. work \in [Workers -> Work] /\ work[w] \in Work
      BY LocalTyped DEF Sound, TypeOK
    <2> QED
      BY <1>2, <2>1 DEF ValidateInputState, Work
  <1>4. PlanIsDesired(w)'
    BY <1>1, <1>2, <1>3 DEF PlanIsDesired
  <1>5. ClusterFollows(w)'
    BY <1>3 DEF ClusterFollows
  <1>6. DeletedIsGone' /\ LiveHasItsSecret'
    BY <1>1, <1>2 DEF Alone, DeletedIsGone, LiveHasItsSecret
  <1> QED
    BY <1>2, <1>4, <1>5, <1>6, LocalAlone DEF Knows

\* The vars Secret of the release is there before Helm needs it.
LEMMA PublishKeepsAlone ==
  ASSUME Sound, ~MayWedge, Alone, NEW w \in Workers, PublishPrerequisites(w)
  PROVE  Alone'
  <1>1. /\ CallStep(w) /\ live' = live /\ work[w].phase = "publish"
        /\ secrets' = secrets \union {work[w].values}
    BY DEF PublishPrerequisites, CallStep, At
  <1>2. /\ dep' = dep /\ Seen(w)' = dep /\ PlanIsDesired(w) /\ LocalStep(w)
        /\ dep.status = "deleted" => dep.deletedAt
        /\ work'[w].values = work[w].values
        /\ work'[w].release = work[w].release /\ work'[w].power = work[w].power
    BY <1>1, CallKeepsPlan
  <1>3. work'[w].phase = "helm"
    BY Moved DEF PublishPrerequisites, Phases
  <1>4. PlanIsDesired(w)'
    BY <1>1, <1>2, <1>3 DEF PlanIsDesired
  <1>5. ClusterFollows(w)'
    BY <1>1, <1>2, <1>3 DEF ClusterFollows
  <1>6. DeletedIsGone'
    BY <1>1, <1>2 DEF DeletedIsGone, PlanIsDesired
  <1>7. LiveHasItsSecret'
    BY <1>1 DEF Alone, LiveHasItsSecret
  <1> QED
    BY <1>2, <1>4, <1>5, <1>6, <1>7, LocalAlone DEF Knows

\* reconcile() gives up: what is live stays live, with its Secret.
LEMMA FailKeepsAlone ==
  ASSUME Sound, ~MayWedge, Alone, NEW w \in Workers, Fails(w)
  PROVE  Alone'
  <1>1. /\ CallStep(w) /\ live' = live
        /\ work' = [work EXCEPT ![w] = Result(w, "error")]
        /\ secrets' # secrets => work[w].phase = "publish" /\ secrets \subseteq secrets'
    <2>1. CASE PrerequisiteFails(w)
      BY <2>1 DEF PrerequisiteFails, CallStep, At
    <2>2. CASE HelmRollsBack(w)
      BY <2>2 DEF HelmRollsBack, CallStep, clusterVars
    <2>3. CASE AfterUpgradeFails(w)
      BY <2>3 DEF AfterUpgradeFails, CallStep, clusterVars
    <2>4. CASE DeleteFails(w)
      BY <2>4 DEF DeleteFails, CallStep, clusterVars
    <2> QED
      BY <2>1, <2>2, <2>3, <2>4 DEF Fails
  <1>2. /\ dep' = dep /\ Seen(w)' = dep /\ PlanIsDesired(w) /\ LocalStep(w)
        /\ dep.status = "deleted" => dep.deletedAt
        /\ work'[w].values = work[w].values
        /\ work'[w].release = work[w].release /\ work'[w].power = work[w].power
        /\ work[w].phase # "power"
    BY <1>1, CallKeepsPlan
  <1>3. work'[w].phase = "record" /\ work'[w].result = "error"
    BY <1>1, Moved DEF Phases
  <1>4. PlanIsDesired(w)'
    BY <1>2, <1>3 DEF PlanIsDesired
  <1>5. ClusterFollows(w)'
    BY <1>3 DEF ClusterFollows
  <1>6. DeletedIsGone'
    BY <1>1, <1>2 DEF Alone, DeletedIsGone, PlanIsDesired
  <1>7. LiveHasItsSecret'
    BY <1>1 DEF Alone, LiveHasItsSecret
  <1> QED
    BY <1>2, <1>4, <1>5, <1>6, <1>7, LocalAlone DEF Knows

\* A successful upgrade runs what is wanted, because the process's copy of the
\* row is the row.
LEMMA UpgradeKeepsAlone ==
  ASSUME Sound, ~MayWedge, Alone, NEW w \in Workers, HelmUpgrade(w)
  PROVE  Alone'
  <1>1. /\ CallStep(w) /\ secrets' = secrets /\ work[w].phase = "helm"
        /\ live' = [release |-> work[w].values, power |-> PowerOf(Seen(w).desiredPower)]
    BY DEF HelmUpgrade, CallStep, At
  <1>2. /\ dep' = dep /\ Seen(w) = dep /\ Seen(w)' = dep /\ PlanIsDesired(w) /\ LocalStep(w)
        /\ dep.status = "deleted" => dep.deletedAt
        /\ work'[w].values = work[w].values /\ Wanted' = Wanted
        /\ work'[w].release = work[w].release /\ work'[w].power = work[w].power
    BY <1>1, CallKeepsPlan
  <1>3. work'[w].phase = "sweep"
    <2>1. work \in [Workers -> Work] /\ work[w] \in Work
      BY LocalTyped DEF Sound, TypeOK
    <2> QED
      BY <2>1 DEF HelmUpgrade, Work
  <1>4. ~dep.deletedAt /\ work[w].values = dep.desiredRelease /\ work[w].values \in secrets
    BY <1>1, <1>2 DEF PlanIsDesired, Alone, Knows, ClusterFollows
  <1>5. PlanIsDesired(w)'
    BY <1>1, <1>2, <1>3 DEF PlanIsDesired
  <1>6. live' = Wanted'
    BY <1>1, <1>2, <1>4 DEF Wanted
  <1>7. ClusterFollows(w)'
    BY <1>1, <1>2, <1>3, <1>4, <1>6 DEF ClusterFollows
  <1>8. DeletedIsGone'
    BY <1>2, <1>4 DEF DeletedIsGone
  <1>9. LiveHasItsSecret'
    BY <1>1, <1>4 DEF LiveHasItsSecret
  <1> QED
    BY <1>2, <1>5, <1>7, <1>8, <1>9, LocalAlone DEF Knows

\* _reap_vars_secrets spares the Secret of the release that is live now.
LEMMA SweepKeepsAlone ==
  ASSUME Sound, ~MayWedge, Alone, NEW w \in Workers, SweepAndReap(w)
  PROVE  Alone'
  <1>1. /\ CallStep(w) /\ live' = live /\ work[w].phase = "sweep"
        /\ secrets' = secrets \/ secrets' = secrets \intersect {work[w].values}
        /\ work' = [work EXCEPT ![w] = Result(w, "ready")]
    BY DEF SweepAndReap, CallStep, At
  <1>2. /\ dep' = dep /\ Seen(w)' = dep /\ PlanIsDesired(w) /\ LocalStep(w)
        /\ dep.status = "deleted" => dep.deletedAt
        /\ work'[w].values = work[w].values /\ Wanted' = Wanted
        /\ work'[w].release = work[w].release /\ work'[w].power = work[w].power
    BY <1>1, CallKeepsPlan
  <1>3. work'[w].phase = "record" /\ work'[w].result = "ready"
    BY <1>1, Moved DEF Phases
  <1>4. ~dep.deletedAt /\ live = Wanted /\ work[w].values \in secrets
        /\ work[w].values = dep.desiredRelease
    BY <1>1, <1>2 DEF PlanIsDesired, Alone, Knows, ClusterFollows
  <1>5. PlanIsDesired(w)'
    BY <1>1, <1>2, <1>3 DEF PlanIsDesired
  <1>6. ClusterFollows(w)'
    BY <1>1, <1>2, <1>3, <1>4 DEF ClusterFollows
  <1>7. DeletedIsGone'
    BY <1>2, <1>4 DEF DeletedIsGone
  <1>8. LiveHasItsSecret'
    BY <1>1, <1>4 DEF LiveHasItsSecret, Wanted
  <1> QED
    BY <1>2, <1>5, <1>6, <1>7, <1>8, LocalAlone DEF Knows

\* A teardown works on a deleted deployment, and leaves nothing.
LEMMA UninstallKeepsAlone ==
  ASSUME Sound, ~MayWedge, Alone, NEW w \in Workers, HelmUninstall(w)
  PROVE  Alone'
  <1>1. CallStep(w) /\ secrets' = secrets /\ live' = NothingLive /\ work[w].phase = "teardown"
    BY DEF HelmUninstall, CallStep, At
  <1>2. /\ dep' = dep /\ Seen(w)' = dep /\ PlanIsDesired(w) /\ LocalStep(w)
        /\ work'[w].values = work[w].values
        /\ work'[w].release = work[w].release /\ work'[w].power = work[w].power
    BY <1>1, CallKeepsPlan
  <1>3. work'[w].phase = "namespace"
    BY Moved DEF HelmUninstall, Phases
  <1>4. PlanIsDesired(w)'
    BY <1>1, <1>2, <1>3 DEF PlanIsDesired
  <1>5. ClusterFollows(w)'
    BY <1>1, <1>3 DEF ClusterFollows
  <1>6. DeletedIsGone' /\ LiveHasItsSecret'
    BY <1>1, <1>2 DEF Alone, DeletedIsGone, LiveHasItsSecret, NothingLive
  <1> QED
    BY <1>2, <1>4, <1>5, <1>6, LocalAlone DEF Knows

LEMMA NamespaceKeepsAlone ==
  ASSUME Sound, ~MayWedge, Alone, NEW w \in Workers, DeleteNamespace(w)
  PROVE  Alone'
  <1>1. /\ CallStep(w) /\ secrets' = {} /\ live' = NothingLive /\ work[w].phase = "namespace"
        /\ work' = [work EXCEPT ![w] = Result(w, "deleted")]
    BY DEF DeleteNamespace, CallStep, At
  <1>2. /\ dep' = dep /\ Seen(w)' = dep /\ PlanIsDesired(w) /\ LocalStep(w)
        /\ work'[w].values = work[w].values
        /\ work'[w].release = work[w].release /\ work'[w].power = work[w].power
    BY <1>1, CallKeepsPlan
  <1>3. work'[w].phase = "record" /\ work'[w].result = "deleted"
    BY <1>1, Moved DEF Phases
  <1>4. PlanIsDesired(w)'
    BY <1>1, <1>2, <1>3 DEF PlanIsDesired
  <1>5. ClusterFollows(w)'
    BY <1>1, <1>3 DEF ClusterFollows
  <1>6. DeletedIsGone' /\ LiveHasItsSecret'
    BY <1>1, <1>2 DEF Alone, DeletedIsGone, LiveHasItsSecret, NothingLive
  <1> QED
    BY <1>2, <1>4, <1>5, <1>6, LocalAlone DEF Knows

\* Every step inside reconcile() keeps what a lone process knows.
LEMMA LocalKeepsAlone ==
  ASSUME Sound, ~MayWedge, Alone, NEW w \in Workers, LocalStep(w)
  PROVE  Alone'
  BY LoadKeepsAlone, PowerKeepsAlone, ValidateKeepsAlone, PublishKeepsAlone, FailKeepsAlone,
     UpgradeKeepsAlone, SweepKeepsAlone, UninstallKeepsAlone, NamespaceKeepsAlone
  DEF LocalStep, Fails

\* What a lone process will record are the rows that are desired and not
\* applied: a release and a power row, or none of either.
LEMMA RecordsTheDesired ==
  ASSUME Sound, ~MayWedge, Alone, NEW w \in Workers, work[w].phase = "record"
  PROVE  /\ Seen(w) = dep
         /\ work[w].release # 0 => /\ work[w].release = dep.desiredRelease
                                   /\ dep.appliedRelease # dep.desiredRelease
                                   /\ work[w].release \in 1 .. Len(releases)
         /\ work[w].power # 0 => /\ work[w].power = dep.desiredPower
                                 /\ dep.appliedPower # dep.desiredPower
                                 /\ work[w].power \in 1 .. Len(powers)
         /\ ~dep.deletedAt /\ work[w].release = 0 => dep.appliedRelease = dep.desiredRelease
         /\ ~dep.deletedAt /\ work[w].power = 0 => dep.appliedPower = dep.desiredPower
         /\ work[w].result = "deleted" => work[w].release = 0
  <1>1. Seen(w) = dep /\ PlanIsDesired(w)
    BY DEF Alone, Knows, Reconciling
  <1>2. /\ work[w].release \in Nat /\ work[w].release <= Len(releases)
        /\ work[w].power \in Nat /\ work[w].power <= Len(powers)
        /\ Len(releases) \in Nat /\ Len(powers) \in Nat
    BY LocalTyped, Lengths DEF Sound, InRange, LocalInRange
  <1>3. dep.desiredRelease = Len(releases) /\ dep.appliedRelease <= Len(releases)
    BY DEF Sound, InRange, RowInRange
  <1>4. dep.desiredRelease # 0
    BY WhoWorks, <1>2, <1>3 DEF Sound, Engaged, InRange
  <1>5. work[w].result = "deleted" => dep.deletedAt
    BY DEF Sound, InRange, LocalInRange
  <1> QED
    BY <1>1, <1>2, <1>3, <1>4, <1>5 DEF PlanIsDesired, Alone, PowersAgree

\* The outcome of a lone process is the truth: the pointers move to what is
\* live, or stay with what succeeded before.
LEMMA RecordKeepsAlone ==
  ASSUME Sound, ~MayWedge, Alone, NEW w \in Workers, RecordOutcome(w)
  PROVE  Alone'
  <1> DEFINE ok == work[w].result # "error"
             ready == work[w].result = "ready"
  <1>1. /\ work[w].phase = "record" /\ work'[w].phase = "report"
        /\ work'[w].result = work[w].result
        /\ work[w].result \in {"ready", "error", "deleted"}
        /\ live' = live /\ secrets' = secrets
        /\ \A v \in Workers \ {w} : work'[v] = work[v]
    BY RecordEffect, LocalTyped DEF Sound
  <1>2. /\ Seen(w) = dep
        /\ work[w].release # 0 => /\ work[w].release = dep.desiredRelease
                                  /\ dep.appliedRelease # dep.desiredRelease
                                  /\ work[w].release \in 1 .. Len(releases)
        /\ work[w].power # 0 => /\ work[w].power = dep.desiredPower
                                /\ dep.appliedPower # dep.desiredPower
                                /\ work[w].power \in 1 .. Len(powers)
        /\ ~dep.deletedAt /\ work[w].release = 0 => dep.appliedRelease = dep.desiredRelease
        /\ ~dep.deletedAt /\ work[w].power = 0 => dep.appliedPower = dep.desiredPower
        /\ work[w].result = "deleted" => work[w].release = 0
    BY <1>1, RecordsTheDesired
  <1>3. /\ dep'.status = work[w].result /\ dep'.deletedAt = dep.deletedAt
        /\ dep'.desiredRelease = dep.desiredRelease
        /\ dep'.appliedRelease = IF ready /\ work[w].release # 0 THEN work[w].release
                                 ELSE dep.appliedRelease
        /\ dep'.appliedPower = IF ready /\ work[w].power # 0 THEN work[w].power
                               ELSE dep.appliedPower
        /\ dep'.desiredPower = IF ~ready /\ work[w].power # 0 THEN dep.appliedPower
                               ELSE dep.desiredPower
    BY <1>2, RecordEffect
  <1>4. /\ Len(releases) \in Nat /\ Len(powers) \in Nat
        /\ Len(releases') = Len(releases) /\ Len(powers') = Len(powers)
        /\ \A r \in 1 .. Len(releases) :
             /\ releases[r] \in Outcome
             /\ releases'[r].outcome = IF r # work[w].release THEN releases[r].outcome
                                       ELSE IF ok THEN "ok" ELSE "failed"
        /\ \A p \in 1 .. Len(powers) :
             /\ powers[p] \in PowerRow /\ powers'[p].state = powers[p].state
             /\ powers'[p].run.outcome = IF p # work[w].power THEN powers[p].run.outcome
                                         ELSE IF ok THEN "ok" ELSE "failed"
             /\ powers'[p].run.ended = IF p # work[w].power THEN powers[p].run.ended
                                       ELSE powers[p].run.ended + 1
    <2>1. /\ releases \in Seq(Outcome) /\ powers \in Seq(PowerRow)
          /\ Len(releases) \in Nat /\ Len(powers) \in Nat
      BY Lengths DEF Sound, TypeOK
    <2>2. /\ \A r \in 1 .. Len(releases) : releases[r] \in Outcome
          /\ \A p \in 1 .. Len(powers) : powers[p] \in PowerRow /\ powers[p].run \in Outcome
      <3>1. ASSUME NEW r \in 1 .. Len(releases) PROVE releases[r] \in Outcome
        BY <2>1, ElementOfSeq
      <3>2. ASSUME NEW p \in 1 .. Len(powers)
            PROVE  powers[p] \in PowerRow /\ powers[p].run \in Outcome
        <4>1. powers[p] \in PowerRow
          BY <2>1, ElementOfSeq
        <4> QED
          BY <4>1 DEF PowerRow
      <3> QED
        BY <3>1, <3>2
    <2>3. /\ Len(releases') = Len(releases) /\ Len(powers') = Len(powers)
          /\ \A r \in 1 .. Len(releases) :
               releases'[r] = IF r = work[w].release THEN Ended(releases[r], ok) ELSE releases[r]
          /\ \A p \in 1 .. Len(powers) :
               /\ powers'[p].state = powers[p].state
               /\ powers'[p].run = IF p = work[w].power THEN Ended(powers[p].run, ok)
                                   ELSE powers[p].run
      BY RecordEffect
    <2>4. ASSUME NEW r \in 1 .. Len(releases)
          PROVE  releases'[r].outcome = IF r # work[w].release THEN releases[r].outcome
                                        ELSE IF ok THEN "ok" ELSE "failed"
      <3>1. releases[r] \in Outcome
        BY <2>2
      <3>2. Ended(releases[r], ok).outcome = IF ok THEN "ok" ELSE "failed"
        BY <3>1, EndedFields
      <3> QED
        BY <2>3, <3>2
    <2>5. ASSUME NEW p \in 1 .. Len(powers)
          PROVE  /\ powers'[p].run.outcome = IF p # work[w].power THEN powers[p].run.outcome
                                              ELSE IF ok THEN "ok" ELSE "failed"
                 /\ powers'[p].run.ended = IF p # work[w].power THEN powers[p].run.ended
                                            ELSE powers[p].run.ended + 1
      <3>1. powers[p].run \in Outcome
        BY <2>2
      <3>2. /\ Ended(powers[p].run, ok).ended = powers[p].run.ended + 1
            /\ Ended(powers[p].run, ok).outcome = IF ok THEN "ok" ELSE "failed"
        BY <3>1, EndedFields
      <3> QED
        BY <2>3, <3>2
    <2> QED
      BY <2>1, <2>2, <2>3, <2>4, <2>5
  <1>5. /\ dep \in DeploymentRow /\ RowInRange(dep)
        /\ dep.appliedRelease # 0 => dep.appliedRelease \in 1 .. Len(releases)
        /\ dep.desiredRelease \in 1 .. Len(releases)
        /\ dep.desiredPower # 0 => dep.desiredPower \in 1 .. Len(powers)
        /\ dep.appliedPower # 0 => dep.appliedPower \in 1 .. Len(powers)
    <2>1. dep \in DeploymentRow /\ RowInRange(dep) /\ dep.desiredRelease = Len(releases)
      BY DEF Sound, TypeOK, InRange
    <2>2. Len(releases) > 0
      BY <1>1, WhoWorks DEF Sound, Engaged, InRange
    <2> QED
      BY <1>4, <2>1, <2>2 DEF RowInRange, DeploymentRow
  <1>6. ready => ~dep.deletedAt /\ live = Wanted
    BY <1>1 DEF Alone, Knows, ClusterFollows
  <1>7. ready => Wanted' = Wanted
    BY <1>3, <1>4, <1>5 DEF Wanted, PowerOf
  <1>8. \A v \in Workers : Knows(v)'
    <2>1. Knows(w)'
      BY <1>1, <1>3 DEF Knows, Reconciling, ClusterFollows
    <2>2. \A v \in Workers \ {w} : work'[v].phase = "idle"
      BY <1>1, NobodyElse
    <2> QED
      BY <2>1, <2>2, NothingToKnow
  <1>9. ReadyHolds'
    BY <1>1, <1>2, <1>3, <1>6, <1>7 DEF ReadyHolds, InSync
  <1>10. DeletedIsGone' /\ LiveHasItsSecret'
    BY <1>1, <1>3 DEF Alone, Knows, ClusterFollows, DeletedIsGone, LiveHasItsSecret
  <1>11. PowersAgree'
    <2>1. PowersAgree
      BY DEF Alone
    <2>2. dep'.appliedPower # 0 => powers'[dep'.appliedPower].run.outcome = "ok"
      BY <1>1, <1>2, <1>3, <1>4, <1>5, <2>1 DEF PowersAgree
    <2>3. dep'.desiredPower # dep'.appliedPower =>
            /\ dep'.desiredPower # 0
            /\ powers'[dep'.desiredPower].run.outcome = "none"
            /\ powers'[dep'.desiredPower].run.ended = 0
      <3>1. CASE work[w].power = 0
        BY <1>3, <1>4, <1>5, <2>1, <3>1 DEF PowersAgree
      <3>2. CASE work[w].power # 0
        BY <1>2, <1>3, <3>2
      <3> QED
        BY <3>1, <3>2
    <2>4. ASSUME NEW p \in 1 .. Len(powers)
          PROVE  /\ powers'[p].run.ended <= 1
                 /\ powers'[p].run.outcome = "failed" =>
                      p # dep'.desiredPower /\ p # dep'.appliedPower
      <3>1. CASE p # work[w].power
        BY <1>2, <1>3, <1>4, <2>1, <3>1 DEF PowersAgree
      <3>2. CASE p = work[w].power
        <4>1. p = dep.desiredPower /\ dep.appliedPower # dep.desiredPower /\ p # 0
          BY <1>2, <3>2
        <4>2. powers[p].run.ended = 0
          BY <2>1, <4>1 DEF PowersAgree
        <4> QED
          BY <1>3, <1>4, <3>2, <4>1, <4>2
      <3> QED
        BY <3>1, <3>2
    <2> QED
      BY <1>4, <2>2, <2>3, <2>4 DEF PowersAgree
  <1>12. ReleasesAgree'
    <2>1. ReleasesAgree
      BY DEF Alone
    <2>2. dep'.appliedRelease # 0 => releases'[dep'.appliedRelease].outcome = "ok"
      BY <1>2, <1>3, <1>4, <1>5, <2>1 DEF ReleasesAgree
    <2>3. dep'.appliedRelease # dep'.desiredRelease =>
            releases'[dep'.desiredRelease].outcome # "ok"
      BY <1>1, <1>2, <1>3, <1>4, <1>5, <1>6, <2>1 DEF ReleasesAgree
    <2> QED
      BY <2>2, <2>3 DEF ReleasesAgree
  <1> QED
    BY <1>8, <1>9, <1>10, <1>11, <1>12 DEF Alone

\* Taking up or putting down a job changes no row and nothing in the cluster.
LEMMA TurnsAlone ==
  ASSUME Sound, ~MayWedge, Alone, NEW w \in Workers,
         UNCHANGED <<rowVars, clusterVars>>,
         \A v \in Workers \ {w} : work'[v] = work[v],
         work'[w].phase \in {"idle", "claimed"},
         (~Open' => ~Open) \/ work[w].phase = "report"
  PROVE  Alone'
  <1>1. /\ dep' = dep /\ live' = live /\ secrets' = secrets /\ powers' = powers
        /\ releases' = releases /\ Wanted' = Wanted
    BY DEF rowVars, clusterVars, Wanted, PowerOf
  <1>2. ASSUME NEW v \in Workers PROVE Knows(v)'
    <2>1. CASE v = w
      BY <2>1, NothingToKnow
    <2>2. CASE v # w
      <3>1. work'[v] = work[v] /\ Seen(v)' = Seen(v) /\ Knows(v)
        BY <1>1, <2>2 DEF Seen, Alone
      <3> QED
        BY <1>1, <3>1 DEF Knows, PlanIsDesired, ClusterFollows
    <2> QED
      BY <2>1, <2>2
  <1>3. ReadyHolds'
    BY <1>1 DEF ReadyHolds, InSync, Alone
  <1> QED
    BY <1>1, <1>2, <1>3 DEF Alone, DeletedIsGone, LiveHasItsSecret, PowersAgree, ReleasesAgree

LEMMA TurnKeepsAlone ==
  ASSUME Sound, ~MayWedge, Alone, NEW w \in Workers,
         ClaimJob(w) \/ ReportJob(w) \/ CrashWorker(w)
  PROVE  Alone'
  <1>1. work \in [Workers -> Work] /\ work[w] \in Work
    BY LocalTyped DEF Sound, TypeOK
  <1>2. CASE ClaimJob(w)
    <2>1. /\ Queue!ClaimNextJob(w) /\ Goto(w, "claimed") /\ UNCHANGED <<rowVars, clusterVars>>
      BY <1>2 DEF ClaimJob
    <2>2. work'[w].phase = "claimed" /\ \A v \in Workers \ {w} : work'[v] = work[v]
      BY <1>1, <2>1 DEF Goto, Work
    <2> QED
      BY <2>1, <2>2, Claims, TurnsAlone DEF Sound
  <1>3. CASE ReportJob(w)
    <2>1. /\ work' = [work EXCEPT ![w] = Idle] /\ work[w].phase = "report"
          /\ UNCHANGED <<rowVars, clusterVars>>
      BY <1>3 DEF ReportJob, At
    <2>2. work'[w].phase = "idle" /\ \A v \in Workers \ {w} : work'[v] = work[v]
      BY <1>1, <2>1, IdleRow
    <2> QED
      BY <2>1, <2>2, TurnsAlone
  <1>4. CASE CrashWorker(w)
    <2>1. /\ Queue!Crash(w) /\ work' = [work EXCEPT ![w] = Idle]
          /\ UNCHANGED <<rowVars, clusterVars>>
      BY <1>4 DEF CrashWorker
    <2>2. work'[w].phase = "idle" /\ \A v \in Workers \ {w} : work'[v] = work[v]
      BY <1>1, <2>1, IdleRow
    <2> QED
      BY <2>1, <2>2, Dies, TurnsAlone DEF Sound
  <1> QED
    BY <1>2, <1>3, <1>4

\* Steps that change neither a row nor the cluster nor a process, and close
\* no job.
LEMMA StillAlone ==
  ASSUME Alone, UNCHANGED <<rowVars, clusterVars, work>>, Open' <=> Open
  PROVE  Alone'
  BY DEF Alone, Knows, PlanIsDesired, ClusterFollows, ReadyHolds, InSync, Wanted, PowerOf, Seen,
         DeletedIsGone, LiveHasItsSecret, PowersAgree, ReleasesAgree, rowVars, clusterVars

LEMMA QuietKeepsAlone ==
  ASSUME Sound, Alone, QuietStep
  PROVE  Alone'
  BY QuietEffect, StillAlone

LEMMA ReadKeepsAlone ==
  ASSUME Sound, Alone, NEW c \in Requests, ReadStep(c)
  PROVE  Alone'
  BY ReadEffect, LeavesQueue, StillAlone DEF SameLocks

\* A row added at the end of a table leaves the others where they are.
LEMMA RowAdded ==
  ASSUME NEW S, NEW s \in Seq(S), NEW e \in S
  PROVE  /\ Len(s) \in Nat /\ Len(Append(s, e)) = Len(s) + 1
         /\ \A i \in 1 .. Len(s) : Append(s, e)[i] = s[i]
         /\ Append(s, e)[Len(s) + 1] = e
  BY AppendProperties, LenProperties

\* A request writes while nobody works and opens a job: what it adds to the
\* tables has not ended yet, and what was applied stays applied.
LEMMA WriteKeepsAlone ==
  ASSUME Sound, ~MayWedge, Alone, WriteStep
  PROVE  Alone'
  <1>1. Open' /\ live' = live /\ secrets' = secrets
    BY WriteEffect, Enqueues DEF Sound
  <1>2. \A v \in Workers : work'[v].phase = "idle"
    BY WriteEffect, Enqueues DEF Sound, Engaged
  <1>3. \A v \in Workers : Knows(v)'
    BY <1>2, NothingToKnow
  <1>4. ReadyHolds'
    BY <1>1, <1>2 DEF ReadyHolds
  <1>5. DeletedIsGone' /\ LiveHasItsSecret'
    BY <1>1, WriteEffect DEF Alone, DeletedIsGone, LiveHasItsSecret
  <1>6. /\ dep \in DeploymentRow /\ releases \in Seq(Outcome) /\ powers \in Seq(PowerRow)
        /\ Len(releases) \in Nat /\ Len(powers) \in Nat
        /\ dep.appliedRelease \in Nat /\ dep.appliedRelease <= Len(releases)
        /\ dep.appliedPower \in Nat /\ dep.appliedPower <= Len(powers)
        /\ dep.desiredPower \in Nat /\ dep.desiredPower <= Len(powers)
        /\ dep.desiredRelease \in Nat /\ dep.desiredRelease = Len(releases)
    BY Lengths DEF Sound, TypeOK, InRange, RowInRange, DeploymentRow
  <1>7. PowersAgree'
    <2>1. PowersAgree /\ dep'.appliedPower = dep.appliedPower
      BY WriteEffect DEF Alone
    <2>2. CASE powers' = powers /\ dep'.desiredPower = dep.desiredPower
      BY <2>1, <2>2 DEF PowersAgree
    <2>3. CASE \E target \in PowerStates :
                 /\ powers' = Append(powers, [state |-> target, run |-> NotStarted])
                 /\ dep'.desiredPower = Len(powers) + 1
      <3>1. PICK target \in PowerStates :
              /\ powers' = Append(powers, [state |-> target, run |-> NotStarted])
              /\ dep'.desiredPower = Len(powers) + 1
        BY <2>3
      <3> DEFINE e == [state |-> target, run |-> NotStarted]
      <3>2. e \in PowerRow /\ e.run.outcome = "none" /\ e.run.ended = 0
        BY DEF PowerRow, NotStarted, Outcome
      <3> HIDE DEF e
      <3>3. /\ Len(powers') = Len(powers) + 1 /\ powers'[Len(powers) + 1] = e
            /\ \A i \in 1 .. Len(powers) : powers'[i] = powers[i]
        BY <1>6, <3>1, <3>2, RowAdded DEF e
      <3> QED
        BY <1>6, <2>1, <3>1, <3>2, <3>3 DEF PowersAgree
    <2> QED
      BY <2>2, <2>3, WriteEffect
  <1>8. ReleasesAgree'
    <2>1. ReleasesAgree /\ dep'.appliedRelease = dep.appliedRelease
      BY WriteEffect DEF Alone
    <2>2. CASE releases' = releases /\ dep'.desiredRelease = dep.desiredRelease
      BY <2>1, <2>2 DEF ReleasesAgree
    <2>3. CASE /\ releases' = Append(releases, NotStarted)
               /\ dep'.desiredRelease = Len(releases) + 1
      <3>1. NotStarted \in Outcome /\ NotStarted.outcome = "none"
        BY DEF NotStarted, Outcome
      <3>2. /\ releases'[Len(releases) + 1] = NotStarted
            /\ \A i \in 1 .. Len(releases) : releases'[i] = releases[i]
        BY <1>6, <2>3, <3>1, RowAdded
      <3> QED
        BY <1>6, <2>1, <2>3, <3>1, <3>2 DEF ReleasesAgree
    <2> QED
      BY <2>2, <2>3, WriteEffect
  <1> QED
    BY <1>3, <1>4, <1>5, <1>7, <1>8 DEF Alone
-----------------------------------------------------------------------------
(* The inductive invariant of the lifecycle, and what follows from it.     *)

LifecycleInv == Sound /\ Progress /\ (~MayWedge => Alone)

\* At the beginning nothing is wanted, nothing runs and nobody works.
LEMMA InitEstablishes == Init => LifecycleInv
  <1> SUFFICES ASSUME Init PROVE LifecycleInv
    OBVIOUS
  <1>1. Sound
    BY InitSound
  <1>2. /\ dep.status = "absent" /\ dep.desiredRelease = 0 /\ dep.appliedRelease = 0
        /\ dep.desiredPower = 0 /\ dep.appliedPower = 0
        /\ powers = << >> /\ live = NothingLive
    BY DEF Init, NoRow
  <1>3. \A w \in Workers : work[w].phase = "idle"
    BY IdleRow DEF Init
  <1>4. Progress
    BY <1>2, <1>3 DEF Progress, NeverStranded, KnowsProgress
  <1>5. Alone
    <2>1. \A w \in Workers : Knows(w)
      BY <1>3, NothingToKnow
    <2>2. PowersAgree
      <3>1. Len(powers) = 0
        BY <1>2, EmptySeq
      <3> QED
        BY <1>2, <3>1 DEF PowersAgree
    <2> QED
      BY <1>2, <2>1, <2>2
      DEF Alone, ReadyHolds, DeletedIsGone, LiveHasItsSecret, ReleasesAgree, NothingLive
  <1> QED
    BY <1>1, <1>4, <1>5 DEF LifecycleInv

\* The kinds of steps there are, by what they do to the invariant.
LEMMA Steps ==
  ASSUME [Next]_vars
  PROVE  \/ WriteStep
         \/ \E c \in Requests : ReadStep(c)
         \/ \E w \in Workers : \/ LocalStep(w) \/ RecordOutcome(w)
                               \/ ClaimJob(w) \/ ReportJob(w) \/ CrashWorker(w)
         \/ QuietStep
  <1>1. CASE RequestStep
    BY <1>1 DEF RequestStep, WriteStep, ReadStep
  <1>2. CASE \E w \in Workers : WorkerStep(w)
    BY <1>2 DEF WorkerStep, ReconcileStep, LocalStep, QuietStep
  <1>3. CASE LeaseStep \/ UNCHANGED vars
    BY <1>3 DEF QuietStep
  <1> QED
    BY <1>1, <1>2, <1>3 DEF Next

\* Every step keeps it.
LEMMA NextKeepsInv == LifecycleInv /\ [Next]_vars => LifecycleInv'
  <1> SUFFICES ASSUME LifecycleInv, [Next]_vars PROVE LifecycleInv'
    OBVIOUS
  <1> USE DEF LifecycleInv
  <1>1. CASE WriteStep
    BY <1>1, WriteKeepsSound, WriteKeepsProgress, WriteKeepsAlone
  <1>2. ASSUME NEW c \in Requests, ReadStep(c) PROVE LifecycleInv'
    BY <1>2, ReadKeepsSound, ReadKeepsProgress, ReadKeepsAlone
  <1>3. CASE QuietStep
    BY <1>3, QuietKeepsSound, QuietKeepsProgress, QuietKeepsAlone
  <1>4. ASSUME NEW w \in Workers, LocalStep(w) PROVE LifecycleInv'
    BY <1>4, LocalKeepsSound, LocalKeepsProgress, LocalKeepsAlone
  <1>5. ASSUME NEW w \in Workers, RecordOutcome(w) PROVE LifecycleInv'
    BY <1>5, RecordKeepsSound, RecordKeepsProgress, RecordKeepsAlone
  <1>6. ASSUME NEW w \in Workers, ClaimJob(w) PROVE LifecycleInv'
    BY <1>6, ClaimKeepsSound, ClaimKeepsProgress, TurnKeepsAlone
  <1>7. ASSUME NEW w \in Workers, ReportJob(w) PROVE LifecycleInv'
    BY <1>7, ReportKeepsSound, ReportKeepsProgress, TurnKeepsAlone
  <1>8. ASSUME NEW w \in Workers, CrashWorker(w) PROVE LifecycleInv'
    BY <1>8, CrashKeepsSound, CrashKeepsProgress, TurnKeepsAlone
  <1> QED
    BY <1>1, <1>2, <1>3, <1>4, <1>5, <1>6, <1>7, <1>8, Steps

\* The rows, the processes, the queue and the cluster fit together in every
\* reachable state, for any number of workers, requests and releases.
THEOREM LifecycleInvariance == Spec => []LifecycleInv
  BY InitEstablishes, NextKeepsInv, PTL DEF Spec

\* The deployment row tells the truth: types, ready means running, deleted
\* means gone, work under way has a job, and the live release has its vars
\* Secret (the end of reconcile(), process_one_job, _reap_vars_secrets).
THEOREM RowStaysTrue == Spec => []RowIsTrue
  <1>1. LifecycleInv => RowIsTrue
    <2> SUFFICES ASSUME LifecycleInv PROVE RowIsTrue
      OBVIOUS
    <2>1. TypeOK /\ NeverStranded
      BY DEF LifecycleInv, Sound, Progress
    <2>2. ReadyIsRunning
      BY DEF LifecycleInv, Alone, ReadyHolds, InSync, Wanted, ReadyIsRunning, Settled, Open
    <2>3. DeletedIsGone /\ LiveHasItsSecret
      BY DEF LifecycleInv, Alone, DeletedIsGone, LiveHasItsSecret
    <2> QED
      BY <2>1, <2>2, <2>3 DEF RowIsTrue
  <1> QED
    BY <1>1, LifecycleInvariance, PTL

\* The outcomes on record and the pointers to them agree: a failed power
\* change is over, an applied release and power did succeed
\* (_record_release_outcome and the pointers reconcile() moves).
THEOREM OutcomesStayTrue == Spec => []OutcomesAgree
  <1>1. LifecycleInv => OutcomesAgree
    <2> SUFFICES ASSUME LifecycleInv, ~MayWedge PROVE FailedPowerIsFinal /\ AppliedSucceeded
      BY DEF OutcomesAgree, FailedPowerIsFinal, AppliedSucceeded
    <2>1. PowersAgree /\ ReleasesAgree
      BY DEF LifecycleInv, Alone
    <2>2. /\ dep \in DeploymentRow /\ Len(releases) \in Nat /\ Len(powers) \in Nat
          /\ RowInRange(dep)
      BY Lengths DEF LifecycleInv, Sound, TypeOK, InRange
    <2>3. FailedPowerIsFinal
      BY <2>1 DEF PowersAgree, FailedPowerIsFinal
    <2>4. AppliedSucceeded
      BY <2>1, <2>2 DEF PowersAgree, ReleasesAgree, AppliedSucceeded, RowInRange, DeploymentRow
    <2> QED
      BY <2>3, <2>4
  <1> QED
    BY <1>1, LifecycleInvariance, PTL

\* No deployment waits for nobody: a status that says work is under way has an
\* open job behind it, whatever leases ran out and whoever died
\* (process_one_job, reconcile()).
THEOREM NobodyStranded == Spec => []NeverStranded
  <1>1. LifecycleInv => NeverStranded
    BY DEF LifecycleInv, Progress
  <1> QED
    BY <1>1, LifecycleInvariance, PTL

\* A step revises no success: only the desired release that is not applied
\* yet is started or ended, and that one has not succeeded.
LEMMA StepKeepsSuccess ==
  ASSUME LifecycleInv, [Next]_vars, ~MayWedge,
         NEW r \in 1 .. Len(releases), releases[r].outcome = "ok"
  PROVE  releases'[r] = releases[r]
  <1>1. Sound /\ Alone /\ releases \in Seq(Outcome)
    BY DEF LifecycleInv, Sound, TypeOK
  <1>2. dep.appliedRelease # dep.desiredRelease => r # dep.desiredRelease
    BY <1>1 DEF Alone, ReleasesAgree
  <1>3. CASE WriteStep
    <2>1. NotStarted \in Outcome
      BY DEF NotStarted, Outcome
    <2>2. releases' = releases \/ releases' = Append(releases, NotStarted)
      BY <1>1, <1>3, WriteEffect
    <2> QED
      BY <1>1, <2>1, <2>2, RowAdded
  <1>4. ASSUME NEW c \in Requests, ReadStep(c) PROVE releases'[r] = releases[r]
    BY <1>1, <1>4, ReadEffect DEF rowVars
  <1>5. CASE QuietStep
    BY <1>1, <1>5, QuietEffect DEF rowVars
  <1>6. ASSUME NEW w \in Workers, LocalStep(w) PROVE releases'[r] = releases[r]
    BY <1>1, <1>2, <1>6, LocalEffect DEF StartsOnly
  <1>7. ASSUME NEW w \in Workers, RecordOutcome(w) PROVE releases'[r] = releases[r]
    <2>1. work[w].phase = "record"
      BY <1>1, <1>7, RecordEffect
    <2>2. r # work[w].release
      BY <1>1, <1>2, <2>1, RecordsTheDesired
    <2> QED
      BY <1>1, <1>7, <2>2, RecordEffect
  <1>8. ASSUME NEW w \in Workers, ClaimJob(w) \/ ReportJob(w) \/ CrashWorker(w)
        PROVE  releases'[r] = releases[r]
    BY <1>8 DEF ClaimJob, ReportJob, CrashWorker, rowVars
  <1> QED
    BY <1>3, <1>4, <1>5, <1>6, <1>7, <1>8, Steps

\* A step installs nothing for a deployment whose deletion was accepted: only
\* Helm does, and a lone process gets there with a live deployment only.
LEMMA StepKeepsUninstalled ==
  ASSUME LifecycleInv, [Next]_vars, ~MayWedge, dep.deletedAt, live = NothingLive
  PROVE  live' = NothingLive
  <1>1. Sound /\ Alone
    BY DEF LifecycleInv
  <1>2. CASE WriteStep
    BY <1>1, <1>2, WriteEffect
  <1>3. ASSUME NEW c \in Requests, ReadStep(c) PROVE live' = NothingLive
    BY <1>1, <1>3, ReadEffect DEF clusterVars
  <1>4. CASE QuietStep
    BY <1>1, <1>4, QuietEffect DEF clusterVars
  <1>5. ASSUME NEW w \in Workers, LocalStep(w) PROVE live' = NothingLive
    <2>1. CASE HelmUpgrade(w)
      <3>1. work[w].phase = "helm"
        BY <2>1 DEF HelmUpgrade, At
      <3>2. PlanIsDesired(w)
        BY <1>1, <3>1 DEF Alone, Knows, Reconciling
      <3> QED
        BY <3>1, <3>2 DEF PlanIsDesired
    <2>2. CASE ~HelmUpgrade(w)
      BY <1>5, <2>2
      DEF LocalStep, LoadAndClaimRelease, ClaimPower, ValidateInputState, PublishPrerequisites,
          PrerequisiteFails, HelmRollsBack, AfterUpgradeFails, SweepAndReap, HelmUninstall,
          DeleteNamespace, DeleteFails, clusterVars
    <2> QED
      BY <2>1, <2>2
  <1>6. ASSUME NEW w \in Workers, RecordOutcome(w) \/ ClaimJob(w) \/ ReportJob(w) \/ CrashWorker(w)
        PROVE  live' = NothingLive
    BY <1>6 DEF RecordOutcome, ClaimJob, ReportJob, CrashWorker, clusterVars
  <1> QED
    BY <1>2, <1>3, <1>4, <1>5, <1>6, Steps

\* What is final stays: a success is not revised, by no re-run and no later
\* rollout, and a deletion not undone (_record_release_outcome, reconcile()).
THEOREM FinalStaysFinal == Spec => FinalIsFinal
  <1>1. LifecycleInv /\ [Next]_vars =>
          [~MayWedge => \A r \in 1 .. Len(releases) :
             releases[r].outcome = "ok" => releases'[r] = releases[r]]_vars
    BY StepKeepsSuccess
  <1>2. LifecycleInv /\ [Next]_vars =>
          [~MayWedge /\ dep.deletedAt /\ live = NothingLive => live' = NothingLive]_vars
    BY StepKeepsUninstalled
  <1> QED
    BY <1>1, <1>2, LifecycleInvariance, PTL DEF Spec, FinalIsFinal, SuccessIsFinal, NoResurrection
-----------------------------------------------------------------------------
(* The promise of Rollout, kept step by step.                              *)

\* What the last success brought about.
Applied == [release |-> dep.appliedRelease, power |-> PowerOf(dep.appliedPower)]

\* A step that the owner of the deployment does not see.
Unseen ==
  /\ dep'.status = dep.status /\ dep'.deletedAt = dep.deletedAt
  /\ Wanted' = Wanted /\ Applied' = Applied
  /\ live' = live
  /\ Open' <=> Open

LEMMA UnseenStutters == Unseen => UNCHANGED AsRollout!rolloutVars
  BY DEF Unseen, AsRollout!rolloutVars, Wanted, Applied, Open, Queue!HasOpenJob

\* The power states that the two references stand for, before and after a step
\* that keeps the state of every power row (_claim_power, _record_power_outcome).
LEMMA StatesKept ==
  ASSUME Sound, Len(powers') \in Nat,
         \A p \in 1 .. Len(powers) : powers'[p].state = powers[p].state,
         NEW p \in Nat, p <= Len(powers)
  PROVE  /\ PowerOf(p) = (IF p = 0 THEN "running" ELSE powers'[p].state)
         /\ PowerOf(p) \in PowerStates
  <1>1. Len(powers) \in Nat /\ powers \in Seq(PowerRow)
    BY Lengths DEF Sound, TypeOK
  <1>2. CASE p = 0
    BY <1>2 DEF PowerOf, PowerStates
  <1>3. CASE p # 0
    <2>1. p \in 1 .. Len(powers)
      BY <1>1, <1>3
    <2>2. powers[p] \in PowerRow
      BY <1>1, <2>1, ElementOfSeq
    <2> QED
      BY <1>3, <2>1, <2>2 DEF PowerOf, PowerRow
  <1> QED
    BY <1>2, <1>3

\* The references of the deployment row are numbers within the tables.
LEMMA References ==
  ASSUME Sound
  PROVE  /\ dep \in DeploymentRow
         /\ Len(releases) \in Nat /\ Len(powers) \in Nat
         /\ dep.desiredPower \in Nat /\ dep.desiredPower <= Len(powers)
         /\ dep.appliedPower \in Nat /\ dep.appliedPower <= Len(powers)
         /\ dep.desiredRelease \in Nat /\ dep.desiredRelease = Len(releases)
         /\ dep.appliedRelease \in Nat
  BY Lengths DEF Sound, TypeOK, InRange, RowInRange, DeploymentRow

\* A step that keeps the rows' states and the row's references keeps what is
\* wanted and what is applied.
LEMMA SameReferences ==
  ASSUME Sound, Len(powers') \in Nat,
         \A p \in 1 .. Len(powers) : powers'[p].state = powers[p].state,
         dep'.desiredPower = dep.desiredPower, dep'.appliedPower = dep.appliedPower
  PROVE  /\ PowerOf(dep.desiredPower)' = PowerOf(dep.desiredPower)
         /\ PowerOf(dep.appliedPower)' = PowerOf(dep.appliedPower)
  <1>1. /\ PowerOf(dep.desiredPower) =
             (IF dep.desiredPower = 0 THEN "running" ELSE powers'[dep.desiredPower].state)
        /\ PowerOf(dep.appliedPower) =
             (IF dep.appliedPower = 0 THEN "running" ELSE powers'[dep.appliedPower].state)
    BY References, StatesKept
  <1>2. /\ PowerOf(dep.desiredPower)' =
             (IF dep'.desiredPower = 0 THEN "running" ELSE powers'[dep'.desiredPower].state)
        /\ PowerOf(dep.appliedPower)' =
             (IF dep'.appliedPower = 0 THEN "running" ELSE powers'[dep'.appliedPower].state)
    BY DEF PowerOf
  <1> QED
    BY <1>1, <1>2

\* A first deployment is asked for (create_deployment).
LEMMA CreateIsAsked ==
  ASSUME Sound, CreateDeployment
  PROVE  AsRollout!Create
  <1>1. dep = NoRow /\ dep' = [NoRow EXCEPT !.status = "provisioning", !.desiredRelease = 1]
    BY DEF CreateDeployment, Sound, InRange
  <1>2. /\ dep.status = "absent" /\ dep'.status = "provisioning"
        /\ dep'.deletedAt = dep.deletedAt
        /\ dep.desiredRelease = 0 /\ dep'.desiredRelease = 1
        /\ dep.appliedRelease = 0 /\ dep'.appliedRelease = 0
        /\ dep.desiredPower = 0 /\ dep'.desiredPower = 0
        /\ dep.appliedPower = 0 /\ dep'.appliedPower = 0
    BY <1>1 DEF NoRow
  <1>3. Queue!EnqueueJob(App) /\ live' = live /\ ~Open /\ Open'
    BY Enqueues DEF CreateDeployment, clusterVars, Sound
  <1> QED
    BY <1>2, <1>3 DEF AsRollout!Create, AsRollout!Accept, PowerOf, Open, Queue!HasOpenJob

\* The next release is asked for, whatever the number the request read was
\* (update_deployment).
LEMMA UpdateIsAsked ==
  ASSUME Sound, NEW c \in Requests, UpdateCommit(c)
  PROVE  AsRollout!Update
  <1>1. /\ dep \in DeploymentRow /\ dep.desiredRelease \in Nat /\ dep.desiredRelease = Len(releases)
        /\ Len(powers) \in Nat
    BY References
  <1>2. api[c].number = dep.desiredRelease + 1
    <2>1. api[c].number \in Nat /\ api[c].number <= Len(releases) + 1
      BY DEF Sound, TypeOK, InRange, Request
    <2>2. api[c].number > Len(releases)
      BY <1>1, <2>1 DEF UpdateCommit, UpdateRefused
    <2> QED
      BY <1>1, <2>1, <2>2
  <1>3. /\ dep.status \in {"ready", "error"} /\ powers' = powers /\ live' = live
        /\ dep' = [dep EXCEPT !.status = "provisioning", !.desiredRelease = api[c].number]
        /\ ~Open /\ Open'
    BY <1>1, Enqueues DEF UpdateCommit, UpdateRefused, clusterVars, Sound
  <1>4. /\ dep'.status = "provisioning" /\ dep'.deletedAt = dep.deletedAt
        /\ dep'.desiredRelease = dep.desiredRelease + 1 /\ dep'.appliedRelease = dep.appliedRelease
        /\ dep'.desiredPower = dep.desiredPower /\ dep'.appliedPower = dep.appliedPower
    BY <1>1, <1>2, <1>3 DEF DeploymentRow
  <1>5. /\ PowerOf(dep.desiredPower)' = PowerOf(dep.desiredPower)
        /\ PowerOf(dep.appliedPower)' = PowerOf(dep.appliedPower)
    BY <1>1, <1>3, <1>4, SameReferences
  <1> QED
    BY <1>3, <1>4, <1>5 DEF AsRollout!Update, AsRollout!Accept, Open, Queue!HasOpenJob

\* The deletion is asked for, also on the strength of a status that was read
\* before (delete_deployment).
LEMMA DeleteIsAsked ==
  ASSUME Sound, NEW c \in Requests, DeleteCommit(c)
  PROVE  AsRollout!Delete
  <1>1. dep \in DeploymentRow /\ Len(powers) \in Nat
    BY References
  <1>2. /\ dep.status # "absent" /\ powers' = powers /\ live' = live
        /\ dep' = [dep EXCEPT !.status = "deleting", !.deletedAt = TRUE]
        /\ ~Open /\ Open'
    BY Enqueues DEF DeleteCommit, clusterVars, Sound, InRange
  <1>3. /\ dep'.status = "deleting" /\ dep'.deletedAt = TRUE
        /\ dep'.desiredRelease = dep.desiredRelease /\ dep'.appliedRelease = dep.appliedRelease
        /\ dep'.desiredPower = dep.desiredPower /\ dep'.appliedPower = dep.appliedPower
    BY <1>1, <1>2 DEF DeploymentRow
  <1>4. /\ PowerOf(dep.desiredPower)' = PowerOf(dep.desiredPower)
        /\ PowerOf(dep.appliedPower)' = PowerOf(dep.appliedPower)
    BY <1>1, <1>2, <1>3, SameReferences
  <1> QED
    BY <1>2, <1>3, <1>4 DEF AsRollout!Delete, AsRollout!Accept, Open, Queue!HasOpenJob

\* The other power state is asked for (_change_power).
LEMMA PowerIsAsked ==
  ASSUME Sound, NEW target \in PowerStates, ChangePower(target)
  PROVE  AsRollout!ChangePower
  <1> DEFINE e == [state |-> target, run |-> NotStarted]
  <1>1. /\ dep \in DeploymentRow /\ Len(powers) \in Nat
        /\ dep.desiredPower \in Nat /\ dep.desiredPower <= Len(powers)
        /\ dep.appliedPower \in Nat /\ dep.appliedPower <= Len(powers)
        /\ powers \in Seq(PowerRow)
    BY References DEF Sound, TypeOK
  <1>2. /\ dep.status = "ready" /\ PowerOf(dep.desiredPower) # target
        /\ dep' = [dep EXCEPT !.desiredPower = Len(powers) + 1]
        /\ powers' = Append(powers, e)
        /\ live' = live /\ ~Open /\ Open'
    BY Enqueues DEF ChangePower, clusterVars, Sound
  <1>3. /\ dep'.status = "ready" /\ dep'.deletedAt = dep.deletedAt
        /\ dep'.desiredRelease = dep.desiredRelease /\ dep'.appliedRelease = dep.appliedRelease
        /\ dep'.desiredPower = Len(powers) + 1 /\ dep'.appliedPower = dep.appliedPower
    BY <1>1, <1>2 DEF DeploymentRow
  <1>4. e \in PowerRow /\ e.state = target
    BY DEF PowerRow, NotStarted, Outcome
  <1> HIDE DEF e
  <1>5. /\ Len(powers') = Len(powers) + 1 /\ powers'[Len(powers) + 1] = e
        /\ \A i \in 1 .. Len(powers) : powers'[i] = powers[i]
    BY <1>1, <1>2, <1>4, RowAdded
  <1>6. PowerOf(dep.desiredPower)' = target
    BY <1>1, <1>3, <1>4, <1>5 DEF PowerOf
  <1>7. PowerOf(dep.appliedPower)' = PowerOf(dep.appliedPower)
    BY <1>1, <1>3, <1>5 DEF PowerOf
  <1>8. PowerOf(dep.desiredPower) \in PowerStates
    BY <1>1, <1>5, StatesKept
  <1>9. target = IF PowerOf(dep.desiredPower) = "running" THEN "stopped" ELSE "running"
    BY <1>2, <1>8 DEF PowerStates
  <1> QED
    BY <1>2, <1>3, <1>6, <1>7, <1>9
    DEF AsRollout!ChangePower, AsRollout!Accept, Open, Queue!HasOpenJob

\* Every request that enqueues a job is one the owner may make.
LEMMA WriteIsAsked ==
  ASSUME Sound, WriteStep
  PROVE  AsRollout!Next
  BY CreateIsAsked, UpdateIsAsked, DeleteIsAsked, PowerIsAsked DEF WriteStep, AsRollout!Next

\* Recording the start of a row is nothing the owner sees.
LEMMA StartsUnseen ==
  ASSUME Sound, StartsOnly, dep' = dep, live' = live, Open' <=> Open
  PROVE  Unseen
  <1>1. Len(powers') \in Nat /\ \A p \in 1 .. Len(powers) : powers'[p].state = powers[p].state
    BY References DEF StartsOnly
  <1> QED
    BY <1>1, SameReferences DEF Unseen, Wanted, Applied

\* A call to Helm installs what is wanted, or empties the cluster of a deleted
\* deployment; every other step before the outcome is unseen.
LEMMA LocalWorks ==
  ASSUME Sound, ~MayWedge, Alone, NEW w \in Workers, LocalStep(w)
  PROVE  [AsRollout!Next]_(AsRollout!rolloutVars)
  <1>1. /\ StartsOnly /\ dep' = dep /\ (Open' <=> Open)
        /\ work[w].phase # "idle"
    BY LocalEffect, LeavesQueue DEF SameLocks
  <1>2. Open /\ Open'
    BY <1>1, NobodyElse
  <1>3. /\ PowerOf(dep.desiredPower)' = PowerOf(dep.desiredPower)
        /\ PowerOf(dep.appliedPower)' = PowerOf(dep.appliedPower)
    <2>1. Len(powers') \in Nat
      BY <1>1, References DEF StartsOnly
    <2> QED
      BY <1>1, <2>1, SameReferences DEF StartsOnly
  <1>4. CASE HelmUpgrade(w)
    <2>1. /\ work[w].phase = "helm"
          /\ live' = [release |-> work[w].values, power |-> PowerOf(Seen(w).desiredPower)]
      BY <1>4 DEF HelmUpgrade, At
    <2>2. Seen(w) = dep /\ PlanIsDesired(w)
      BY <2>1 DEF Alone, Knows, Reconciling
    <2>3. ~dep.deletedAt /\ work[w].values = dep.desiredRelease
      BY <2>1, <2>2 DEF PlanIsDesired
    <2>4. AsRollout!Install
      BY <1>1, <1>2, <1>3, <2>1, <2>2, <2>3 DEF AsRollout!Install, Open, Queue!HasOpenJob
    <2> QED
      BY <2>4 DEF AsRollout!Next
  <1>5. CASE HelmUninstall(w) \/ DeleteNamespace(w)
    <2>1. live' = NothingLive /\ work[w].phase \in {"teardown", "namespace"}
      BY <1>5 DEF HelmUninstall, DeleteNamespace, At
    <2>2. dep.deletedAt /\ dep \in DeploymentRow
      BY <2>1, References DEF Sound, InRange, LocalInRange
    <2>3. AsRollout!Remove
      BY <1>1, <1>2, <1>3, <2>1, <2>2
      DEF AsRollout!Remove, AsRollout!Nothing, NothingLive, Open, Queue!HasOpenJob
    <2> QED
      BY <2>3 DEF AsRollout!Next
  <1>6. CASE ~HelmUpgrade(w) /\ ~HelmUninstall(w) /\ ~DeleteNamespace(w)
    <2>1. live' = live
      BY <1>6
      DEF LocalStep, LoadAndClaimRelease, ClaimPower, ValidateInputState, PublishPrerequisites,
          PrerequisiteFails, HelmRollsBack, AfterUpgradeFails, SweepAndReap, DeleteFails,
          clusterVars
    <2>2. Unseen
      BY <1>1, <2>1, StartsUnseen
    <2> QED
      BY <2>2, UnseenStutters
  <1> QED
    BY <1>4, <1>5, <1>6

\* The outcome that reconcile() records is the one the owner was promised:
\* ready if what is wanted runs, deleted if nothing does, and otherwise an
\* error that takes back a power change.
LEMMA RecordWorks ==
  ASSUME Sound, ~MayWedge, Alone, NEW w \in Workers, RecordOutcome(w)
  PROVE  AsRollout!Next
  <1>1. /\ work[w].phase = "record" /\ live' = live
        /\ work[w].result \in {"ready", "error", "deleted"}
        /\ dep'.deletedAt = dep.deletedAt /\ dep'.desiredRelease = dep.desiredRelease
        /\ Len(powers') = Len(powers)
        /\ \A p \in 1 .. Len(powers) : powers'[p].state = powers[p].state
    BY RecordEffect, LocalTyped DEF Sound
  <1>2. Open /\ Open'
    <2>1. Open' <=> Open
      BY RecordEffect, LeavesQueue DEF SameLocks
    <2> QED
      BY <1>1, <2>1, NobodyElse
  <1>3. /\ Seen(w) = dep /\ PlanIsDesired(w) /\ ClusterFollows(w)
        /\ work[w].release # 0 => /\ work[w].release = dep.desiredRelease
                                  /\ dep.appliedRelease # dep.desiredRelease
        /\ work[w].power # 0 => /\ work[w].power = dep.desiredPower
                                /\ dep.appliedPower # dep.desiredPower
        /\ ~dep.deletedAt /\ work[w].release = 0 => dep.appliedRelease = dep.desiredRelease
        /\ ~dep.deletedAt /\ work[w].power = 0 => dep.appliedPower = dep.desiredPower
    BY <1>1, RecordsTheDesired DEF Alone, Knows, Reconciling
  <1>4. /\ dep \in DeploymentRow /\ Len(powers) \in Nat
        /\ dep.desiredPower \in Nat /\ dep.desiredPower <= Len(powers)
        /\ dep.appliedPower \in Nat /\ dep.appliedPower <= Len(powers)
    BY References
  <1>5. /\ dep'.status = work[w].result
        /\ dep'.appliedRelease = IF work[w].result = "ready" /\ work[w].release # 0
                                 THEN dep.desiredRelease ELSE dep.appliedRelease
        /\ dep'.appliedPower = IF work[w].result = "ready" /\ work[w].power # 0
                               THEN dep.desiredPower ELSE dep.appliedPower
        /\ dep'.desiredPower = IF work[w].result # "ready" /\ work[w].power # 0
                               THEN dep.appliedPower ELSE dep.desiredPower
    BY <1>3, RecordEffect
  <1>6. /\ PowerOf(dep.desiredPower) =
             (IF dep.desiredPower = 0 THEN "running" ELSE powers'[dep.desiredPower].state)
        /\ PowerOf(dep.appliedPower) =
             (IF dep.appliedPower = 0 THEN "running" ELSE powers'[dep.appliedPower].state)
    BY <1>1, <1>4, StatesKept
  <1>7. CASE work[w].result = "ready"
    <2>1. ~dep.deletedAt /\ live = Wanted
      BY <1>1, <1>3, <1>7 DEF ClusterFollows
    <2>2. /\ dep'.appliedRelease = dep.desiredRelease /\ dep'.appliedPower = dep.desiredPower
          /\ dep'.desiredPower = dep.desiredPower
      BY <1>3, <1>5, <1>7, <2>1
    <2>3. /\ PowerOf(dep.desiredPower)' = PowerOf(dep.desiredPower)
          /\ PowerOf(dep.appliedPower)' = PowerOf(dep.desiredPower)
      BY <1>6, <2>2 DEF PowerOf
    <2>4. AsRollout!Succeed
      BY <1>1, <1>2, <1>5, <1>7, <2>1, <2>2, <2>3
      DEF AsRollout!Succeed, Wanted, Open, Queue!HasOpenJob
    <2> QED
      BY <2>4 DEF AsRollout!Next
  <1>8. CASE work[w].result = "error"
    <2>1. /\ dep'.appliedRelease = dep.appliedRelease /\ dep'.appliedPower = dep.appliedPower
          /\ dep'.desiredPower = IF dep.deletedAt THEN dep.desiredPower ELSE dep.appliedPower
      <3>1. dep.deletedAt => work[w].power = 0
        BY <1>3 DEF PlanIsDesired
      <3> QED
        BY <1>3, <1>5, <1>8, <3>1
    <2>2. /\ PowerOf(dep.desiredPower)' =
               (IF dep.deletedAt THEN PowerOf(dep.desiredPower) ELSE PowerOf(dep.appliedPower))
          /\ PowerOf(dep.appliedPower)' = PowerOf(dep.appliedPower)
      BY <1>6, <2>1 DEF PowerOf
    <2>3. AsRollout!Fail
      BY <1>1, <1>2, <1>5, <1>8, <2>1, <2>2 DEF AsRollout!Fail, Open, Queue!HasOpenJob
    <2> QED
      BY <2>3 DEF AsRollout!Next
  <1>9. CASE work[w].result = "deleted"
    <2>1. dep.deletedAt /\ live = NothingLive
      BY <1>1, <1>3, <1>9 DEF ClusterFollows, Sound, InRange, LocalInRange
    <2>2. work[w].power = 0
      BY <1>3, <2>1 DEF PlanIsDesired
    <2>3. /\ dep'.appliedRelease = dep.appliedRelease /\ dep'.appliedPower = dep.appliedPower
          /\ dep'.desiredPower = dep.desiredPower
      BY <1>5, <1>9, <2>2
    <2>4. /\ PowerOf(dep.desiredPower)' = PowerOf(dep.desiredPower)
          /\ PowerOf(dep.appliedPower)' = PowerOf(dep.appliedPower)
      BY <1>6, <2>3 DEF PowerOf
    <2>5. AsRollout!Vanish
      BY <1>1, <1>2, <1>5, <1>9, <2>1, <2>3, <2>4
      DEF AsRollout!Vanish, AsRollout!Nothing, NothingLive, Open, Queue!HasOpenJob
    <2> QED
      BY <2>5 DEF AsRollout!Next
  <1> QED
    BY <1>1, <1>7, <1>8, <1>9

\* Steps that change neither the tables nor the cluster nor whether a job is
\* open.
LEMMA TablesUnseen ==
  ASSUME UNCHANGED <<rowVars, clusterVars>>, Open' <=> Open
  PROVE  Unseen
  BY DEF Unseen, Wanted, Applied, PowerOf, rowVars, clusterVars

\* The report closes the job after the outcome was recorded (process_one_job);
\* a job that lost its lock is not closed, and nothing is seen.
LEMMA ReportSettles ==
  ASSUME Sound, ~MayWedge, Alone, NEW w \in Workers, ReportJob(w)
  PROVE  [AsRollout!Next]_(AsRollout!rolloutVars)
  <1>1. UNCHANGED <<rowVars, clusterVars>> /\ work[w].phase = "report"
    BY DEF ReportJob, At
  <1>2. CASE Open' <=> Open
    BY <1>1, <1>2, TablesUnseen, UnseenStutters
  <1>3. CASE ~(Open' <=> Open)
    <2>1. Open /\ ~Open'
      BY <1>1, <1>3, NobodyElse
    <2>2. dep.status \in {"ready", "error", "deleted"}
      <3>1. dep.status = work[w].result /\ work[w].result # "none"
        BY <1>1 DEF Alone, Knows, ClusterFollows, Sound, InRange, LocalInRange
      <3> QED
        BY <3>1, LocalTyped DEF Sound
    <2>3. dep' = dep /\ live' = live /\ powers' = powers
      BY <1>1 DEF rowVars, clusterVars
    <2>4. AsRollout!Settle
      BY <2>1, <2>2, <2>3 DEF AsRollout!Settle, PowerOf, Open, Queue!HasOpenJob
    <2> QED
      BY <2>4 DEF AsRollout!Next
  <1> QED
    BY <1>2, <1>3

\* Every step of the lifecycle is a step of the promise, or unseen.
LEMMA StepsKeepPromise ==
  ASSUME LifecycleInv, ~MayWedge, [Next]_vars
  PROVE  [AsRollout!Next]_(AsRollout!rolloutVars)
  <1>1. Sound /\ Alone
    BY DEF LifecycleInv
  <1>2. CASE WriteStep
    BY <1>1, <1>2, WriteIsAsked
  <1>3. ASSUME NEW c \in Requests, ReadStep(c)
        PROVE  [AsRollout!Next]_(AsRollout!rolloutVars)
    BY <1>1, <1>3, ReadEffect, LeavesQueue, TablesUnseen, UnseenStutters DEF SameLocks
  <1>4. CASE QuietStep
    BY <1>1, <1>4, QuietEffect, TablesUnseen, UnseenStutters
  <1>5. ASSUME NEW w \in Workers, LocalStep(w)
        PROVE  [AsRollout!Next]_(AsRollout!rolloutVars)
    BY <1>1, <1>5, LocalWorks
  <1>6. ASSUME NEW w \in Workers, RecordOutcome(w)
        PROVE  [AsRollout!Next]_(AsRollout!rolloutVars)
    BY <1>1, <1>6, RecordWorks
  <1>7. ASSUME NEW w \in Workers, ReportJob(w)
        PROVE  [AsRollout!Next]_(AsRollout!rolloutVars)
    BY <1>1, <1>7, ReportSettles
  <1>8. ASSUME NEW w \in Workers, ClaimJob(w) \/ CrashWorker(w)
        PROVE  [AsRollout!Next]_(AsRollout!rolloutVars)
    <2>1. Open' <=> Open
      BY <1>1, <1>8, Claims, Dies DEF ClaimJob, CrashWorker, Sound
    <2>2. UNCHANGED <<rowVars, clusterVars>>
      BY <1>8 DEF ClaimJob, CrashWorker
    <2> QED
      BY <2>1, <2>2, TablesUnseen, UnseenStutters
  <1> QED
    BY <1>2, <1>3, <1>4, <1>5, <1>6, <1>7, <1>8, Steps

\* At the beginning nothing was asked for.
LEMMA StartsUnasked == Init => AsRollout!Init
  <1> SUFFICES ASSUME Init PROVE AsRollout!Init
    OBVIOUS
  <1>1. jobs = << >> /\ Len(jobs) = 0
    BY EmptySeq DEF Init, Queue!Init
  <1>2. ~Queue!HasOpenJob(App)
    BY <1>1 DEF Queue!HasOpenJob, Queue!OpenJobs, Queue!JobId
  <1> QED
    BY <1>2 DEF Init, NoRow, NothingLive, PowerOf, Queue!HasOpenJob,
                AsRollout!Init, AsRollout!Unasked, AsRollout!Nothing

\* A deployment keeps its promise to its owner, for any number of requests,
\* workers, crashes and re-runs: what the API, the queue and reconcile() do
\* together is one request at a time, brought about or given up.  Leases have
\* to outlive the processes that hold them.
THEOREM PromiseKept ==
  ASSUME ~MayWedge
  PROVE  Spec => KeepsItsPromise
  <1>1. Init => AsRollout!Init
    BY StartsUnasked
  <1>2. LifecycleInv /\ [Next]_vars => [AsRollout!Next]_(AsRollout!rolloutVars)
    BY StepsKeepPromise
  <1> QED
    BY <1>1, <1>2, LifecycleInvariance, PTL DEF Spec, KeepsItsPromise, AsRollout!Spec
=============================================================================

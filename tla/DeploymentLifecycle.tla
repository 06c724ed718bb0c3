------------------------- MODULE DeploymentLifecycle -------------------------
(***************************************************************************)
(* One deployment, from the request that creates it to its deletion: the   *)
(* API requests that change it (services/deployments.py, services/         *)
(* power.py), the reconcile jobs they enqueue (ReconcileQueue) and the     *)
(* worker processes that run DeploymentReconciler.reconcile                *)
(* (services/reconcile.py) against the cluster.                            *)
(*                                                                         *)
(* Every database transaction and every call to Helm or Kubernetes is a    *)
(* step of its own, so requests, other workers and crashes come between    *)
(* them.  A release and a power row are identified by their number in the  *)
(* deployment; 0 stands for a null reference.                              *)
(***************************************************************************)
EXTENDS Naturals, Sequences

CONSTANTS
  App,           \* the deployment
  Workers, NoWorker, MayWedge, MaxJobs, MaxCrashes, MaxAttempts,  \* of the queue
  Requests,      \* API requests that may be in progress at once
  HasDatabase,   \* does the product have a tenant database?
  MaxReleases,   \* bound: releases ever created
  MaxPowers      \* bound: power rows ever created

ASSUME LifecycleAssumption ==
  /\ NoWorker \notin Workers
  /\ MayWedge \in BOOLEAN
  /\ MaxJobs \in Nat /\ MaxCrashes \in Nat /\ MaxAttempts \in Nat
  /\ HasDatabase \in BOOLEAN
  /\ MaxReleases \in Nat
  /\ MaxPowers \in Nat

VARIABLES
  jobs, holds, up, crashes,   \* the queue: see ReconcileQueue
  dep,        \* the deployment row
  releases,   \* its deployment_release rows
  powers,     \* its deployment_power rows
  live,       \* the cluster: the Helm release that is deployed
  secrets,    \* the cluster: releases whose vars Secret exists
  work,       \* work[w]: the local state of process w in reconcile()
  api         \* api[c]: what request c has read before it writes

Queue == INSTANCE ReconcileQueue WITH Deployments <- {App}

queueVars == <<jobs, holds, up, crashes>>
rowVars == <<dep, releases, powers>>
clusterVars == <<live, secrets>>
vars == <<queueVars, rowVars, clusterVars, work, api>>

-----------------------------------------------------------------------------
(* State.                                                                  *)

Status == {"absent", "pending", "provisioning", "ready", "error", "deleting", "deleted"}

PowerStates == {"running", "stopped"}

\* DeploymentORM: the columns that decide what a reconcile does.
DeploymentRow ==
  [status : Status, deletedAt : BOOLEAN,
   desiredRelease : Nat, appliedRelease : Nat,
   desiredPower : Nat, appliedPower : Nat]

\* What a reconcile leaves on a release or power row: whether work began, how
\* often its end was written, and with which outcome.
Outcome == [started : BOOLEAN, ended : Nat, outcome : {"none", "ok", "failed"}]

NotStarted == [started |-> FALSE, ended |-> 0, outcome |-> "none"]

PowerRow == [state : PowerStates, run : Outcome]

\* What is deployed in the cluster: a release rendered in a power state.
NothingLive == [release |-> 0, power |-> "stopped"]

Phases == {"idle", "claimed", "power", "validate", "publish", "helm", "sweep",
           "teardown", "namespace", "record", "report"}

\* A process's local state: where it is in reconcile(), its copy of the
\* deployment row (`expired' once a commit made SQLAlchemy forget it), the
\* release it renders, the release and power rows whose outcome it will
\* record, and its result.
Work == [phase : Phases, row : DeploymentRow, expired : BOOLEAN, values : Nat,
         release : Nat, power : Nat, result : {"none", "ready", "error", "deleted"}]

Request == [op : {"none", "update", "delete"}, number : Nat]

NoRow == [status |-> "absent", deletedAt |-> FALSE, desiredRelease |-> 0,
          appliedRelease |-> 0, desiredPower |-> 0, appliedPower |-> 0]

Idle == [phase |-> "idle", row |-> NoRow, expired |-> TRUE, values |-> 0,
         release |-> 0, power |-> 0, result |-> "none"]

NoRequest == [op |-> "none", number |-> 0]

\* The type invariant of the deployment, its rows, the cluster and the
\* processes that work on it.
TypeOK ==
  /\ Queue!TypeOK
  /\ dep \in DeploymentRow
  /\ releases \in Seq(Outcome)
  /\ powers \in Seq(PowerRow)
  /\ live \in [release : Nat, power : PowerStates]
  /\ secrets \in SUBSET Nat
  /\ work \in [Workers -> Work]
  /\ api \in [Requests -> Request]

Init ==
  /\ Queue!Init
  /\ dep = NoRow
  /\ releases = << >>
  /\ powers = << >>
  /\ live = NothingLive
  /\ secrets = {}
  /\ work = [w \in Workers |-> Idle]
  /\ api = [c \in Requests |-> NoRequest]

\* The power state that a power reference stands for; a deployment that was
\* never stopped has none and runs.
PowerOf(p) == IF p = 0 THEN "running" ELSE powers[p].state

-----------------------------------------------------------------------------
(* API requests.  A request reads, then writes in one transaction, its     *)
(* job included; a refused job rolls everything back.                      *)

\* create_deployment on a free plan: row, first release and job together.
CreateDeployment ==
  /\ dep.status = "absent"
  /\ MaxReleases > 0
  /\ Queue!EnqueueJob(App)
  /\ dep' = [NoRow EXCEPT !.status = "provisioning", !.desiredRelease = 1]
  /\ releases' = <<NotStarted>>
  /\ UNCHANGED <<powers, clusterVars, work, api>>

\* update_deployment up to _next_release_number: every check that needs no
\* lock, and the number of the release it will create.
UpdateRead(c) ==
  /\ api[c] = NoRequest
  /\ dep.status # "absent"
  /\ Len(releases) < MaxReleases
  /\ api' = [api EXCEPT ![c] = [op |-> "update", number |-> Len(releases) + 1]]
  /\ UNCHANGED <<queueVars, rowVars, clusterVars, work>>

\* Mutant of UpdateRefused: the guarded UPDATE lets a pending row through.
UpdateRefused_PendingPasses(c) ==
  \/ dep.status \notin {"pending", "ready", "error"}
  \/ api[c].number <= Len(releases)
  \/ Queue!HasOpenJob(App)

\* The guarded UPDATE matches no row, the release number is taken by now, or
\* a job is open: the request fails and leaves nothing behind.
UpdateRefused(c) ==
  \/ dep.status \notin {"ready", "error"}
  \/ api[c].number <= Len(releases)
  \/ Queue!HasOpenJob(App)

\* The guarded UPDATE and the inserts of the release and the job.  deleted_at
\* is not part of the guard: a deletion that failed can be updated.
UpdateCommit(c) ==
  /\ api[c].op = "update"
  /\ ~UpdateRefused(c)
  /\ Queue!EnqueueJob(App)
  /\ dep' = [dep EXCEPT !.status = "provisioning", !.desiredRelease = api[c].number]
  /\ releases' = Append(releases, NotStarted)
  /\ api' = [api EXCEPT ![c] = NoRequest]
  /\ UNCHANGED <<powers, clusterVars, work>>

\* delete_deployment's read: only a status that is not deleting or deleted
\* leads to a write.
DeleteRead(c) ==
  /\ api[c] = NoRequest
  /\ dep.status \notin {"absent", "deleting", "deleted"}
  /\ api' = [api EXCEPT ![c] = [op |-> "delete", number |-> 0]]
  /\ UNCHANGED <<queueVars, rowVars, clusterVars, work>>

\* Mutant of DeleteCommit: a refused job does not roll the deletion back.
DeleteCommit_JobOptional(c) ==
  /\ api[c].op = "delete"
  /\ Queue!EnqueueJob(App) \/ UNCHANGED queueVars
  /\ dep' = [dep EXCEPT !.status = "deleting", !.deletedAt = TRUE]
  /\ api' = [api EXCEPT ![c] = NoRequest]
  /\ UNCHANGED <<releases, powers, clusterVars, work>>

\* delete_deployment's write, on the strength of the status read before.
DeleteCommit(c) ==
  /\ api[c].op = "delete"
  /\ Queue!EnqueueJob(App)
  /\ dep' = [dep EXCEPT !.status = "deleting", !.deletedAt = TRUE]
  /\ api' = [api EXCEPT ![c] = NoRequest]
  /\ UNCHANGED <<releases, powers, clusterVars, work>>

\* An update or a deletion is answered with an error and rolled back.
RefuseRequest(c) ==
  /\ \/ api[c].op = "update" /\ UpdateRefused(c)
     \/ api[c].op = "delete" /\ Queue!HasOpenJob(App)
  /\ api' = [api EXCEPT ![c] = NoRequest]
  /\ UNCHANGED <<queueVars, rowVars, clusterVars, work>>

\* stop_deployment and start_deployment.  The row is locked from the read to
\* the commit, so the whole of _change_power is one step.
ChangePower(target) ==
  /\ dep.status = "ready"
  /\ PowerOf(dep.desiredPower) # target
  /\ Len(powers) < MaxPowers
  /\ Queue!EnqueueJob(App)
  /\ powers' = Append(powers, [state |-> target, run |-> NotStarted])
  /\ dep' = [dep EXCEPT !.desiredPower = Len(powers) + 1]
  /\ UNCHANGED <<releases, clusterVars, work, api>>

-----------------------------------------------------------------------------
(* DeploymentReconciler.reconcile, run by worker process w on a job it     *)
(* claimed.                                                                *)

At(w, phase) == w \in up /\ work[w].phase = phase

\* The process's view of the deployment row: its copy, or the table if a
\* commit expired the copy (expire_on_commit).
Seen(w) == IF work[w].expired THEN dep ELSE work[w].row

Goto(w, phase) == work' = [work EXCEPT ![w].phase = phase]

\* process_one_job claims a job.
ClaimJob(w) ==
  /\ Queue!ClaimNextJob(w)
  /\ Goto(w, "claimed")
  /\ UNCHANGED <<rowVars, clusterVars, api>>

\* _get_deployment_orm, _desired_release and _claim_release: a rollout whose
\* start is not recorded yet commits it, which expires the process's copy.
\* A deletion claims nothing.
LoadAndClaimRelease(w) ==
  /\ At(w, "claimed")
  /\ LET d == dep.desiredRelease
         rollout == ~dep.deletedAt /\ dep.appliedRelease # d
         fresh == rollout /\ ~releases[d].started
     IN /\ work' = [work EXCEPT ![w] =
             [Idle EXCEPT !.phase = IF dep.deletedAt THEN "validate" ELSE "power",
                          !.row = dep,
                          !.expired = fresh,
                          !.values = IF dep.deletedAt THEN 0 ELSE d,
                          !.release = IF rollout THEN d ELSE 0]]
        /\ releases' = IF fresh THEN [releases EXCEPT ![d].started = TRUE] ELSE releases
  /\ UNCHANGED <<queueVars, dep, powers, clusterVars, api>>

\* _claim_power, for a desired power that is not the applied one.
ClaimPower(w) ==
  /\ At(w, "power")
  /\ LET p == Seen(w).desiredPower
         change == p # 0 /\ p # Seen(w).appliedPower
         fresh == change /\ ~powers[p].run.started
     IN /\ work' = [work EXCEPT ![w] =
             [@ EXCEPT !.phase = "validate",
                       !.row = Seen(w),
                       !.expired = fresh,
                       !.power = IF change THEN p ELSE 0]]
        /\ powers' = IF fresh THEN [powers EXCEPT ![p].run.started = TRUE] ELSE powers
  /\ UNCHANGED <<queueVars, dep, releases, clusterVars, api>>

\* Leave the try block of reconcile() with a result.
Result(w, status) == [work[w] EXCEPT !.phase = "record", !.result = status]

\* Mutant of ValidateInputState: the status chooses the path, not deleted_at.
ValidateInputState_ByStatus(w) ==
  /\ At(w, "validate")
  /\ work' = [work EXCEPT ![w] =
       [@ EXCEPT !.row = Seen(w), !.expired = FALSE,
                 !.phase = IF Seen(w).status = "deleting" THEN "teardown" ELSE "publish"]]
  /\ UNCHANGED <<queueVars, rowVars, clusterVars, api>>

\* _validate_input_state: a deployment that awaits its payment is refused,
\* before deleted_at chooses between the two paths.
ValidateInputState(w) ==
  /\ At(w, "validate")
  /\ LET row == Seen(w)
         local == [work[w] EXCEPT !.row = row, !.expired = FALSE]
     IN work' = [work EXCEPT ![w] =
          IF row.status = "pending"
          THEN [local EXCEPT !.phase = "record", !.result = "error"]
          ELSE [local EXCEPT !.phase = IF row.deletedAt THEN "teardown" ELSE "publish"]]
  /\ UNCHANGED <<queueVars, rowVars, clusterVars, api>>

\* Whether the copy is expired after a call into relational_storage, which
\* commits its own bookkeeping on the reconciler's session.
AfterDatabaseStep(w) == IF HasDatabase THEN {TRUE, work[w].expired} ELSE {work[w].expired}

\* _reconcile_apply up to Helm: namespace, network policies, bucket, database
\* and the Secrets, the release's own vars Secret among them.
PublishPrerequisites(w) ==
  /\ At(w, "publish")
  /\ \E e \in AfterDatabaseStep(w) :
       work' = [work EXCEPT ![w].phase = "helm", ![w].expired = e]
  /\ secrets' = secrets \union {work[w].values}
  /\ UNCHANGED <<queueVars, rowVars, live, api>>

\* One of those steps fails, before or after the vars Secret was written.
PrerequisiteFails(w) ==
  /\ At(w, "publish")
  /\ work' = [work EXCEPT ![w] = Result(w, "error")]
  /\ secrets' \in {secrets, secrets \union {work[w].values}}
  /\ UNCHANGED <<queueVars, rowVars, live, api>>

\* Mutant of HelmUpgrade: rendered in the power that was applied last.
HelmUpgrade_AppliedPower(w) ==
  /\ At(w, "helm")
  /\ live' = [release |-> work[w].values, power |-> PowerOf(Seen(w).appliedPower)]
  /\ work' = [work EXCEPT ![w] = [@ EXCEPT !.phase = "sweep", !.row = Seen(w), !.expired = FALSE]]
  /\ UNCHANGED <<queueVars, rowVars, secrets, api>>

\* helm upgrade --install --wait succeeds: the release is live, rendered in
\* the desired power.
HelmUpgrade(w) ==
  /\ At(w, "helm")
  /\ live' = [release |-> work[w].values, power |-> PowerOf(Seen(w).desiredPower)]
  /\ work' = [work EXCEPT ![w] = [@ EXCEPT !.phase = "sweep", !.row = Seen(w), !.expired = FALSE]]
  /\ UNCHANGED <<queueVars, rowVars, secrets, api>>

\* It fails, and --atomic restores what was live before.
HelmRollsBack(w) ==
  /\ At(w, "helm")
  /\ work' = [work EXCEPT ![w] = Result(w, "error")]
  /\ UNCHANGED <<queueVars, rowVars, clusterVars, api>>

\* A step after a successful upgrade fails: the helm status call, or the
\* sweep of a stopped render.  No rollback follows.
AfterUpgradeFails(w) ==
  /\ At(w, "sweep")
  /\ work' = [work EXCEPT ![w] = Result(w, "error")]
  /\ UNCHANGED <<queueVars, rowVars, clusterVars, api>>

\* The sweep and then, best effort, the reaping of the other releases' vars
\* Secrets.
SweepAndReap(w) ==
  /\ At(w, "sweep")
  /\ secrets' \in {secrets, secrets \intersect {work[w].values}}
  /\ work' = [work EXCEPT ![w] = Result(w, "ready")]
  /\ UNCHANGED <<queueVars, rowVars, live, api>>

\* _reconcile_delete: bucket and database are torn down, the Helm release is
\* uninstalled ...
HelmUninstall(w) ==
  /\ At(w, "teardown")
  /\ \E e \in AfterDatabaseStep(w) :
       work' = [work EXCEPT ![w].phase = "namespace", ![w].expired = e]
  /\ live' = NothingLive
  /\ UNCHANGED <<queueVars, rowVars, secrets, api>>

\* ... and then its namespace goes, with whatever is left in it.
DeleteNamespace(w) ==
  /\ At(w, "namespace")
  /\ live' = NothingLive
  /\ secrets' = {}
  /\ work' = [work EXCEPT ![w] = Result(w, "deleted")]
  /\ UNCHANGED <<queueVars, rowVars, api>>

\* Either half of the deletion fails.
DeleteFails(w) ==
  /\ At(w, "teardown") \/ At(w, "namespace")
  /\ work' = [work EXCEPT ![w] = Result(w, "error")]
  /\ UNCHANGED <<queueVars, rowVars, clusterVars, api>>

\* _record_release_outcome, and its twin for a power row.
Ended(run, ok) == [run EXCEPT !.ended = @ + 1, !.outcome = IF ok THEN "ok" ELSE "failed"]

\* Mutant of RecordedRow: a failed power change stays desired.
RecordedRow_KeepsDesiredPower(w) ==
  LET ready == work[w].result = "ready"
  IN [Seen(w) EXCEPT
        !.status = work[w].result,
        !.appliedRelease = IF ready /\ work[w].release # 0 THEN work[w].release ELSE @,
        !.appliedPower = IF ready /\ work[w].power # 0 THEN work[w].power ELSE @]

\* The columns reconcile() assigns at its end, over the row it sees.
RecordedRow(w) ==
  LET row == Seen(w)
      local == work[w]
      ready == local.result = "ready"
  IN [row EXCEPT
        !.status = local.result,
        !.appliedRelease = IF ready /\ local.release # 0 THEN local.release ELSE @,
        !.appliedPower = IF ready /\ local.power # 0 THEN local.power ELSE @,
        !.desiredPower = IF ~ready /\ local.power # 0 THEN row.appliedPower ELSE @]

\* SQLAlchemy writes only the columns whose value differs from the one the
\* process had loaded.
Flushed(loaded, new) ==
  [c \in DOMAIN dep |-> IF new[c] # loaded[c] THEN new[c] ELSE dep[c]]

\* The transaction that ends reconcile(): outcome of the release and of the
\* power row, pointers and status.  No lease is checked here.
RecordOutcome(w) ==
  /\ At(w, "record")
  /\ LET local == work[w]
         ok == local.result # "error"
     IN /\ dep' = Flushed(Seen(w), RecordedRow(w))
        /\ releases' = IF local.release = 0 THEN releases
                       ELSE [releases EXCEPT ![local.release] = Ended(@, ok)]
        /\ powers' = IF local.power = 0 THEN powers
                     ELSE [powers EXCEPT ![local.power].run = Ended(@, ok)]
  /\ Goto(w, "report")
  /\ UNCHANGED <<queueVars, clusterVars, api>>

\* Mutant of ReportJob: the row is closed without a look at its lock.
ReportJob_Unlocked(w) ==
  /\ At(w, "report")
  /\ jobs' = [jobs EXCEPT ![holds[w]].status = "done"]
  /\ holds' = [holds EXCEPT ![w] = 0]
  /\ work' = [work EXCEPT ![w] = Idle]
  /\ UNCHANGED <<up, crashes, rowVars, clusterVars, api>>

\* process_one_job marks the job failed or done.
ReportJob(w) ==
  /\ At(w, "report")
  /\ Queue!CompleteJob(w, IF work[w].result = "error" THEN "failed" ELSE "done")
  /\ work' = [work EXCEPT ![w] = Idle]
  /\ UNCHANGED <<rowVars, clusterVars, api>>

\* The process dies wherever it is.
CrashWorker(w) ==
  /\ Queue!Crash(w)
  /\ work' = [work EXCEPT ![w] = Idle]
  /\ UNCHANGED <<rowVars, clusterVars, api>>

\* The pool: processes that leave it between two jobs and come back.
PoolStep(w) ==
  /\ Queue!Shutdown(w) \/ Queue!Restart(w)
  /\ UNCHANGED <<rowVars, clusterVars, work, api>>

\* The lease of a job runs out.
LeaseStep ==
  /\ \E j \in Queue!JobId : Queue!LeaseRunsOut(j)
  /\ UNCHANGED <<rowVars, clusterVars, work, api>>

-----------------------------------------------------------------------------
RequestStep ==
  \/ CreateDeployment
  \/ \E c \in Requests : \/ UpdateRead(c) \/ UpdateCommit(c)
                          \/ DeleteRead(c) \/ DeleteCommit(c)
                          \/ RefuseRequest(c)
  \/ \E target \in PowerStates : ChangePower(target)

ReconcileStep(w) ==
  \/ LoadAndClaimRelease(w)
  \/ ClaimPower(w)
  \/ ValidateInputState(w)
  \/ PublishPrerequisites(w)
  \/ PrerequisiteFails(w)
  \/ HelmUpgrade(w)
  \/ HelmRollsBack(w)
  \/ AfterUpgradeFails(w)
  \/ SweepAndReap(w)
  \/ HelmUninstall(w)
  \/ DeleteNamespace(w)
  \/ DeleteFails(w)
  \/ RecordOutcome(w)
  \/ ReportJob(w)

WorkerStep(w) == ClaimJob(w) \/ ReconcileStep(w) \/ CrashWorker(w) \/ PoolStep(w)

Next ==
  \/ RequestStep
  \/ \E w \in Workers : WorkerStep(w)
  \/ LeaseStep

Spec == Init /\ [][Next]_vars

\* An idle process polls and an abandoned lease runs out.  That a live process
\* moves on in a reconcile is an assumption: the calls it makes return.  Only
\* helm upgrade and helm uninstall carry a timeout; the other commands run
\* without one (proc.py), and deleting a namespace waits until it is gone.  No
\* process is ever restarted by the code, no request ever has to arrive.
Fairness ==
  /\ \A w \in Workers : WF_vars(ClaimJob(w)) /\ WF_vars(ReconcileStep(w))
  /\ WF_vars(LeaseStep)

FairSpec == Spec /\ Fairness

-----------------------------------------------------------------------------
(* Properties.                                                             *)

Settled == ~Queue!HasOpenJob(App)

\* Ready means running: with no job open, a ready deployment's cluster runs
\* exactly its desired release in its desired power, and both applied
\* pointers say so -- after any sequence of failed rollouts and power changes,
\* rollbacks, crashes and re-runs (the end of reconcile()).
ReadyIsRunning ==
  ~MayWedge /\ Settled /\ dep.status = "ready" =>
    /\ live = [release |-> dep.desiredRelease, power |-> PowerOf(dep.desiredPower)]
    /\ dep.appliedRelease = dep.desiredRelease
    /\ dep.appliedPower = dep.desiredPower

\* Deleted means gone: nothing of the deployment is left in the cluster
\* (_reconcile_delete), whatever an interrupted earlier run had done.
DeletedIsGone ==
  ~MayWedge /\ dep.status = "deleted" => live = NothingLive /\ secrets = {}

\* No deployment waits for nobody: while its status says work is under way, a
\* job is open for it, also when a worker dies between recording the outcome
\* and reporting it (process_one_job).
NeverStranded ==
  dep.status \in {"provisioning", "deleting"} => Queue!HasOpenJob(App)

\* The vars Secret of the live release is never reaped, also not by a later
\* rollout that failed and was rolled back (_reap_vars_secrets runs after
\* Helm only).
LiveHasItsSecret ==
  ~MayWedge /\ live.release # 0 => live.release \in secrets

\* A failed power change is never applied, nor desired again, nor its outcome
\* written twice (the comment in reconcile() on a failed power change).
FailedPowerIsFinal ==
  ~MayWedge =>
    \A p \in 1 .. Len(powers) :
      /\ powers[p].run.ended <= 1
      /\ powers[p].run.outcome = "failed" => p \notin {dep.desiredPower, dep.appliedPower}

\* What a deployment is said to run did succeed: the applied release and
\* power are rows whose recorded outcome is a success, written once.
AppliedSucceeded ==
  ~MayWedge =>
    /\ dep.appliedRelease # 0 => /\ dep.appliedRelease \in 1 .. Len(releases)
                                 /\ releases[dep.appliedRelease].outcome = "ok"
    /\ dep.appliedPower # 0 => /\ dep.appliedPower \in 1 .. Len(powers)
                               /\ powers[dep.appliedPower].run.outcome = "ok"

\* The deployment row tells the truth about the cluster and the queue, after
\* any interleaving of requests, reconciles, failures and crashes.
RowIsTrue == TypeOK /\ ReadyIsRunning /\ DeletedIsGone /\ NeverStranded /\ LiveHasItsSecret

\* The outcomes on record and the pointers to them agree, whatever failed or
\* ran twice.
OutcomesAgree == FailedPowerIsFinal /\ AppliedSucceeded

\* The outcome of a release that succeeded is never revised, by no re-run of
\* its job and no later rollout (_record_release_outcome).
SuccessIsFinal ==
  [][~MayWedge =>
       \A r \in 1 .. Len(releases) :
         releases[r].outcome = "ok" => releases'[r] = releases[r]]_vars

\* A deployment whose deletion was accepted is never installed again, also not
\* by an update that a failed deletion let through (update_deployment does
\* not look at deleted_at; reconcile() does).
NoResurrection ==
  [][~MayWedge /\ dep.deletedAt /\ live = NothingLive => live' = NothingLive]_vars

\* What is final stays: a success is not revised and a deletion not undone.
FinalIsFinal == SuccessIsFinal /\ NoResurrection

\* Every accepted request is settled: work under way ends in ready, error or
\* deleted and frees the deployment for the next request, if from some time
\* on one worker process stays up.
RequestsSettle ==
  (\E w \in Workers : <>[](w \in up)) =>
    (Queue!HasOpenJob(App) ~> (Settled /\ dep.status \in {"ready", "error", "deleted"}))

\* reconcile() uses the queue as ReconcileQueue prescribes: each of its steps
\* is one of the queue's transactions or leaves the queue alone.
UsesTheQueue == Queue!Spec

\* What the deployment promises its owner, read off the row, the cluster and
\* the queue.
AsRollout == INSTANCE Rollout WITH
  status <- dep.status,
  wanted <- [release |-> dep.desiredRelease, power |-> PowerOf(dep.desiredPower)],
  applied <- [release |-> dep.appliedRelease, power |-> PowerOf(dep.appliedPower)],
  deleted <- dep.deletedAt,
  running <- live,
  busy <- Queue!HasOpenJob(App)

\* The promise is kept as long as leases outlive the processes that hold them:
\* whatever a crash cut short or a re-run repeats, the owner sees requests
\* accepted one at a time, each brought about or given up, success claimed
\* only of what runs and nothing installed after a deletion was accepted (API
\* requests, reconcile() and process_one_job together).
KeepsItsPromise == AsRollout!Spec

-----------------------------------------------------------------------------
(* Statements of the code's comments and specifications that the code does *)
(* not keep.                                                               *)

\* The comment in reconcile() on applied_release_id: after a failure the
\* release it still names is the one actually running.
AppliedIsLive ==
  Settled /\ dep.status \in {"ready", "error"} /\ ~dep.deletedAt =>
    live.release = dep.appliedRelease
=============================================================================

---------------------------- MODULE BuildPipeline ----------------------------
(***************************************************************************)
(* Image builds: create_build (services/builds.py) queues one, the build   *)
(* worker (build_worker.py) claims it, runs it as a Kubernetes Job,        *)
(* mirrors the Job's output and records the outcome.                       *)
(*                                                                         *)
(* A pass of the worker is broken at every commit and every call to        *)
(* Kubernetes.  The worker may be killed at each of these points; the next *)
(* pass, of the same or of another process, finds what was committed.      *)
(* The build log is a sequence of bytes, because clients read it by byte   *)
(* offset.                                                                 *)
(***************************************************************************)
EXTENDS Naturals, Sequences, FiniteSets

CONSTANTS
  Artifacts,      \* uploaded source archives
  BuildWorkers,   \* build worker processes that may overlap; normally one
  MaxInFlight,    \* build_max_in_flight
  LogCap,         \* build_log_max_bytes
  Marker,         \* TRUNCATION_MARKER, a sequence of bytes
  EvictionLine,   \* the line appended for an evicted build
  MaxBuilds,      \* bound: builds ever created
  MaxOutput,      \* bound: bytes a Job writes
  MaxWorkerCrashes  \* bound: times a worker is killed

Bytes == 0 .. 255

ASSUME BuildAssumption ==
  /\ IsFiniteSet(BuildWorkers)
  /\ MaxInFlight \in Nat \ {0}
  /\ LogCap \in Nat
  /\ Marker \in Seq(Bytes) /\ EvictionLine \in Seq(Bytes)
  /\ MaxBuilds \in Nat /\ MaxOutput \in Nat /\ MaxWorkerCrashes \in Nat

VARIABLES
  builds,   \* the build table; a build's id is its position
  kube,     \* kube[b]: the Kubernetes Job of build b and its output
  worker,   \* worker[w]: where process w is in its pass
  kills     \* how often a worker was killed

vars == <<builds, kube, worker, kills>>

BuildId == 1 .. Len(builds)

OpenStatuses == {"queued", "running"}

BuildRow == [artifact : Artifacts,
             status : {"queued", "running", "succeeded", "failed"},
             jobId : BOOLEAN, image : BOOLEAN, log : Seq(Bytes)]

\* The Job's state in the cluster and what its container has written so far.
KubeJob == [state : {"none", "active", "complete", "failed"}, output : Seq(Bytes),
            reports : BOOLEAN, evicted : BOOLEAN]

NoJob == [state |-> "none", output |-> << >>, reports |-> FALSE, evicted |-> FALSE]

Steps == {"sleep", "advance", "inspect", "finish", "count", "claim", "create", "record"}

NoDecision == [delete |-> FALSE, status |-> "running", image |-> FALSE, line |-> << >>]

Asleep == [step |-> "sleep", todo |-> {}, build |-> 0, loaded |-> "queued",
           log |-> << >>, decision |-> NoDecision]

\* The type invariant of the build pipeline.
TypeOK ==
  /\ builds \in Seq(BuildRow)
  /\ kube \in [1 .. MaxBuilds -> KubeJob]
  /\ worker \in [BuildWorkers ->
       [step : Steps, todo : SUBSET (1 .. MaxBuilds), build : 0 .. MaxBuilds,
        loaded : {"queued", "running", "succeeded", "failed"}, log : Seq(Bytes),
        decision : [delete : BOOLEAN, status : {"running", "succeeded", "failed"},
                    image : BOOLEAN, line : Seq(Bytes)]]]
  /\ kills \in Nat

Init ==
  /\ builds = << >>
  /\ kube = [b \in 1 .. MaxBuilds |-> NoJob]
  /\ worker = [w \in BuildWorkers |-> Asleep]
  /\ kills = 0


-----------------------------------------------------------------------------
(* The log.                                                                *)

\* truncate_log: at most cap bytes, the last ones being the marker if some
\* were cut.
TruncateLog(data) ==
  IF Len(data) <= LogCap THEN data
  ELSE LET keep == IF LogCap > Len(Marker) THEN LogCap - Len(Marker) ELSE 0
       IN SubSeq(data, 1, keep) \o SubSeq(Marker, 1, LogCap - keep)

\* Mutant of MergeLog: the newest read replaces what is stored.
MergeLog_Newest(stored, fresh) == IF fresh = << >> THEN stored ELSE TruncateLog(fresh)

\* merge_log: a read that returns less than what is stored is discarded.
MergeLog(stored, fresh) ==
  IF fresh = << >> \/ Len(TruncateLog(fresh)) < Len(stored)
  THEN stored
  ELSE TruncateLog(fresh)

-----------------------------------------------------------------------------
(* Requests.                                                               *)

OpenBuildOf(a) == {b \in BuildId : builds[b].artifact = a /\ builds[b].status \in OpenStatuses}

\* create_build: a retry while a build of the artifact is open gets that build
\* back; uq_open_build_per_artifact decides a race.
CreateBuild(a) ==
  /\ Len(builds) < MaxBuilds
  /\ OpenBuildOf(a) = {}
  /\ builds' = Append(builds, [artifact |-> a, status |-> "queued", jobId |-> FALSE,
                               image |-> FALSE, log |-> << >>])
  /\ UNCHANGED <<kube, worker, kills>>

-----------------------------------------------------------------------------
(* One pass of the worker, run_pass.                                       *)

At(w, step) == worker[w].step = step

Running == {b \in BuildId : builds[b].status = "running"}

\* The pass starts with the builds that are running now.
StartPass(w) ==
  /\ At(w, "sleep")
  /\ worker' = [worker EXCEPT ![w].step = "advance", ![w].todo = Running]
  /\ UNCHANGED <<builds, kube, kills>>

\* _advance_build, first half: read the Job's output and store it.
MirrorLog(w) ==
  /\ At(w, "advance")
  /\ \E b \in worker[w].todo :
       \E n \in 0 .. Len(kube[b].output) :
         \* an old part of the output may have been rotated away
         LET fresh == SubSeq(kube[b].output, n + 1, Len(kube[b].output))
             merged == MergeLog(builds[b].log, fresh)
         IN /\ builds' = [builds EXCEPT ![b].log = merged]
            /\ worker' = [worker EXCEPT ![w].step = "inspect", ![w].todo = @ \ {b},
                 ![w].build = b, ![w].loaded = builds[b].status, ![w].log = merged]
  /\ UNCHANGED <<kube, kills>>

Fail(delete, line) == [delete |-> delete, status |-> "failed", image |-> FALSE, line |-> line]

\* Mutant of Decision: a Job that was never recorded is not deleted.
Decision_LeavesJob(row, job, overdue) ==
  IF ~row.jobId THEN Fail(FALSE, << >>)
  ELSE IF job.state \in {"none", "failed"} THEN Fail(FALSE, << >>)
  ELSE IF job.state = "complete"
       THEN [delete |-> FALSE, status |-> "succeeded", image |-> TRUE, line |-> << >>]
  ELSE NoDecision

\* Mutant of Decision: a build without a recorded Job is waited for.
Decision_Waits(row, job, overdue) ==
  IF ~row.jobId THEN NoDecision
  ELSE IF job.state \in {"none", "failed"} \/ overdue THEN Fail(TRUE, << >>)
  ELSE IF job.state = "complete"
       THEN [delete |-> FALSE, status |-> "succeeded", image |-> TRUE, line |-> << >>]
  ELSE NoDecision

\* What _advance_build decides from the row and the Job: give up a build that
\* has no recorded Job, take over a finished Job's outcome, or terminate one
\* that is `overdue', past its deadline and the grace period.
Decision(row, job, overdue) ==
  IF ~row.jobId THEN Fail(TRUE, << >>)
  ELSE IF job.state = "none" THEN Fail(FALSE, << >>)
  ELSE IF job.state = "complete"
       THEN IF job.reports
            THEN [delete |-> FALSE, status |-> "succeeded", image |-> TRUE, line |-> << >>]
            ELSE Fail(FALSE, << >>)
  ELSE IF job.state = "failed" THEN Fail(FALSE, IF job.evicted THEN EvictionLine ELSE << >>)
  ELSE IF overdue THEN Fail(TRUE, << >>)
  ELSE NoDecision

\* _advance_build, second half, up to its commit: look at the Job, and delete
\* it where the build is given up.
InspectJob(w) ==
  /\ At(w, "inspect")
  /\ \E overdue \in BOOLEAN :
       LET b == worker[w].build
           d == Decision(builds[b], kube[b], overdue)
       IN /\ worker' = [worker EXCEPT ![w].decision = d,
                          ![w].step = IF d = NoDecision THEN "advance" ELSE "finish"]
          /\ kube' = IF d.delete THEN [kube EXCEPT ![b] = NoJob] ELSE kube
  /\ UNCHANGED <<builds, kills>>

\* A call to Kubernetes fails: this build is left for the next pass.
InspectFails(w) ==
  /\ At(w, "inspect")
  /\ worker' = [worker EXCEPT ![w].step = "advance"]
  /\ UNCHANGED <<builds, kube, kills>>

\* transition_to and can_transition: judged by the status the process loaded.
CanTransition(from, to) ==
  <<from, to>> \in {<<"queued", "running">>, <<"running", "succeeded">>, <<"running", "failed">>}

\* _finish: status, image and the last line of the log in one commit.
Finish(w) ==
  /\ At(w, "finish")
  /\ LET b == worker[w].build
         d == worker[w].decision
     IN builds' = IF CanTransition(worker[w].loaded, d.status)
                  THEN [builds EXCEPT ![b].status = d.status,
                                      ![b].image = @ \/ d.image,
                                      ![b].log = IF d.line = << >> THEN @
                                                 ELSE worker[w].log \o d.line]
                  ELSE builds
  /\ worker' = [worker EXCEPT ![w].step = "advance"]
  /\ UNCHANGED <<kube, kills>>

\* Every running build was visited: is there room for another?
CountRunning(w) ==
  /\ \/ At(w, "advance") /\ worker[w].todo = {}
     \/ At(w, "count")
  /\ worker' = [worker EXCEPT ![w] =
       IF Cardinality(Running) < MaxInFlight THEN [Asleep EXCEPT !.step = "claim"] ELSE Asleep]
  /\ UNCHANGED <<builds, kube, kills>>

Queued == {b \in BuildId : builds[b].status = "queued"}

\* Mutant of ClaimNextBuild: the row is marked running only with its Job.
ClaimNextBuild_Unmarked(w) ==
  /\ At(w, "claim")
  /\ \E b \in Queued :
       /\ \A c \in Queued : b <= c
       /\ worker' = [worker EXCEPT ![w].step = "create", ![w].build = b]
  /\ UNCHANGED <<builds, kube, kills>>

\* _claim_next_build: the oldest queued build, in one transaction.
ClaimNextBuild(w) ==
  /\ At(w, "claim")
  /\ \E b \in Queued :
       /\ \A c \in Queued : b <= c
       /\ builds' = [builds EXCEPT ![b].status = "running"]
       /\ worker' = [worker EXCEPT ![w].step = "create", ![w].build = b]
  /\ UNCHANGED <<kube, kills>>

\* Nothing is queued: the pass ends.
NothingToClaim(w) ==
  /\ At(w, "claim")
  /\ Queued = {}
  /\ worker' = [worker EXCEPT ![w] = Asleep]
  /\ UNCHANGED <<builds, kube, kills>>

\* _start_build creates the Job ...
CreateJob(w) ==
  /\ At(w, "create")
  /\ kube' = [kube EXCEPT ![worker[w].build] = [NoJob EXCEPT !.state = "active"]]
  /\ worker' = [worker EXCEPT ![w].step = "record"]
  /\ UNCHANGED <<builds, kills>>

\* ... and then records that it exists.
RecordJob(w) ==
  /\ At(w, "record")
  /\ builds' = [builds EXCEPT ![worker[w].build].jobId = TRUE]
  /\ worker' = [worker EXCEPT ![w].step = "count"]
  /\ UNCHANGED <<kube, kills>>

\* Creating the Job raises, after it was created or before: the pass stops
\* claiming and leaves the build to the next pass.
StartFails(w) ==
  /\ At(w, "create")
  /\ kube' \in {kube, [kube EXCEPT ![worker[w].build] = [NoJob EXCEPT !.state = "active"]]}
  /\ worker' = [worker EXCEPT ![w] = Asleep]
  /\ UNCHANGED <<builds, kills>>

\* The process is killed in the middle of a pass and started again.
KillWorker(w) ==
  /\ ~At(w, "sleep")
  /\ kills < MaxWorkerCrashes
  /\ worker' = [worker EXCEPT ![w] = Asleep]
  /\ kills' = kills + 1
  /\ UNCHANGED <<builds, kube>>

-----------------------------------------------------------------------------
(* Kubernetes.                                                             *)

\* Every byte of the output differs from those around it.
Byte(n) == n % 256

\* The build writes a byte of output.
JobWrites(b) ==
  /\ kube[b].state = "active"
  /\ Len(kube[b].output) < MaxOutput
  /\ kube' = [kube EXCEPT ![b].output = Append(@, Byte(Len(@) + 1))]
  /\ UNCHANGED <<builds, worker, kills>>

\* The Job ends: it completes, reporting an image or not, or it fails, for
\* instance at its activeDeadlineSeconds or evicted by the kubelet.
JobEnds(b) ==
  /\ kube[b].state = "active"
  /\ \E flag \in BOOLEAN :
       kube' \in {[kube EXCEPT ![b].state = "complete", ![b].reports = flag],
                  [kube EXCEPT ![b].state = "failed", ![b].evicted = flag]}
  /\ UNCHANGED <<builds, worker, kills>>

\* A finished Job is removed by its time to live, its output with it.
JobExpires(b) ==
  /\ kube[b].state \in {"complete", "failed"}
  /\ kube' = [kube EXCEPT ![b] = NoJob]
  /\ UNCHANGED <<builds, worker, kills>>

-----------------------------------------------------------------------------
PassStep(w) ==
  \/ StartPass(w) \/ MirrorLog(w) \/ InspectJob(w) \/ InspectFails(w) \/ Finish(w)
  \/ CountRunning(w) \/ ClaimNextBuild(w) \/ NothingToClaim(w)
  \/ CreateJob(w) \/ RecordJob(w) \/ StartFails(w)

Next ==
  \/ \E a \in Artifacts : CreateBuild(a)
  \/ \E w \in BuildWorkers : PassStep(w) \/ KillWorker(w)
  \/ \E b \in 1 .. MaxBuilds : JobWrites(b) \/ JobEnds(b) \/ JobExpires(b)

Spec == Init /\ [][Next]_vars

\* The worker keeps passing, Kubernetes ends every Job by its deadline, and a
\* call to Kubernetes does not fail every time.
Fairness ==
  /\ \A w \in BuildWorkers : WF_vars(PassStep(w)) /\ SF_vars(InspectJob(w))
  /\ \A b \in 1 .. MaxBuilds : WF_vars(JobEnds(b))

FairSpec == Spec /\ Fairness

-----------------------------------------------------------------------------
(* Properties.                                                             *)

OneWorker == Cardinality(BuildWorkers) = 1

\* No Job outlives its build: what still runs in the cluster belongs to a
\* build that is still running, whatever pass was cut short (_advance_build
\* deletes the Job before it gives a build up).
NoOrphanJob ==
  OneWorker =>
    \A b \in 1 .. MaxBuilds :
      kube[b].state = "active" => b \in BuildId /\ builds[b].status = "running"

\* The in-flight limit bounds the Jobs that really run, not only the rows:
\* build_max_in_flight, with one worker, across crashes.
InFlightLimit ==
  OneWorker => Cardinality({b \in 1 .. MaxBuilds : kube[b].state = "active"}) <= MaxInFlight

\* The Jobs in the cluster are those of the rows, no more and no others.
JobsMatchRows == TypeOK /\ NoOrphanJob /\ InFlightLimit

\* With one worker a finished build is final: status and image never change
\* again (transition_to).
FinishedIsFinal ==
  [][OneWorker =>
       \A b \in BuildId : builds[b].status \notin OpenStatuses =>
         builds'[b].status = builds[b].status /\ builds'[b].image = builds[b].image]_vars

\* With one worker the stored log never gets shorter, also when older output was
\* rotated away between two passes (merge_log): a client's offset never lies
\* past its end.  Of two workers that overlap the later one would write the log
\* it loaded over the longer log of the other (_finish).
LogNeverShrinks ==
  [][OneWorker =>
       \A b \in BuildId : Len(builds'[b].log) >= Len(builds[b].log)]_vars

\* What a client has read of a build stays true of it.
RowsOnlyGrow == FinishedIsFinal /\ LogNeverShrinks

\* Each queued build is claimed once: two workers never both create its Job.
ClaimedOnce ==
  \A v, w \in BuildWorkers :
    worker[v].step \in {"create", "record"} /\ worker[w].step \in {"create", "record"}
    /\ worker[v].build = worker[w].build => v = w

\* Every build ends, also one whose worker died at any point of its start.
BuildsEnd ==
  \A b \in 1 .. MaxBuilds :
    (b \in BuildId) ~> (b \in BuildId /\ builds[b].status \notin OpenStatuses)
=============================================================================

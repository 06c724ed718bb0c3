---------------------------- MODULE MCDeployments ----------------------------
(* Safety of a deployment on small instances: a free one under two requests *)
(* and two workers that may crash, a paid one under two webhook calls, the  *)
(* queue of the builds that they deploy and the pod that runs one, and the  *)
(* bucket they keep files in. `focus' is the one that a behaviour is about. *)
EXTENDS FirstPayment, BuilderRun, ObjectStorage, TLC

CONSTANTS Artifacts, BuildWorkers

VARIABLES builds, kube, worker, kills, focus

\* One build worker, killed once, and output that exceeds the cap of the log.
Pipeline == INSTANCE BuildPipeline
  WITH MaxInFlight <- 1, LogCap <- 2, Marker <- <<109>>, EvictionLine <- <<120, 121>>,
       MaxBuilds <- 2, MaxOutput <- 3, MaxWorkerCrashes <- 1

buildVars == <<builds, kube, worker, kills>>
deploymentsVars == <<allVars, builderVars, storageVars, buildVars, focus>>

\* Webhook calls are interchangeable, and so are worker processes and requests.
Symmetry == Permutations(Hooks) \union Permutations(Workers) \union Permutations(Requests)

\* Two releases, no power change and a pool that stays up are enough for
\* payments.  A call that cannot read its payment does nothing, which is also
\* what a call that never came does.  A renewal meets the deployment's first job
\* only: its report writes nothing but the subscription and the payment.
PaidBounds ==
  /\ Len(releases') <= 2 /\ Len(jobs') <= 2 /\ powers' = << >> /\ up' = Workers
  /\ Cardinality({c \in Requests : api'[c] # NoRequest}) <= 1
  /\ mollie'.unread = {}
  /\ mollie'.renewals # << >> => Len(jobs') <= 1

\* Artifacts are interchangeable, and it is enough that one of two builds
\* writes more than a byte.
BuildBounds ==
  /\ builds' # <<>> => builds'[1].artifact = CHOOSE a \in Artifacts : TRUE
  /\ Len(kube'[2].output) <= 1

\* Archives: a good one with a Dockerfile, one too large, one whose second
\* path is absolute, long and not ASCII, one cut off, and one with a link
\* out of the tree.
Member(kind, size, dockerfile, chars, width) ==
  [kind |-> kind, size |-> size, packed |-> 1, dockerfile |-> dockerfile, chars |-> chars, width |-> width]
File(size, dockerfile) == Member("file", size, dockerfile, 1, 1)
Archive(members, end) == [members |-> members, end |-> end]
MCArchives == {Archive(<<File(1, FALSE), File(2, TRUE)>>, "complete"),
               Archive(<<File(2, FALSE), File(2, FALSE)>>, "complete"),
               Archive(<<File(1, FALSE), Member("absolute", 0, FALSE, 5, 6)>>, "complete"),
               Archive(<<File(1, FALSE), File(1, FALSE), File(0, FALSE)>>, "cut"),
               Archive(<<File(1, FALSE), Member("escapes", 0, FALSE, 1, 1)>>, "complete")}

DeploymentsInit ==
  /\ focus \in {"free", "paid", "builds", "pod", "bucket"}
  /\ BillingInit /\ BuilderInit /\ StorageInit /\ Pipeline!Init
  /\ focus # "pod" => archive.end = "cut" /\ cgroup.level = 0
  /\ focus # "bucket" => offer.allowance = 1

\* A pod that has ended stays so, and so does what a deleted deployment
\* leaves, or one out of reconciles; the others go on for ever.
Rests ==
  /\ \/ focus = "pod" /\ pod \in {"completed", "failed", "deleted"}
     \/ focus = "bucket" /\ OnStep("none") /\ (jobEnd = "deleted" \/ spentJobs = MaxStorageJobs)
  /\ UNCHANGED deploymentsVars

DeploymentsNext ==
  \/ /\ UNCHANGED focus
     /\ \/ focus = "free" /\ Next /\ UNCHANGED <<billingVars, builderVars, storageVars, buildVars>>
        \/ focus = "paid" /\ BillingNext /\ PaidBounds /\ UNCHANGED <<builderVars, storageVars, buildVars>>
        \/ focus = "builds" /\ Pipeline!Next /\ BuildBounds /\ UNCHANGED <<allVars, builderVars, storageVars>>
        \/ focus = "pod" /\ BuilderNext /\ UNCHANGED <<allVars, storageVars, buildVars>>
        \/ focus = "bucket" /\ StorageNext /\ UNCHANGED <<allVars, builderVars, buildVars>>
  \/ Rests

DeploymentsSpec == DeploymentsInit /\ [][DeploymentsNext]_deploymentsVars

\* Properties of BuildPipeline: its Jobs are those of its rows, and what a
\* client has read of a build stays true of it.
JobsMatchRows == Pipeline!JobsMatchRows
RowsOnlyGrow == Pipeline!RowsOnlyGrow
=============================================================================

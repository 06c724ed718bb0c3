------------------------------ MODULE MCOverlap ------------------------------
(* Instances for TLC in which two processes believe they have the same work:*)
(* a lease runs out under a worker that is still alive, in the queue and in *)
(* a deployment's reconcile, two build workers overlap, and two init        *)
(* containers apply the catalog while an administrator writes; processes    *)
(* that hold different lists of keys encrypt side by side; and requests of  *)
(* two people find, make and change their accounts. They share no state     *)
(* here; `focus' is the one whose steps a behaviour takes.                  *)
EXTENDS ReconcileQueue, Catalog, KeyRotation, Accounts, TLC

CONSTANTS App, Requests, MaxReleases, Artifacts, BuildWorkers, MaxBuilds, FirstSecret,
          k1, k2, e1, e2

VARIABLES dep, releases, powers, live, secrets, work, api,
          builds, kube, worker, kills, focus

\* A lease that runs out under a living worker, which then goes on; the product has no database.
Lifecycle == INSTANCE DeploymentLifecycle
  WITH MayWedge <- TRUE, MaxCrashes <- 0, MaxAttempts <- 1, HasDatabase <- FALSE, MaxJobs <- 2,
       MaxPowers <- 0

\* Two build workers, as while a pod is replaced.
Pipeline == INSTANCE BuildPipeline
  WITH MaxInFlight <- 1, LogCap <- 2, Marker <- <<109>>, EvictionLine <- <<120, 121>>,
       MaxOutput <- 0, MaxWorkerCrashes <- 0

rowAndClusterVars == <<dep, releases, powers, live, secrets, work, api>>
buildVars == <<builds, kube, worker, kills>>

\* A document, the same product renamed with an icon, a screenshot and a new
\* template, and another product that wants the new name.
Document(slug, name, listing, icon, shots, spec, version, notes) ==
  [slug |-> slug, name |-> name, listing |-> listing, icon |-> icon, shots |-> shots, spec |-> spec,
   versions |-> [t \in {"t1", "t2"} |-> IF t = "t1" THEN Null ELSE version], releases |-> notes]
MCDocuments == {Document(1, "n1", 1, 1, <<>>, "t1", Null, <<>>),
                Document(1, "n2", 1, Null, <<2>>, "t2", 5, <<"5">>),
                Document(2, "n2", 2, Null, <<>>, "t1", Null, <<>>)}
MCSlugs == [n \in ProductNames |-> IF n = "n1" THEN 1 ELSE 2]

\* One person with two addresses, the first of which another presents too.
MCCallers == {[subject |-> k1, email |-> e1], [subject |-> k1, email |-> e2], [subject |-> k2, email |-> e1]}

\* One product made by hand, with a template and an icon.
MCProducts ==
  1 :> [NewProduct([name |-> "n1", slug |-> Null]) EXCEPT !.curated = FALSE, !.template = 1, !.icon = 1]
MCTemplates == 1 :> NewTemplate(1, "t1", Null, FALSE)

\* One key, of the account with the deployment if there is one, and a
\* deployment that is on its way, up or gone (one in error is to a key, a
\* handle and a hostname what one that is up is).
AccountBounds ==
  /\ Cardinality(keys') <= 1
  /\ \A a \in AppId' : apps'[a].status # "error" /\ \A k \in keys' : k.user = apps'[a].user

OverlapInit ==
  /\ focus \in {"queue", "lifecycle", "builds", "catalog", "keys", "accounts"}
  /\ Lifecycle!Init /\ Pipeline!Init /\ CatalogInit /\ RotationInit /\ AccountsInit
  /\ config = <<FirstSecret>>
  /\ focus # "catalog" => storage = {}

OverlapNext ==
  /\ UNCHANGED focus
  /\ \/ focus = "queue" /\ Next /\ UNCHANGED <<rowAndClusterVars, buildVars, catalogVars, rotationVars, accountVars>>
     \/ focus = "lifecycle" /\ Lifecycle!Next /\ UNCHANGED <<buildVars, catalogVars, rotationVars, accountVars>>
     \/ focus = "builds" /\ Pipeline!Next /\ UNCHANGED <<queueVars, rowAndClusterVars, catalogVars, rotationVars, accountVars>>
     \/ focus = "catalog" /\ CatalogNext /\ UNCHANGED <<queueVars, rowAndClusterVars, buildVars, rotationVars, accountVars>>
     \/ focus = "keys" /\ RotationNext /\ UNCHANGED <<queueVars, rowAndClusterVars, buildVars, catalogVars, accountVars>>
     \/ focus = "accounts" /\ AccountsNext /\ AccountBounds
        /\ UNCHANGED <<queueVars, rowAndClusterVars, buildVars, catalogVars, rotationVars>>

OverlapSpec == OverlapInit /\ [][OverlapNext]_<<queueVars, rowAndClusterVars, buildVars, catalogVars, rotationVars, accountVars, focus>>

\* Requests are interchangeable, and so are build workers. (Larger groups cost
\* more than they save.)
Symmetry == Permutations(Calls) \union Permutations(BuildWorkers)

\* NeverStranded of DeploymentLifecycle: no deployment waits for nobody, also
\* when two workers reconcile it at once.
NeverStranded == Lifecycle!NeverStranded

\* ClaimedOnce of BuildPipeline: two workers never both create a build's Job.
ClaimedOnce == Pipeline!ClaimedOnce
=============================================================================

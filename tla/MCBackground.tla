---------------------------- MODULE MCBackground ----------------------------
(* Instances for TLC of what works in the background and has to get there:  *)
(* the job queue, the usage ledger, the bucket exporter, tenant databases   *)
(* and the product upgrader. They share no state here; `focus' is the one   *)
(* whose steps a behaviour takes.                                           *)
EXTENDS ReconcileQueue, UsageLedger, BucketExporter, TenantDatabase, ProductUpgrader

CONSTANT B1

VARIABLE focus

backgroundVars == <<focus, queueVars, ledgerVars, exporterVars, tenantVars, upgraderVars>>

\* The first build crosses a window and measured itself, the second did not.
MCRunOf == [b \in Builds |->
  IF b = B1
  THEN [started |-> 0, finished |-> 3, usageStarted |-> 1, usageFinished |-> 5, measured |-> TRUE]
  ELSE [started |-> 1, finished |-> 2, usageStarted |-> 0, usageFinished |-> 0, measured |-> FALSE]]
MCRates == {[from |-> 0, price |-> 1], [from |-> 2, price |-> 3]}

\* Two products are due in the first run, none in the second.
MCCatalogs == << <<"a", "b">>, <<>> >>

BackgroundInit ==
  /\ focus \in {"queue", "usage", "exporter", "database", "upgrader"}
  /\ Init /\ LedgerInit /\ ExporterInit /\ TenantInit /\ UpgraderInit
  /\ focus # "usage" => quality = [s \in Sources |-> [w \in Windows |-> "down"]]
  /\ focus # "exporter" => exists = {}

BackgroundNext ==
  /\ UNCHANGED focus
  /\ \/ /\ focus = "queue" /\ Next
        /\ UNCHANGED <<ledgerVars, exporterVars, tenantVars, upgraderVars>>
     \/ /\ focus = "usage" /\ LedgerNext
        /\ UNCHANGED <<queueVars, exporterVars, tenantVars, upgraderVars>>
     \/ /\ focus = "exporter" /\ ExporterNext
        /\ UNCHANGED <<queueVars, ledgerVars, tenantVars, upgraderVars>>
     \/ /\ focus = "database" /\ TenantNext
        /\ UNCHANGED <<queueVars, ledgerVars, exporterVars, upgraderVars>>
     \/ /\ focus = "upgrader" /\ UpgraderNext
        /\ UNCHANGED <<queueVars, ledgerVars, exporterVars, tenantVars>>

\* The fairness of the five, each for its own behaviours.
BackgroundFairness ==
  /\ \A w \in Workers :
       /\ WF_queueVars(focus = "queue" /\ ClaimNextJob(w))
       /\ WF_queueVars(focus = "queue" /\ (CompleteJob(w, "done") \/ CompleteJob(w, "failed")))
  /\ WF_queueVars(focus = "queue" /\ \E j \in JobId : LeaseRunsOut(j))
  /\ WF_ledgerVars(focus = "usage"
       /\ (BeginPass \/ RecordWindow \/ StopSource \/ FinishSource \/ EndPass \/ \E s \in Sources : BeginSource(s)))
  /\ \A b \in Builds : WF_ledgerVars(focus = "usage" /\ RecordBuild(b))
  /\ WF_exporterVars(focus = "exporter" /\ BeginRead) /\ WF_exporterVars(focus = "exporter" /\ FinishRead)
  /\ WF_exporterVars(focus = "exporter" /\ FailRead) /\ WF_exporterVars(focus = "exporter" /\ RefreshBuckets)
  /\ WF_tenantVars(focus = "database" /\ ReconcilerStep)
  /\ WF_tenantVars(focus = "database" /\ EvaluateStep("reconcile"))
  /\ WF_tenantVars(focus = "database" /\ BeginSweep)
  /\ WF_tenantVars(focus = "database" /\ EvaluateStep("worker"))
  /\ WF_tenantVars(focus = "database" /\ PurgeStep) /\ WF_tenantVars(focus = "database" /\ GraceEnds)
  /\ \A t \in Threads : WF_upgraderVars(focus = "upgrader" /\ ThreadStep(t))

BackgroundSpec == BackgroundInit /\ [][BackgroundNext]_backgroundVars /\ BackgroundFairness

\* Work in the background gets there, through crashes, faults and outages: jobs
\* finish, settled windows and builds are recorded, sizes and quotas are right
\* in the end, and what is to be purged goes (worker.run_worker, the loops of
\* usage_worker, db_worker and the bucket exporter).
AllGetsThere == JobsSettle /\ CatchesUp /\ SizesConverge /\ QuotaConverges /\ PurgeCompletes
=============================================================================

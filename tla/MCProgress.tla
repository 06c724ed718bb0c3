------------------------------ MODULE MCProgress ------------------------------
(* Instances for TLC of what must come to its end: the requests of a free   *)
(* deployment, the payment of a paid one, the builds of an app. The three   *)
(* share no state; `focus' is the one whose steps a behaviour takes.        *)
EXTENDS BuildPipeline

CONSTANTS App, Workers, NoWorker, Requests, Hooks, Payer

VARIABLES
  focus,
  jobs, holds, up, crashes, dep, releases, powers, live, secrets, work, api,
  paidJobs, paidHolds, paidUp, paidCrashes, paidDep, paidReleases, paidPowers,
  paidLive, paidSecrets, paidWork, paidApi, sub, recorded, mollie, hook

Lifecycle == INSTANCE DeploymentLifecycle
  WITH MayWedge <- FALSE, MaxJobs <- 3, MaxCrashes <- 1, MaxAttempts <- 2, HasDatabase <- TRUE,
       MaxReleases <- 2, MaxPowers <- 1

\* One worker that does not crash, one webhook call at a time and hand edits.
Payment == INSTANCE FirstPayment
  WITH Workers <- {Payer}, MayWedge <- FALSE, MaxJobs <- 2, MaxCrashes <- 0, MaxAttempts <- 1,
       HasDatabase <- FALSE, MaxReleases <- 2, MaxPowers <- 0, OwnerEdits <- TRUE, MaxRenewals <- 0,
       jobs <- paidJobs, holds <- paidHolds, up <- paidUp, crashes <- paidCrashes, dep <- paidDep,
       releases <- paidReleases, powers <- paidPowers, live <- paidLive, secrets <- paidSecrets,
       work <- paidWork, api <- paidApi

freeVars == <<jobs, holds, up, crashes, dep, releases, powers, live, secrets, work, api>>
billingVars == <<sub, recorded, mollie, hook>>
paidVars == <<paidJobs, paidHolds, paidUp, paidCrashes, paidDep, paidReleases, paidPowers,
              paidLive, paidSecrets, paidWork, paidApi, billingVars>>
progressVars == <<focus, freeVars, paidVars, vars>>

\* A marker of one byte and an explanation of two.
MCMarker == <<109>>
MCEvictionLine == <<120, 121>>

ProgressInit ==
  /\ focus \in {"free", "paid", "builds"}
  /\ Lifecycle!Init /\ Payment!BillingInit /\ Init

ProgressNext ==
  /\ UNCHANGED focus
  /\ \/ focus = "free" /\ Lifecycle!Next /\ UNCHANGED <<paidVars, vars>>
     \/ focus = "paid" /\ Payment!BillingNext /\ UNCHANGED <<freeVars, vars>>
     \/ focus = "builds" /\ Next /\ UNCHANGED <<freeVars, paidVars>>

\* The fairness of the three modules, each for its own behaviours.
ProgressFairness ==
  /\ \A w \in Workers : /\ WF_freeVars(focus = "free" /\ Lifecycle!ClaimJob(w))
                        /\ WF_freeVars(focus = "free" /\ Lifecycle!ReconcileStep(w))
  /\ WF_freeVars(focus = "free" /\ Lifecycle!LeaseStep)
  /\ WF_paidVars(focus = "paid" /\ Payment!ClaimJob(Payer) /\ UNCHANGED billingVars)
  /\ WF_paidVars(focus = "paid" /\ Payment!ReconcileStep(Payer) /\ UNCHANGED billingVars)
  /\ WF_paidVars(focus = "paid" /\ Payment!LeaseStep /\ UNCHANGED billingVars)
  /\ \A h \in Hooks : /\ SF_paidVars(focus = "paid" /\ 0 \in mollie.due /\ Payment!WebhookFetch(h, 0))
                      /\ WF_paidVars(focus = "paid" /\ Payment!WebhookStep(h) /\ hook[h].stage # "none")
                      /\ SF_paidVars(focus = "paid" /\ Payment!FirstPaymentPaid(h))
  /\ \A w \in BuildWorkers : /\ WF_vars(focus = "builds" /\ PassStep(w))
                             /\ SF_vars(focus = "builds" /\ InspectJob(w))
  /\ \A b \in 1 .. MaxBuilds : WF_vars(focus = "builds" /\ JobEnds(b))

ProgressSpec == ProgressInit /\ [][ProgressNext]_progressVars /\ ProgressFairness

\* Properties of DeploymentLifecycle: the owner's promise is kept, and every
\* request is settled.
KeepsItsPromise == Lifecycle!KeepsItsPromise
RequestsSettle == Lifecycle!RequestsSettle

\* Properties of FirstPayment: nothing is installed unpaid, and a payment
\* comes to its end on both sides.
NothingBeforePayment == Payment!NothingBeforePayment
PaymentsComeThrough == Payment!PaymentsComeThrough
===============================================================================

-------------------------- MODULE FirstPayment_proofs --------------------------
(***************************************************************************)
(* The paid path of a deployment composed with its lifecycle: nothing is   *)
(* installed before it is paid for, and what was paid for never waits      *)
(* without a job, for any number of workers, requests, webhook calls and   *)
(* renewals.  The lifecycle's own invariant is carried through the steps   *)
(* of the billing, then extended by what a webhook call may rely on.       *)
(***************************************************************************)
EXTENDS FirstPayment, DeploymentLifecycle_proofs

\* The rows of the billing: a subscription, Mollie's side, a webhook call.
SubscriptionRow == [payment : PaymentStates \union {"none"}, mollieSubscription : BOOLEAN]

MollieRow == [first : Reported \union {"none"}, renewals : Seq(Reported), recurring : BOOLEAN,
              due : SUBSET (0 .. MaxRenewals), unread : SUBSET (0 .. MaxRenewals)]

HookRow == [stage : {"none", "fetched", "loaded", "moving"}, payment : 0 .. MaxRenewals,
            status : Reported, deployment : Status, recorded : Reported \union {"none"},
            sub : SubscriptionRow]

\* The types of the billing state; no renewal is beyond the bound.
BillingTyped ==
  /\ sub \in SubscriptionRow
  /\ recorded \in [0 .. MaxRenewals -> Reported \union {"none"}]
  /\ mollie \in MollieRow
  /\ hook \in [Hooks -> HookRow]
  /\ Len(mollie.renewals) <= MaxRenewals

\* What a webhook call was told of the first payment is final at Mollie, no
\* call precedes the deployment it is about, and only one that was told that the
\* first payment was paid loads the deployment.
CallsFit ==
  /\ mollie.first # "none" => dep.status # "absent"
  /\ \A h \in Hooks : hook[h].stage # "none" =>
       /\ mollie.first # "none"
       /\ hook[h].payment = 0 /\ hook[h].status # "open" => hook[h].status = mollie.first
       /\ hook[h].stage = "moving" => hook[h].payment = 0 /\ hook[h].status = "paid"

\* The phases that a reconcile of an unpaid deployment can be in: it never
\* gets to render anything.
UnpaidPhases == {"idle", "claimed", "validate", "teardown", "namespace", "record", "report"}

\* Before its first payment a deployment has nothing in the cluster, and there
\* is only one way to a job for it, which is its deletion.
UnpaidIsBare ==
  mollie.first # "paid" =>
    /\ live.release = 0 /\ secrets = {}
    /\ dep.status \notin {"absent", "pending"} \/ Len(jobs) > 0 => dep.deletedAt
    /\ \A w \in Workers : /\ work[w].phase \in UnpaidPhases
                          /\ work[w].phase = "validate" => work[w].row.deletedAt

\* While nobody edits payment_status by hand, a pending deployment has a
\* pending subscription until its payment failed; whoever loaded it pending,
\* loaded both pending.
PendingTogether ==
  /\ dep.status \in {"absent", "pending"} => ~sub.mollieSubscription
  /\ dep.status = "pending" /\ mollie.first # "failed" => sub.payment = "pending"
  /\ \A h \in Hooks :
       /\ hook[h].stage = "loaded" /\ dep.status = "pending" =>
            /\ hook[h].payment = 0
            /\ hook[h].status = "paid" => hook[h].sub.payment = "pending"
       /\ hook[h].stage = "moving" =>
            /\ dep.status = "pending" => hook[h].deployment = "pending"
            /\ hook[h].deployment = "pending" => hook[h].sub.payment = "pending"

\* What the billing adds to the invariant of the lifecycle.
Billed ==
  /\ BillingTyped /\ CallsFit /\ UnpaidIsBare
  /\ ~OwnerEdits => PendingTogether

BillingInv == Sound /\ Billed /\ (~OwnerEdits => Progress)
-----------------------------------------------------------------------------
(* The lifecycle under the steps of the billing.                           *)

\* The steps at Mollie and of webhook calls that touch no deployment.
LEMMA BillingSteps ==
  ASSUME [BillingNext]_allVars
  PROVE  \/ CreatePaidDeployment
         \/ \E h \in Hooks : FirstPaymentPaid(h)
         \/ dep.status # "absent" /\ Next /\ UNCHANGED billingVars
         \/ /\ UNCHANGED vars
            /\ \/ \E status \in PaymentStates : UpdatePaymentStatus(status)
               \/ \E status \in {"paid", "failed"} : \/ FirstPaymentEnds(status)
                                                     \/ RenewalCharged(status)
               \/ \E h \in Hooks : \/ \E p \in 0 .. Len(mollie.renewals) : WebhookFetch(h, p)
                                   \/ WebhookLoad(h) \/ LoadDeployments(h)
                                   \/ FirstPaymentPaidFails(h)
                                   \/ FirstPaymentFailed(h) \/ PaymentStillOpen(h)
                                   \/ RenewalReported(h)
               \/ \E p \in 0 .. MaxRenewals : WebhookFetchFails(p)
               \/ UNCHANGED billingVars
  <1>1. CASE \E status \in PaymentStates : UpdatePaymentStatus(status)
    BY <1>1 DEF UpdatePaymentStatus
  <1>2. CASE \E status \in {"paid", "failed"} : FirstPaymentEnds(status) \/ RenewalCharged(status)
    BY <1>2 DEF FirstPaymentEnds, RenewalCharged
  <1>3. CASE \E h \in Hooks : WebhookStep(h)
    BY <1>3 DEF WebhookStep, WebhookFetch, WebhookLoad, LoadDeployments,
                FirstPaymentPaidFails, FirstPaymentFailed, PaymentStillOpen, RenewalReported
  <1>4. CASE \E p \in 0 .. MaxRenewals : WebhookFetchFails(p)
    BY <1>4 DEF WebhookFetchFails
  <1>5. CASE UNCHANGED allVars
    BY <1>5 DEF allVars
  <1> QED
    BY <1>1, <1>2, <1>3, <1>4, <1>5 DEF BillingNext

\* Every step of the lifecycle keeps Sound and Progress.
LEMMA NextKeepsSound == Sound /\ [Next]_vars => Sound'
  BY Steps, WriteKeepsSound, ReadKeepsSound, QuietKeepsSound, LocalKeepsSound, RecordKeepsSound,
     ClaimKeepsSound, ReportKeepsSound, CrashKeepsSound

LEMMA NextKeepsProgress == Sound /\ Progress /\ [Next]_vars => Progress'
  BY Steps, WriteKeepsProgress, ReadKeepsProgress, QuietKeepsProgress, LocalKeepsProgress,
     RecordKeepsProgress, ClaimKeepsProgress, ReportKeepsProgress, CrashKeepsProgress

\* Before a deployment exists nobody works, and there is nothing to work on.
LEMMA BeforeCreation ==
  ASSUME Sound, dep.status = "absent"
  PROVE  /\ Len(jobs) = 0 /\ dep = NoRow /\ releases = << >> /\ powers = << >>
         /\ \A w \in Workers : holds[w] = 0 /\ work[w].phase = "idle"
  <1>1. Len(jobs) = 0 /\ dep = NoRow /\ releases = << >> /\ powers = << >>
    BY Lengths DEF Sound, InRange
  <1>2. \A w \in Workers : holds[w] = 0
    BY <1>1, WhoWorks DEF Sound
  <1> QED
    BY <1>1, <1>2 DEF Sound, Engaged

\* create_deployment on a paid plan, row by row.
LEMMA CreatePaidEffect ==
  ASSUME Sound, CreatePaidDeployment
  PROVE  /\ UNCHANGED <<queueVars, powers, live, secrets, work, api, hook>>
         /\ dep.status = "absent"
         /\ dep' \in DeploymentRow /\ dep'.status = "pending" /\ ~dep'.deletedAt
         /\ dep'.desiredRelease = 1 /\ dep'.appliedRelease = 0
         /\ dep'.desiredPower = 0 /\ dep'.appliedPower = 0
         /\ releases' \in Seq(Outcome) /\ Len(releases') = 1
  <1>1. /\ UNCHANGED <<queueVars, powers, live, secrets, work, api, hook>>
        /\ dep.status = "absent"
        /\ dep' = [NoRow EXCEPT !.status = "pending", !.desiredRelease = 1]
        /\ releases' = <<NotStarted>>
    BY DEF CreatePaidDeployment, clusterVars
  <1>2. /\ dep' \in DeploymentRow /\ dep'.status = "pending" /\ ~dep'.deletedAt
        /\ dep'.desiredRelease = 1 /\ dep'.appliedRelease = 0
        /\ dep'.desiredPower = 0 /\ dep'.appliedPower = 0
    BY <1>1 DEF NoRow, DeploymentRow, Status
  <1>3. releases' \in Seq(Outcome) /\ Len(releases') = 1
    <2>1. NotStarted \in Outcome
      BY DEF NotStarted, Outcome
    <2> QED
      BY <1>1, <2>1
  <1> QED
    BY <1>1, <1>2, <1>3

LEMMA CreatePaidKeepsSound ==
  ASSUME Sound, CreatePaidDeployment
  PROVE  Sound'
  <1>1. QueueInv' /\ Queue!TypeOK' /\ jobs' = jobs /\ holds' = holds
    BY CreatePaidEffect, QueueKeeps DEF Sound, queueVars
  <1>2. /\ Len(jobs) = 0 /\ powers = << >> /\ releases = << >>
        /\ \A w \in Workers : work[w].phase = "idle" /\ LocalInRange(w) /\ work[w].row \in DeploymentRow
        /\ \A c \in Requests : api[c].number <= Len(releases) + 1 /\ api[c].op = "none"
        /\ \A c \in Requests : api[c].number \in Nat
    <2>1. /\ dep.status = "absent" /\ Len(jobs) = 0 /\ powers = << >> /\ releases = << >>
          /\ \A w \in Workers : work[w].phase = "idle"
      BY BeforeCreation, CreatePaidEffect
    <2>2. \A w \in Workers : LocalInRange(w) /\ work[w].row \in DeploymentRow
      BY LocalTyped DEF Sound, InRange
    <2>3. \A c \in Requests : /\ api[c].number <= Len(releases) + 1
                              /\ api[c].number \in Nat /\ api[c].op \in {"none", "update", "delete"}
                              /\ api[c].op # "none" => dep.status # "absent"
      BY DEF Sound, InRange, TypeOK, Request
    <2> QED
      BY <2>1, <2>2, <2>3
  <1>3. TypeOK'
    BY <1>1, CreatePaidEffect DEF Sound, TypeOK
  <1>4. Engaged'
    BY <1>1, CreatePaidEffect DEF Sound, Engaged
  <1>5. Len(releases) = 0 /\ Len(powers) = 0 /\ Len(powers') = 0
    BY <1>2, CreatePaidEffect, EmptySeq
  <1>6. ASSUME NEW w \in Workers PROVE LocalInRange(w)'
    <2>1. LocalInRange(w) /\ work'[w] = work[w] /\ work[w].phase = "idle"
          /\ work[w].row \in DeploymentRow /\ work[w].release \in Nat /\ work[w].power \in Nat
      BY <1>2, CreatePaidEffect, LocalTyped DEF Sound
    <2>2. ~work[w].row.deletedAt
      BY <2>1, BeforeCreation, CreatePaidEffect DEF LocalInRange, NoRow
    <2> QED
      BY <1>5, <2>1, <2>2, CreatePaidEffect DEF LocalInRange, RowInRange, DeploymentRow
  <1>7. InRange'
    <2> /\ Len(releases') = 1 /\ dep'.desiredRelease = 1 /\ dep'.appliedRelease = 0
        /\ dep'.desiredPower = 0 /\ dep'.appliedPower = 0
        /\ dep'.status = "pending" /\ api' = api
      BY CreatePaidEffect
    <2>1. RowInRange(dep)' /\ dep'.desiredRelease = Len(releases')
      BY <1>5 DEF RowInRange
    <2>2. \A c \in Requests : api'[c].number <= Len(releases') + 1 /\ api'[c].op = "none"
      BY <1>2, <1>5
    <2> QED
      BY <1>1, <1>2, <1>6, <2>1, <2>2 DEF InRange
  <1> QED
    BY <1>1, <1>3, <1>4, <1>7 DEF Sound

\* The new deployment is not under way: it waits for its payment.
LEMMA CreatePaidKeepsProgress ==
  ASSUME Sound, Progress, CreatePaidDeployment
  PROVE  Progress'
  <1>1. dep'.status = "pending" /\ \A w \in Workers : work'[w].phase = "idle"
    BY CreatePaidEffect, BeforeCreation
  <1> QED
    BY <1>1 DEF Progress, NeverStranded, KnowsProgress

\* _handle_first_payment_paid: of the deployment row only the status changes.
LEMMA PaidEffect ==
  ASSUME Sound, NEW h \in Hooks, FirstPaymentPaid(h)
  PROVE  /\ Queue!EnqueueJob(App) \/ UNCHANGED queueVars
         /\ EnqueuesJob(h) => Queue!EnqueueJob(App)
         /\ UNCHANGED <<releases, powers, live, secrets, work, api>>
         /\ hook[h].stage = "moving"
         /\ dep' \in DeploymentRow /\ dep'.deletedAt = dep.deletedAt
         /\ dep'.status = IF MovesDeployment(h) THEN "provisioning" ELSE dep.status
         /\ dep'.desiredRelease = dep.desiredRelease /\ dep'.appliedRelease = dep.appliedRelease
         /\ dep'.desiredPower = dep.desiredPower /\ dep'.appliedPower = dep.appliedPower
  <1>1. dep \in DeploymentRow
    BY DEF Sound, TypeOK
  <1>2. /\ dep' = IF MovesDeployment(h) THEN [dep EXCEPT !.status = "provisioning"] ELSE dep
        /\ IF EnqueuesJob(h) THEN Queue!EnqueueJob(App) ELSE UNCHANGED queueVars
        /\ UNCHANGED <<releases, powers, live, secrets, work, api>>
        /\ hook[h].stage = "moving"
    BY DEF FirstPaymentPaid, clusterVars
  <1> QED
    BY <1>1, <1>2 DEF DeploymentRow, Status

LEMMA PaidKeepsSound ==
  ASSUME Sound, CallsFit, NEW h \in Hooks, FirstPaymentPaid(h)
  PROVE  Sound'
  <1>1. QueueInv' /\ Queue!TypeOK' /\ UNCHANGED <<holds, up>>
    <2>1. Queue!Next \/ UNCHANGED queueVars
      BY PaidEffect DEF Queue!Next
    <2>2. UNCHANGED <<holds, up>>
      BY PaidEffect, Enqueues DEF Sound, queueVars
    <2> QED
      BY <2>1, <2>2, QueueKeeps DEF Sound
  <1>2. dep.status # "absent" /\ dep'.status # "absent"
    BY PaidEffect DEF CallsFit
  <1>3. TypeOK'
    BY <1>1, PaidEffect DEF Sound, TypeOK
  <1>4. Engaged'
    BY <1>1, PaidEffect DEF Sound, Engaged
  <1>5. dep'.status \in {"deleting", "deleted"} => dep'.deletedAt
    BY PaidEffect DEF Sound, InRange
  <1>6. InRange'
    BY <1>2, <1>5, PaidEffect DEF Sound, InRange, RowInRange, LocalInRange
  <1> QED
    BY <1>1, <1>3, <1>4, <1>6 DEF Sound

\* It puts work under way only together with its job, provided that whoever
\* moves the deployment also found the subscription pending.
LEMMA PaidKeepsProgress ==
  ASSUME Sound, Progress, NEW h \in Hooks, FirstPaymentPaid(h),
         MovesDeployment(h) => EnqueuesJob(h)
  PROVE  Progress'
  <1>1. CASE Queue!EnqueueJob(App)
    <2>1. Open' /\ \A v \in Workers : ~Locked(v)'
      BY <1>1, Enqueues DEF Sound
    <2> QED
      BY <2>1 DEF Progress, NeverStranded, Open, KnowsProgress
  <1>2. CASE ~Queue!EnqueueJob(App)
    <2>1. UNCHANGED queueVars /\ dep' = dep /\ work' = work
      BY <1>2, PaidEffect DEF FirstPaymentPaid
    <2>2. SameLocks
      BY <2>1, LeavesQueue
    <2> QED
      BY <2>1, <2>2, StillProgress DEF Progress, SameLocks
  <1> QED
    BY <1>1, <1>2
-----------------------------------------------------------------------------
(* What a step of the lifecycle does to an unpaid deployment.              *)

\* With no payment the way into reconcile() is a deletion, and validation
\* leads to the teardown.
LEMMA LocalKeepsBare ==
  ASSUME Sound, UnpaidIsBare, mollie.first # "paid", NEW w \in Workers, LocalStep(w)
  PROVE  /\ live'.release = 0 /\ secrets' = {}
         /\ work'[w].phase \in UnpaidPhases
         /\ work'[w].phase = "validate" => work'[w].row.deletedAt
  <1>1. work[w].phase \notin {"idle", "record", "report"}
    BY LocalEffect
  <1>2. /\ work[w].phase \in {"claimed", "validate", "teardown", "namespace"}
        /\ live.release = 0 /\ secrets = {}
    BY <1>1 DEF UnpaidIsBare, UnpaidPhases
  <1>3. holds[w] # 0
    BY <1>1 DEF Sound, Engaged
  <1>4. dep.deletedAt
    BY <1>3, WhoWorks DEF Sound, UnpaidIsBare
  <1>5. CASE LoadAndClaimRelease(w)
    BY <1>2, <1>4, <1>5, LoadEffect DEF UnpaidPhases
  <1>6. CASE ValidateInputState(w)
    <2>1. work[w].phase = "validate" /\ UNCHANGED <<live, secrets>>
      BY <1>6 DEF ValidateInputState, At, clusterVars
    <2>2. Seen(w).deletedAt
      BY <1>4, <2>1 DEF UnpaidIsBare, Seen
    <2>3. work \in [Workers -> Work] /\ work[w] \in Work
      BY LocalTyped DEF Sound, TypeOK
    <2>4. work'[w].phase \in {"record", "teardown"}
      BY <1>6, <2>2, <2>3 DEF ValidateInputState, Work
    <2> QED
      BY <1>2, <2>1, <2>4 DEF UnpaidPhases
  <1>7. CASE HelmUninstall(w) \/ DeleteNamespace(w) \/ DeleteFails(w)
    <2>1. CallStep(w) /\ work[w].phase \in {"teardown", "namespace"}
      BY <1>7 DEF CallStep, HelmUninstall, DeleteNamespace, DeleteFails, At
    <2>2. live'.release = 0 /\ secrets' = {}
      BY <1>2, <1>7 DEF HelmUninstall, DeleteNamespace, DeleteFails, NothingLive, clusterVars
    <2>3. work'[w].phase \in {"namespace", "record"}
      <3>1. CASE HelmUninstall(w)
        BY <3>1, Moved DEF HelmUninstall, Phases
      <3>2. CASE DeleteNamespace(w)
        BY <3>2, Moved DEF DeleteNamespace, Phases
      <3>3. CASE DeleteFails(w)
        BY <3>3, Moved DEF DeleteFails, Phases
      <3> QED
        BY <1>7, <3>1, <3>2, <3>3
    <2> QED
      BY <2>2, <2>3 DEF UnpaidPhases
  <1>8. CASE \/ ClaimPower(w) \/ PublishPrerequisites(w) \/ PrerequisiteFails(w)
             \/ HelmUpgrade(w) \/ HelmRollsBack(w) \/ AfterUpgradeFails(w) \/ SweepAndReap(w)
    BY <1>2, <1>8 DEF ClaimPower, PublishPrerequisites, PrerequisiteFails, HelmUpgrade,
                      HelmRollsBack, AfterUpgradeFails, SweepAndReap, At
  <1> QED
    BY <1>5, <1>6, <1>7, <1>8 DEF LocalStep

\* Of the requests that write only a deletion gets anywhere without a payment.
LEMMA WriteKeepsBare ==
  ASSUME Sound, UnpaidIsBare, mollie.first # "paid", dep.status # "absent", WriteStep
  PROVE  dep'.deletedAt
  <1>1. dep.deletedAt => dep'.deletedAt
    BY WriteEffect
  <1>2. ASSUME NEW c \in Requests, UpdateCommit(c) PROVE dep.deletedAt
    BY <1>2 DEF UpdateCommit, UpdateRefused, UnpaidIsBare
  <1>3. ASSUME NEW target \in PowerStates, ChangePower(target) PROVE dep.deletedAt
    BY <1>3 DEF ChangePower, UnpaidIsBare
  <1>4. ASSUME NEW c \in Requests, DeleteCommit(c) PROVE dep'.deletedAt
    BY <1>4 DEF DeleteCommit, Sound, TypeOK, DeploymentRow
  <1> QED
    BY <1>1, <1>2, <1>3, <1>4 DEF WriteStep, CreateDeployment

\* Steps that leave the cluster and the processes alone, and open no way into
\* reconcile() but through a deletion.
LEMMA StaysBare ==
  ASSUME UnpaidIsBare, mollie'.first # "paid" => mollie.first # "paid",
         UNCHANGED <<live, secrets>>,
         mollie.first # "paid" =>
           /\ dep'.status \notin {"absent", "pending"} \/ Len(jobs') > 0 => dep'.deletedAt
           /\ \A w \in Workers : \/ work'[w] = work[w]
                                 \/ work'[w].phase \in UnpaidPhases \ {"validate"}
  PROVE  UnpaidIsBare'
  BY DEF UnpaidIsBare

LEMMA NextKeepsBare ==
  ASSUME Sound, UnpaidIsBare, dep.status # "absent", Next, mollie' = mollie
  PROVE  UnpaidIsBare'
  <1> SUFFICES ASSUME mollie.first # "paid" PROVE UnpaidIsBare'
    BY DEF UnpaidIsBare
  <1> USE DEF UnpaidPhases
  <1>1. CASE WriteStep
    BY <1>1, WriteEffect, WriteKeepsBare, StaysBare
  <1>2. ASSUME NEW c \in Requests, ReadStep(c) PROVE UnpaidIsBare'
    BY <1>2, ReadEffect DEF UnpaidIsBare, rowVars, clusterVars, queueVars
  <1>3. CASE QuietStep
    BY <1>3, QuietEffect DEF UnpaidIsBare, rowVars, clusterVars
  <1>4. ASSUME NEW w \in Workers, LocalStep(w) PROVE UnpaidIsBare'
    <2>1. /\ jobs' = jobs /\ dep' = dep
          /\ \A v \in Workers \ {w} : work'[v] = work[v]
      BY <1>4, LocalEffect DEF queueVars
    <2> QED
      BY <1>4, <2>1, LocalKeepsBare DEF UnpaidIsBare
  <1>5. ASSUME NEW w \in Workers, RecordOutcome(w) PROVE UnpaidIsBare'
    <2>1. /\ jobs' = jobs /\ dep'.deletedAt = dep.deletedAt /\ UNCHANGED <<live, secrets>>
          /\ work[w].phase = "record" /\ work'[w].phase = "report"
          /\ \A v \in Workers \ {w} : work'[v] = work[v]
      BY <1>5, RecordEffect DEF queueVars
    <2>2. dep.deletedAt
      BY <2>1, WhoWorks DEF Sound, Engaged, UnpaidIsBare
    <2> QED
      BY <2>1, <2>2, StaysBare
  <1>6. ASSUME NEW w \in Workers, ClaimJob(w) \/ ReportJob(w) \/ CrashWorker(w)
        PROVE  UnpaidIsBare'
    <2>1. work \in [Workers -> Work] /\ work[w] \in Work
      BY LocalTyped DEF Sound, TypeOK
    <2>2. UNCHANGED <<dep, live, secrets>>
      BY <1>6 DEF ClaimJob, ReportJob, CrashWorker, rowVars, clusterVars
    <2>3. Len(jobs') = Len(jobs) \/ Len(jobs) > 0
      <3>1. CASE ClaimJob(w)
        BY <3>1, Claims DEF ClaimJob, Sound
      <3>2. CASE ReportJob(w)
        BY <3>2, ReportIsComplete, Reports DEF Sound
      <3>3. CASE CrashWorker(w)
        BY <3>3, Dies DEF CrashWorker, Sound
      <3> QED
        BY <1>6, <3>1, <3>2, <3>3
    <2>4. /\ work'[w].phase \in {"claimed", "idle"}
          /\ \A v \in Workers \ {w} : work'[v] = work[v]
      BY <1>6, <2>1, IdleRow DEF ClaimJob, ReportJob, CrashWorker, Goto, Work
    <2> QED
      BY <2>2, <2>3, <2>4, StaysBare DEF UnpaidIsBare
  <1> QED
    BY <1>1, <1>2, <1>3, <1>4, <1>5, <1>6, Steps
-----------------------------------------------------------------------------
(* What the steps of the billing do to each other.                         *)

\* No call, as a row.
LEMMA NoHookRow == NoHook \in HookRow /\ NoHook.stage = "none"
  BY PaymentAssumption DEF NoHook, HookRow, NoSubscription, SubscriptionRow, Reported, Status

\* Only some calls ended: what the others know is as true as before.
LEMMA FewerCalls ==
  ASSUME \A h \in Hooks : hook'[h] = hook[h] \/ hook'[h].stage = "none",
         mollie'.first = mollie.first,
         dep.status # "absent" => dep'.status # "absent",
         dep'.status = "pending" => dep.status = "pending"
  PROVE  /\ CallsFit => CallsFit'
         /\ PendingTogether
              /\ (dep'.status \in {"absent", "pending"} => ~sub'.mollieSubscription)
              /\ (dep'.status = "pending" /\ mollie.first # "failed" => sub'.payment = "pending")
            => PendingTogether'
  <1>1. CallsFit => CallsFit'
    BY DEF CallsFit
  <1>2. ASSUME PendingTogether,
               dep'.status \in {"absent", "pending"} => ~sub'.mollieSubscription,
               dep'.status = "pending" /\ mollie.first # "failed" => sub'.payment = "pending"
        PROVE  PendingTogether'
    BY <1>2 DEF PendingTogether
  <1> QED
    BY <1>1, <1>2

\* A call that ends has recorded what it fetched, or nothing.
LEMMA CallEnds ==
  ASSUME BillingTyped, NEW h \in Hooks,
         WebhookDone(h) \/ (hook' = [hook EXCEPT ![h] = NoHook] /\ recorded' = recorded)
  PROVE  /\ hook' \in [Hooks -> HookRow]
         /\ recorded' \in [0 .. MaxRenewals -> Reported \union {"none"}]
         /\ \A k \in Hooks : hook'[k] = hook[k] \/ hook'[k].stage = "none"
  <1>1. hook' = [hook EXCEPT ![h] = NoHook] /\ hook \in [Hooks -> HookRow]
    BY DEF WebhookDone, BillingTyped
  <1>2. hook[h].payment \in 0 .. MaxRenewals /\ hook[h].status \in Reported
    BY <1>1 DEF HookRow
  <1>3. recorded' \in [0 .. MaxRenewals -> Reported \union {"none"}]
    BY <1>2 DEF WebhookDone, BillingTyped
  <1> QED
    BY <1>1, <1>3, NoHookRow

\* The subscription that a call writes back.
LEMMA WrittenBack ==
  ASSUME BillingTyped, NEW h \in Hooks, NEW status \in PaymentStates
  PROVE  /\ WithPaymentStatus(h, status) \in SubscriptionRow
         /\ WithPaymentStatus(h, status).mollieSubscription = sub.mollieSubscription
  BY DEF WithPaymentStatus, BillingTyped, SubscriptionRow

\* An edit of payment_status, and what happens at Mollie.
LEMMA EditKeepsBilled ==
  ASSUME Billed, UNCHANGED vars, NEW status \in PaymentStates, UpdatePaymentStatus(status)
  PROVE  Billed'
  <1>1. OwnerEdits /\ sub' \in SubscriptionRow /\ UNCHANGED <<recorded, mollie, hook>>
    BY DEF UpdatePaymentStatus, Billed, BillingTyped, SubscriptionRow
  <1> QED
    BY <1>1 DEF Billed, BillingTyped, CallsFit, UnpaidIsBare, vars, rowVars, clusterVars, queueVars

LEMMA MollieKeepsBilled ==
  ASSUME Billed, UNCHANGED vars, NEW status \in {"paid", "failed"},
         FirstPaymentEnds(status) \/ RenewalCharged(status)
  PROVE  Billed'
  <1> USE PaymentAssumption
  <1>1. UNCHANGED <<sub, recorded, hook, dep, jobs, live, secrets, work>>
    BY DEF FirstPaymentEnds, RenewalCharged, vars, rowVars, clusterVars, queueVars
  <1>2. mollie \in MollieRow /\ Len(mollie.renewals) <= MaxRenewals
    BY DEF Billed, BillingTyped
  <1>3. CASE FirstPaymentEnds(status)
    <2>1. /\ mollie.first = "open"
          /\ mollie' = [mollie EXCEPT !.first = status, !.due = @ \union {0}]
      BY <1>3 DEF FirstPaymentEnds
    <2>2. /\ mollie' \in MollieRow /\ mollie'.first = status
          /\ mollie'.renewals = mollie.renewals
      <3>1. mollie.due \union {0} \in SUBSET (0 .. MaxRenewals)
        BY <1>2 DEF MollieRow
      <3>2. status \in Reported \union {"none"}
        BY DEF Reported
      <3> QED
        BY <1>2, <2>1, <3>1, <3>2 DEF MollieRow
    <2>3. \A h \in Hooks : hook[h].stage = "none" \/ hook[h].payment # 0 \/ hook[h].status = "open"
      BY <2>1 DEF Billed, CallsFit, BillingTyped, HookRow, Reported
    <2>4. CallsFit'
      BY <1>1, <2>1, <2>2, <2>3 DEF Billed, CallsFit
    <2>5. UnpaidIsBare'
      BY <1>1, <2>1 DEF Billed, UnpaidIsBare
    <2>6. ~OwnerEdits => PendingTogether'
      BY <1>1, <2>1 DEF Billed, PendingTogether
    <2> QED
      BY <1>1, <1>2, <2>2, <2>4, <2>5, <2>6 DEF Billed, BillingTyped
  <1>4. CASE RenewalCharged(status)
    <2>1. /\ Len(mollie.renewals) < MaxRenewals
          /\ mollie' = [mollie EXCEPT !.renewals = Append(@, status),
                                      !.due = @ \union {Len(mollie.renewals) + 1}]
      BY <1>4 DEF RenewalCharged
    <2>2. mollie.renewals \in Seq(Reported) /\ status \in Reported /\ mollie.due \subseteq 0 .. MaxRenewals
      BY <1>2 DEF MollieRow, Reported
    <2>3. /\ Append(mollie.renewals, status) \in Seq(Reported)
          /\ Len(Append(mollie.renewals, status)) = Len(mollie.renewals) + 1
          /\ Len(mollie.renewals) \in Nat
      BY <2>2, AppendProperties, LenProperties
    <2>4. Len(mollie.renewals) + 1 \in 0 .. MaxRenewals
      BY <2>1, <2>3
    <2>5. /\ mollie' \in MollieRow /\ mollie'.first = mollie.first
          /\ mollie'.renewals = Append(mollie.renewals, status)
      <3>1. mollie.due \union {Len(mollie.renewals) + 1} \in SUBSET (0 .. MaxRenewals)
        BY <2>2, <2>4
      <3> QED
        BY <1>2, <2>1, <2>3, <3>1 DEF MollieRow
    <2>6. Len(mollie'.renewals) <= MaxRenewals
      BY <2>3, <2>4, <2>5
    <2> QED
      BY <1>1, <2>5, <2>6 DEF Billed, BillingTyped, CallsFit, UnpaidIsBare, PendingTogether
  <1> QED
    BY <1>3, <1>4

\* A call fetches the status that its payment has at Mollie.
LEMMA FetchKeepsBilled ==
  ASSUME Billed, UNCHANGED vars, NEW h \in Hooks, NEW p \in 0 .. Len(mollie.renewals),
         WebhookFetch(h, p)
  PROVE  Billed'
  <1> USE PaymentAssumption
  <1>1. UNCHANGED <<sub, recorded, dep, jobs, live, secrets, work>> /\ mollie.first # "none"
    BY DEF WebhookFetch, vars, rowVars, clusterVars, queueVars
  <1>2. /\ mollie \in MollieRow /\ Len(mollie.renewals) <= MaxRenewals
        /\ hook \in [Hooks -> HookRow] /\ hook[h] \in HookRow
    BY DEF Billed, BillingTyped
  <1>3. p \in 0 .. MaxRenewals /\ StatusAtMollie(p) \in Reported
    <2>1. mollie.renewals \in Seq(Reported) /\ Len(mollie.renewals) \in Nat
      BY <1>2, LenProperties DEF MollieRow
    <2>2. p # 0 => mollie.renewals[p] \in Reported
      BY <2>1, ElementOfSeq
    <2> QED
      BY <1>1, <1>2, <2>1, <2>2 DEF StatusAtMollie, MollieRow
  <1>4. /\ mollie' \in MollieRow /\ mollie'.first = mollie.first
        /\ mollie'.renewals = mollie.renewals
    BY <1>2 DEF WebhookFetch, MollieRow
  <1>5. /\ hook' \in [Hooks -> HookRow]
        /\ hook'[h].stage = "fetched" /\ hook'[h].payment = p
        /\ hook'[h].status = StatusAtMollie(p)
        /\ \A k \in Hooks \ {h} : hook'[k] = hook[k]
    BY <1>2, <1>3 DEF WebhookFetch, HookRow
  <1>6. CallsFit'
    BY <1>1, <1>4, <1>5 DEF Billed, CallsFit, StatusAtMollie
  <1>7. UnpaidIsBare' /\ (~OwnerEdits => PendingTogether')
    BY <1>1, <1>4, <1>5 DEF Billed, UnpaidIsBare, PendingTogether
  <1> QED
    BY <1>1, <1>2, <1>4, <1>5, <1>6, <1>7 DEF Billed, BillingTyped

LEMMA FetchFailsKeepsBilled ==
  ASSUME Billed, UNCHANGED vars, NEW p \in 0 .. MaxRenewals, WebhookFetchFails(p)
  PROVE  Billed'
  <1>1. UNCHANGED <<sub, recorded, hook, dep, jobs, live, secrets, work>>
    BY DEF WebhookFetchFails, vars, rowVars, clusterVars, queueVars
  <1>2. /\ mollie' \in MollieRow /\ mollie'.first = mollie.first
        /\ mollie'.renewals = mollie.renewals
    BY DEF Billed, BillingTyped, WebhookFetchFails, MollieRow
  <1> QED
    BY <1>1, <1>2 DEF Billed, BillingTyped, CallsFit, UnpaidIsBare, PendingTogether

\* A call loads the subscription as it is; a renewal's call finds one only
\* after the first payment was served.
LEMMA LoadKeepsBilled ==
  ASSUME Billed, TypeOK, UNCHANGED vars, NEW h \in Hooks, WebhookLoad(h)
  PROVE  Billed'
  <1>1. UNCHANGED <<sub, recorded, mollie, dep, jobs, live, secrets, work>>
        /\ hook[h].stage = "fetched"
    BY DEF WebhookLoad, vars, rowVars, clusterVars, queueVars
  <1>2. /\ hook \in [Hooks -> HookRow] /\ hook[h] \in HookRow /\ sub \in SubscriptionRow
        /\ recorded[hook[h].payment] \in Reported \union {"none"} /\ dep.status \in Status
    <2>1. hook[h] \in HookRow
      BY DEF Billed, BillingTyped
    <2>2. hook[h].payment \in 0 .. MaxRenewals
      BY <2>1 DEF HookRow
    <2> QED
      BY <2>1, <2>2 DEF Billed, BillingTyped, TypeOK, DeploymentRow
  <1>3. CASE hook[h].payment = 0 \/ sub.mollieSubscription
    <2>1. hook' = [hook EXCEPT ![h].stage = "loaded", ![h].sub = sub,
                               ![h].recorded = recorded[hook[h].payment]]
      BY <1>3 DEF WebhookLoad
    <2>2. /\ hook' \in [Hooks -> HookRow]
          /\ hook'[h].payment = hook[h].payment /\ hook'[h].status = hook[h].status
          /\ hook'[h].stage = "loaded" /\ hook'[h].sub = sub
          /\ \A k \in Hooks \ {h} : hook'[k] = hook[k]
      BY <1>2, <2>1 DEF HookRow
    <2>3. CallsFit'
      BY <1>1, <2>2 DEF Billed, CallsFit
    <2>4. ~OwnerEdits => PendingTogether'
      <3>1. hook[h].payment = 0 /\ hook[h].status = "paid" => mollie.first = "paid"
        BY <1>1 DEF Billed, CallsFit
      <3> QED
        BY <1>1, <1>3, <2>2, <3>1 DEF Billed, PendingTogether
    <2> QED
      BY <1>1, <2>2, <2>3, <2>4 DEF Billed, BillingTyped, UnpaidIsBare
  <1>4. CASE ~(hook[h].payment = 0 \/ sub.mollieSubscription)
    <2>1. hook' = [hook EXCEPT ![h] = NoHook]
      BY <1>4 DEF WebhookLoad
    <2>2. hook' \in [Hooks -> HookRow] /\ \A k \in Hooks : hook'[k] = hook[k] \/ hook'[k].stage = "none"
      BY <1>1, <2>1, CallEnds DEF Billed
    <2> QED
      BY <1>1, <2>2, FewerCalls DEF Billed, BillingTyped, UnpaidIsBare, PendingTogether
  <1> QED
    BY <1>3, <1>4

\* It loads the deployment as it is: while that is pending, so is the
\* subscription that the call loaded.
LEMMA LoadDeploymentsKeepsBilled ==
  ASSUME Billed, TypeOK, UNCHANGED vars, NEW h \in Hooks, LoadDeployments(h)
  PROVE  Billed'
  <1>1. /\ UNCHANGED <<sub, recorded, mollie, dep, jobs, live, secrets, work>>
        /\ hook[h].stage = "loaded" /\ hook[h].payment = 0 /\ hook[h].status = "paid"
        /\ hook' = [hook EXCEPT ![h].stage = "moving", ![h].deployment = dep.status]
    BY DEF LoadDeployments, Loaded, vars, rowVars, clusterVars, queueVars
  <1>2. hook \in [Hooks -> HookRow] /\ dep.status \in Status
    BY DEF Billed, BillingTyped, TypeOK, DeploymentRow
  <1>3. /\ hook' \in [Hooks -> HookRow]
        /\ hook'[h].payment = 0 /\ hook'[h].status = "paid" /\ hook'[h].stage = "moving"
        /\ hook'[h].deployment = dep.status /\ hook'[h].sub = hook[h].sub
        /\ \A k \in Hooks \ {h} : hook'[k] = hook[k]
    BY <1>1, <1>2 DEF HookRow
  <1>4. CallsFit'
    BY <1>1, <1>3 DEF Billed, CallsFit
  <1>5. ~OwnerEdits => PendingTogether'
    BY <1>1, <1>3 DEF Billed, PendingTogether
  <1> QED
    BY <1>1, <1>3, <1>4, <1>5 DEF Billed, BillingTyped, UnpaidIsBare

\* Calls that end without touching the deployment.
LEMMA EndKeepsBilled ==
  ASSUME Billed, UNCHANGED vars, NEW h \in Hooks,
         \/ FirstPaymentPaidFails(h) \/ FirstPaymentFailed(h)
         \/ PaymentStillOpen(h) \/ RenewalReported(h)
  PROVE  Billed'
  <1>1. UNCHANGED <<dep, jobs, live, secrets, work>>
    BY DEF vars, rowVars, clusterVars, queueVars
  <1>2. /\ hook' \in [Hooks -> HookRow]
        /\ recorded' \in [0 .. MaxRenewals -> Reported \union {"none"}]
        /\ \A k \in Hooks : hook'[k] = hook[k] \/ hook'[k].stage = "none"
    BY CallEnds DEF Billed, FirstPaymentPaidFails, FirstPaymentFailed, PaymentStillOpen,
                    RenewalReported
  <1>3. /\ mollie' \in MollieRow /\ mollie'.first = mollie.first
        /\ mollie'.renewals = mollie.renewals
    <2>1. mollie \in MollieRow
      BY DEF Billed, BillingTyped
    <2>2. CASE FirstPaymentPaidFails(h)
      <3>1. PICK created \in BOOLEAN :
              mollie' = [mollie EXCEPT !.recurring = @ \/ created, !.due = @ \union {0}]
        BY <2>2 DEF FirstPaymentPaidFails
      <3>2. mollie.due \union {0} \in SUBSET (0 .. MaxRenewals)
        BY <2>1, PaymentAssumption DEF MollieRow
      <3>3. (mollie.recurring \/ created) \in BOOLEAN
        BY <2>1
      <3> QED
        BY <2>1, <3>1, <3>2, <3>3 DEF MollieRow
    <2>3. CASE ~FirstPaymentPaidFails(h)
      BY <2>1, <2>3 DEF FirstPaymentFailed, PaymentStillOpen, RenewalReported
    <2> QED
      BY <2>2, <2>3
  <1>4. /\ sub' \in SubscriptionRow
        /\ sub'.mollieSubscription = sub.mollieSubscription
        /\ sub'.payment = sub.payment \/ FirstPaymentFailed(h) \/ RenewalReported(h)
    <2>1. sub \in SubscriptionRow /\ "current" \in PaymentStates /\ "arrears" \in PaymentStates
      BY DEF Billed, BillingTyped, PaymentStates
    <2>2. CASE FirstPaymentPaidFails(h) \/ PaymentStillOpen(h)
      BY <2>1, <2>2 DEF FirstPaymentPaidFails, PaymentStillOpen
    <2>3. CASE FirstPaymentFailed(h)
      BY <2>1, <2>3, WrittenBack DEF FirstPaymentFailed, Billed
    <2>4. CASE RenewalReported(h)
      <3>1. PICK status \in {"current", "arrears"} : sub' = WithPaymentStatus(h, status)
        BY <2>4 DEF RenewalReported
      <3> QED
        BY <2>1, <2>4, <3>1, WrittenBack DEF Billed
    <2> QED
      BY <2>2, <2>3, <2>4
  <1>5. ~OwnerEdits /\ dep.status = "pending" /\ mollie.first # "failed" => sub'.payment = "pending"
    <2>1. FirstPaymentFailed(h) => mollie.first = "failed"
      BY DEF FirstPaymentFailed, Loaded, Billed, CallsFit
    <2>2. RenewalReported(h) /\ ~OwnerEdits => dep.status # "pending"
      BY DEF RenewalReported, Loaded, Billed, PendingTogether
    <2> QED
      BY <1>4, <2>1, <2>2 DEF Billed, PendingTogether
  <1>6. CallsFit' /\ (~OwnerEdits => PendingTogether')
    BY <1>1, <1>2, <1>3, <1>4, <1>5, FewerCalls DEF Billed, PendingTogether
  <1>7. UnpaidIsBare'
    BY <1>1, <1>3 DEF Billed, UnpaidIsBare
  <1> QED
    BY <1>2, <1>3, <1>4, <1>6, <1>7 DEF Billed, BillingTyped

\* The first payment is served: the deployment is not pending any more, so
\* the subscription may be anything.
LEMMA PaidKeepsBilled ==
  ASSUME Billed, Sound, NEW h \in Hooks, FirstPaymentPaid(h)
  PROVE  Billed'
  <1>1. /\ hook[h].stage = "moving" /\ hook[h].payment = 0 /\ hook[h].status = "paid"
        /\ dep'.status = IF hook[h].deployment = "pending" THEN "provisioning" ELSE dep.status
        /\ UNCHANGED <<live, secrets, work>>
    BY PaidEffect DEF MovesDeployment, Billed, CallsFit
  <1>2. mollie.first = "paid"
    BY <1>1 DEF Billed, CallsFit
  <1>3. /\ hook' \in [Hooks -> HookRow]
        /\ recorded' \in [0 .. MaxRenewals -> Reported \union {"none"}]
        /\ \A k \in Hooks : hook'[k] = hook[k] \/ hook'[k].stage = "none"
    BY CallEnds DEF Billed, FirstPaymentPaid
  <1>4. /\ mollie' \in MollieRow /\ mollie'.first = mollie.first
        /\ mollie'.renewals = mollie.renewals
    BY DEF FirstPaymentPaid, Billed, BillingTyped, MollieRow
  <1>5. sub' \in SubscriptionRow
    <2>1. "current" \in PaymentStates
      BY DEF PaymentStates
    <2>2. WithPaymentStatus(h, "current") \in SubscriptionRow
      BY <2>1, WrittenBack DEF Billed
    <2> QED
      BY <2>2 DEF FirstPaymentPaid, SubscriptionRow
  <1>6. dep.status # "absent" /\ dep'.status # "absent"
    BY <1>1, <1>2 DEF Billed, CallsFit
  <1>7. CallsFit'
    BY <1>3, <1>4, <1>6, <1>1, FewerCalls DEF Billed
  <1>8. ~OwnerEdits => PendingTogether'
    <2>1. ~OwnerEdits => dep'.status # "pending"
      BY <1>1 DEF Billed, PendingTogether
    <2> QED
      BY <1>1, <1>3, <1>4, <1>6, <2>1, FewerCalls DEF Billed
  <1>9. UnpaidIsBare'
    BY <1>2, <1>4 DEF UnpaidIsBare
  <1> QED
    BY <1>3, <1>4, <1>5, <1>7, <1>8, <1>9 DEF Billed, BillingTyped

\* A paid deployment is created pending, its subscription with it, and no call
\* of the webhook is about it yet.
LEMMA CreatePaidKeepsBilled ==
  ASSUME Billed, Sound, CreatePaidDeployment
  PROVE  Billed'
  <1>1. /\ dep.status = "absent" /\ dep'.status = "pending" /\ ~dep'.deletedAt
        /\ UNCHANGED <<jobs, live, secrets, work, hook>>
    BY CreatePaidEffect DEF queueVars
  <1>2. mollie.first = "none" /\ \A h \in Hooks : hook[h].stage = "none"
    BY <1>1 DEF Billed, CallsFit, BillingTyped, MollieRow
  <1>3. /\ mollie' \in MollieRow /\ mollie'.first = "open"
        /\ mollie'.renewals = mollie.renewals
    <2>1. mollie \in MollieRow /\ mollie' = [mollie EXCEPT !.first = "open"]
      BY DEF Billed, BillingTyped, CreatePaidDeployment
    <2> QED
      BY <2>1 DEF MollieRow, Reported
  <1>4. /\ sub' \in SubscriptionRow /\ sub'.payment = "pending"
        /\ sub'.mollieSubscription = sub.mollieSubscription
    BY DEF Billed, BillingTyped, CreatePaidDeployment, SubscriptionRow, PaymentStates
  <1>5. recorded' \in [0 .. MaxRenewals -> Reported \union {"none"}]
    BY PaymentAssumption DEF Billed, BillingTyped, CreatePaidDeployment, Reported
  <1>6. UnpaidIsBare'
    BY <1>1, <1>2, BeforeCreation DEF Billed, UnpaidIsBare
  <1> QED
    BY <1>1, <1>2, <1>3, <1>4, <1>5, <1>6 DEF Billed, BillingTyped, CallsFit, PendingTogether
-----------------------------------------------------------------------------
(* The composition.                                                        *)

\* No step of the lifecycle takes a deployment back to waiting for a payment.
LEMMA NeverPendingAgain ==
  ASSUME Sound, Next, dep.status # "absent"
  PROVE  dep'.status # "absent" /\ (dep'.status = "pending" => dep.status = "pending")
  <1>1. CASE WriteStep
    BY <1>1, WriteEffect
  <1>2. ASSUME NEW c \in Requests, ReadStep(c) PROVE dep' = dep
    BY <1>2, ReadEffect DEF rowVars
  <1>3. CASE QuietStep
    BY <1>3, QuietEffect DEF rowVars
  <1>4. ASSUME NEW w \in Workers, LocalStep(w) PROVE dep' = dep
    BY <1>4, LocalEffect
  <1>5. ASSUME NEW w \in Workers, RecordOutcome(w)
        PROVE  dep'.status # "absent" /\ (dep'.status = "pending" => dep.status = "pending")
    BY <1>5, RecordEffect, LocalTyped DEF Sound
  <1>6. ASSUME NEW w \in Workers, ClaimJob(w) \/ ReportJob(w) \/ CrashWorker(w)
        PROVE  dep' = dep
    BY <1>6 DEF ClaimJob, ReportJob, CrashWorker, rowVars
  <1> QED
    BY <1>1, <1>2, <1>3, <1>4, <1>5, <1>6, Steps

LEMMA NextKeepsBilled ==
  ASSUME Billed, Sound, dep.status # "absent", Next, UNCHANGED billingVars
  PROVE  Billed'
  <1>1. UNCHANGED <<sub, recorded, mollie, hook>>
    BY DEF billingVars
  <1>2. UnpaidIsBare'
    BY <1>1, NextKeepsBare DEF Billed
  <1>3. dep'.status # "absent" /\ (dep'.status = "pending" => dep.status = "pending")
    BY NeverPendingAgain
  <1>4. CallsFit' /\ (~OwnerEdits => PendingTogether')
    BY <1>1, <1>3, FewerCalls DEF Billed, PendingTogether
  <1> QED
    BY <1>1, <1>2, <1>4 DEF Billed, BillingTyped

LEMMA BillingStarts == BillingInit => BillingInv
  <1> SUFFICES ASSUME BillingInit PROVE BillingInv
    OBVIOUS
  <1>1. Sound /\ Progress
    BY InitEstablishes DEF BillingInit, LifecycleInv
  <1>2. /\ dep.status = "absent" /\ Len(jobs) = 0 /\ live.release = 0 /\ secrets = {}
        /\ \A w \in Workers : work[w].phase = "idle"
    BY <1>1, BeforeCreation DEF BillingInit, Init, NoRow, NothingLive
  <1>3. BillingTyped
    <2>1. mollie \in MollieRow /\ Len(mollie.renewals) = 0
      BY DEF BillingInit, MollieRow, Reported
    <2>2. hook \in [Hooks -> HookRow]
      BY NoHookRow DEF BillingInit
    <2> QED
      BY <2>1, <2>2, PaymentAssumption
      DEF BillingInit, BillingTyped, SubscriptionRow, NoSubscription, Reported
  <1>4. CallsFit /\ PendingTogether
    BY <1>2, NoHookRow DEF BillingInit, CallsFit, PendingTogether, NoSubscription
  <1>5. UnpaidIsBare
    BY <1>2 DEF UnpaidIsBare, UnpaidPhases
  <1> QED
    BY <1>1, <1>3, <1>4, <1>5 DEF BillingInv, Billed

LEMMA BillingKeeps == BillingInv /\ [BillingNext]_allVars => BillingInv'
  <1> SUFFICES ASSUME BillingInv, [BillingNext]_allVars PROVE BillingInv'
    OBVIOUS
  <1>1. Sound /\ Billed /\ (~OwnerEdits => Progress)
    BY DEF BillingInv
  <1>2. SUFFICES Sound' /\ Billed' /\ (~OwnerEdits => Progress')
    BY DEF BillingInv
  <1>3. CASE CreatePaidDeployment
    BY <1>1, <1>3, CreatePaidKeepsSound, CreatePaidKeepsProgress, CreatePaidKeepsBilled
  <1>4. ASSUME NEW h \in Hooks, FirstPaymentPaid(h)
        PROVE  Sound' /\ Billed' /\ (~OwnerEdits => Progress')
    <2>1. Sound' /\ Billed'
      BY <1>1, <1>4, PaidKeepsSound, PaidKeepsBilled DEF Billed
    <2>2. ~OwnerEdits => (MovesDeployment(h) => EnqueuesJob(h))
      BY <1>1, <1>4, PaidEffect
      DEF Billed, PendingTogether, MovesDeployment, EnqueuesJob, WasPending
    <2> QED
      BY <1>1, <1>4, <2>1, <2>2, PaidKeepsProgress
  <1>5. CASE dep.status # "absent" /\ Next /\ UNCHANGED billingVars
    BY <1>1, <1>5, NextKeepsSound, NextKeepsProgress, NextKeepsBilled
  <1>6. CASE UNCHANGED vars
    <2>1. Sound' /\ (~OwnerEdits => Progress')
      BY <1>1, <1>6, NextKeepsSound, NextKeepsProgress
    <2>2. TypeOK
      BY <1>1 DEF Sound
    <2>3. UNCHANGED billingVars => Billed'
      BY <1>1, <1>6 DEF billingVars, Billed, BillingTyped, CallsFit, UnpaidIsBare, PendingTogether,
                        vars, rowVars, clusterVars, queueVars
    <2>4. ASSUME NEW h \in Hooks,
                 \/ \E p \in 0 .. Len(mollie.renewals) : WebhookFetch(h, p)
                 \/ WebhookLoad(h) \/ LoadDeployments(h) \/ FirstPaymentPaidFails(h)
                 \/ FirstPaymentFailed(h) \/ PaymentStillOpen(h)
                 \/ RenewalReported(h)
          PROVE  Billed'
      BY <1>1, <1>6, <2>2, <2>4, FetchKeepsBilled, LoadKeepsBilled, LoadDeploymentsKeepsBilled,
         EndKeepsBilled
    <2>5. ASSUME NEW status \in {"paid", "failed"},
                 FirstPaymentEnds(status) \/ RenewalCharged(status)
          PROVE  Billed'
      BY <1>1, <1>6, <2>5, MollieKeepsBilled
    <2>6. ASSUME NEW status \in PaymentStates, UpdatePaymentStatus(status) PROVE Billed'
      BY <1>1, <1>6, <2>6, EditKeepsBilled
    <2>7. ASSUME NEW p \in 0 .. MaxRenewals, WebhookFetchFails(p) PROVE Billed'
      BY <1>1, <1>6, <2>7, FetchFailsKeepsBilled
    <2>8. CASE \E h \in Hooks : FirstPaymentPaid(h)
      BY <1>4, <2>8
    <2>9. CASE CreatePaidDeployment
      BY <1>3, <2>9
    <2>10. CASE dep.status # "absent" /\ Next /\ UNCHANGED billingVars
      BY <1>5, <2>10
    <2> QED
      BY <2>1, <2>3, <2>4, <2>5, <2>6, <2>7, <2>8, <2>9, <2>10, BillingSteps
  <1> QED
    BY <1>3, <1>4, <1>5, <1>6, BillingSteps

\* Subscription, calls, deployment and cluster fit together in every reachable
\* state.
THEOREM BillingInvariance == BillingSpec => []BillingInv
  BY BillingStarts, BillingKeeps, PTL DEF BillingSpec

\* Nothing is installed before it is paid for, also when somebody edits
\* payment_status by hand and when leases run out under live workers
\* (_validate_input_state, _handle_first_payment_paid).
THEOREM NothingInstalledUnpaid == BillingSpec => []NothingBeforePayment
  <1>1. BillingInv => NothingBeforePayment
    BY DEF BillingInv, Billed, UnpaidIsBare, NothingBeforePayment
  <1> QED
    BY <1>1, BillingInvariance, PTL

\* The billing state is typed, and while nobody edits payment_status by hand a
\* paid deployment never waits without a job (_handle_first_payment_paid).
THEOREM BillingStaysTrue == BillingSpec => []BillingAgrees
  <1>1. BillingInv => BillingAgrees
    <2> SUFFICES ASSUME BillingInv PROVE BillingAgrees
      OBVIOUS
    <2>1. BillingTypeOK
      BY DEF BillingInv, Billed, Sound, BillingTyped, BillingTypeOK, MollieRow, HookRow, SubscriptionRow
    <2>2. PaidNeverStranded
      BY DEF BillingInv, Progress, PaidNeverStranded
    <2> QED
      BY <2>1, <2>2 DEF BillingAgrees
  <1> QED
    BY <1>1, BillingInvariance, PTL
================================================================================

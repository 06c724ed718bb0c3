----------------------------- MODULE FirstPayment -----------------------------
(***************************************************************************)
(* The paid path of a deployment: it is created `pending', a Mollie        *)
(* checkout is opened, and the webhook that reports the first payment      *)
(* (api/webhooks.py) turns it loose on the reconciler.  Composed with the  *)
(* whole of DeploymentLifecycle, because deletions, updates and workers    *)
(* run while notifications are late, lost, repeated or processed twice at  *)
(* once.                                                                   *)
(*                                                                         *)
(* A webhook call fetches the payment from Mollie, loads its row and the   *)
(* subscription, then, if a first payment was paid, the deployment, and    *)
(* commits; in between anything may happen.  (The row locks that its       *)
(* flushed updates take are left out: calls overlap more here than in the  *)
(* database.)  Payment 0 is the first payment, payment i > 0 the i-th      *)
(* renewal that the Mollie subscription charged.                           *)
(***************************************************************************)
EXTENDS DeploymentLifecycle

CONSTANTS
  Hooks,          \* webhook calls that may be in progress at once
  OwnerEdits,     \* may the owner or an admin PATCH payment_status?
  MaxRenewals     \* bound: renewals ever charged

ASSUME PaymentAssumption ==
  OwnerEdits \in BOOLEAN /\ MaxRenewals \in Nat

VARIABLES
  sub,        \* the subscription row
  recorded,   \* mollie_payment rows: the status last written for each payment
  mollie,     \* at Mollie: status of the first payment, renewals, subscription,
              \* the payments it will (again) call the webhook for, and (history)
              \* those it has called for in vain
  hook        \* hook[h]: what webhook call h has fetched and loaded

billingVars == <<sub, recorded, mollie, hook>>
allVars == <<vars, billingVars>>

PaymentStates == {"pending", "current", "arrears"}
Reported == {"open", "paid", "failed"}   \* failed, expired and canceled are one

NoSubscription == [payment |-> "none", mollieSubscription |-> FALSE]
NoHook == [stage |-> "none", payment |-> 0, status |-> "open", sub |-> NoSubscription,
           deployment |-> "absent", recorded |-> "none"]

\* The type invariant of the billing state.
BillingTypeOK ==
  /\ TypeOK
  /\ sub \in [payment : PaymentStates \union {"none"}, mollieSubscription : BOOLEAN]
  /\ recorded \in [0 .. MaxRenewals -> Reported \union {"none"}]
  /\ mollie \in [first : Reported \union {"none"}, renewals : Seq(Reported), recurring : BOOLEAN,
                 due : SUBSET (0 .. MaxRenewals), unread : SUBSET (0 .. MaxRenewals)]
  /\ hook \in [Hooks -> [stage : {"none", "fetched", "loaded", "moving"}, payment : 0 .. MaxRenewals,
                         status : Reported, deployment : Status,
                         recorded : Reported \union {"none"},
                         sub : [payment : PaymentStates \union {"none"},
                                mollieSubscription : BOOLEAN]]]

BillingInit ==
  /\ Init
  /\ sub = NoSubscription
  /\ recorded = [p \in 0 .. MaxRenewals |-> "none"]
  /\ mollie = [first |-> "none", renewals |-> << >>, recurring |-> FALSE, due |-> {}, unread |-> {}]
  /\ hook = [h \in Hooks |-> NoHook]

-----------------------------------------------------------------------------
\* create_deployment on a paid plan: subscription and deployment wait for the
\* payment that Mollie opened, and no job is enqueued.
CreatePaidDeployment ==
  /\ dep.status = "absent"
  /\ MaxReleases > 0
  /\ dep' = [NoRow EXCEPT !.status = "pending", !.desiredRelease = 1]
  /\ releases' = <<NotStarted>>
  /\ sub' = [sub EXCEPT !.payment = "pending"]
  /\ recorded' = [recorded EXCEPT ![0] = "open"]
  /\ mollie' = [mollie EXCEPT !.first = "open"]
  /\ UNCHANGED <<queueVars, powers, clusterVars, work, api, hook>>

\* update_payment_status, the PATCH of a subscription.
UpdatePaymentStatus(status) ==
  /\ OwnerEdits
  /\ sub.payment # "none"
  /\ sub' = [sub EXCEPT !.payment = status]
  /\ UNCHANGED <<vars, recorded, mollie, hook>>

\* At Mollie the customer completes or abandons the checkout, which is final
\* there; a call of the webhook is due.
FirstPaymentEnds(status) ==
  /\ mollie.first = "open"
  /\ mollie' = [mollie EXCEPT !.first = status, !.due = @ \union {0}]
  /\ UNCHANGED <<vars, sub, recorded, hook>>

\* At Mollie the subscription charges a renewal.
RenewalCharged(status) ==
  /\ mollie.recurring
  /\ Len(mollie.renewals) < MaxRenewals
  /\ mollie' = [mollie EXCEPT !.renewals = Append(@, status),
                              !.due = @ \union {Len(mollie.renewals) + 1}]
  /\ UNCHANGED <<vars, sub, recorded, hook>>

StatusAtMollie(p) == IF p = 0 THEN mollie.first ELSE mollie.renewals[p]

\* Mollie calls the webhook for a payment, because a call is due or once more
\* than that; the handler fetches the payment's real status (get_payment).
WebhookFetch(h, p) ==
  /\ hook[h].stage = "none"
  /\ mollie.first # "none"
  /\ hook' = [hook EXCEPT ![h].stage = "fetched", ![h].payment = p,
                          ![h].status = StatusAtMollie(p)]
  /\ mollie' = [mollie EXCEPT !.due = @ \ {p}]
  /\ UNCHANGED <<vars, sub, recorded>>

\* get_payment fails: the handler answers 200 and does nothing, so that Mollie
\* does not call again, and nothing else ever looks.
WebhookFetchFails(p) ==
  /\ p \in mollie.due
  /\ mollie' = [mollie EXCEPT !.due = @ \ {p}, !.unread = @ \union {p}]
  /\ UNCHANGED <<vars, sub, recorded, hook>>

\* It loads the subscription, by the payment's row or, for a renewal, by the
\* Mollie subscription id; without one the call ends (an unknown payment).
WebhookLoad(h) ==
  /\ hook[h].stage = "fetched"
  /\ hook' = IF hook[h].payment = 0 \/ sub.mollieSubscription
             THEN [hook EXCEPT ![h].stage = "loaded", ![h].sub = sub,
                               ![h].recorded = recorded[hook[h].payment]]
             ELSE [hook EXCEPT ![h] = NoHook]
  /\ UNCHANGED <<vars, sub, recorded, mollie>>

Loaded(h, first, status) ==
  /\ hook[h].stage = "loaded"
  /\ (hook[h].payment = 0) = first
  /\ hook[h].status = status

\* sub.deployments, which only a first payment that was paid asks for.
LoadDeployments(h) ==
  /\ Loaded(h, TRUE, "paid")
  /\ hook' = [hook EXCEPT ![h].stage = "moving", ![h].deployment = dep.status]
  /\ UNCHANGED <<vars, sub, recorded, mollie>>

\* The payment_status that the call writes, if it differs from what it loaded.
WithPaymentStatus(h, status) ==
  IF hook[h].sub.payment = status THEN sub ELSE [sub EXCEPT !.payment = status]

\* Record the reported status on the payment's row, if it is news to the
\* call, and end the call.
WebhookDone(h) ==
  /\ recorded' = IF hook[h].recorded = hook[h].status THEN recorded
                 ELSE [recorded EXCEPT ![hook[h].payment] = hook[h].status]
  /\ hook' = [hook EXCEPT ![h] = NoHook]

\* Does this call move a pending deployment, and does it enqueue its job?
\* Only the call that saw the subscription pending enqueues.
WasPending(h) == hook[h].sub.payment = "pending"
MovesDeployment(h) == hook[h].deployment = "pending"
\* Mutant of EnqueuesJob: tested before the deployment is moved.
EnqueuesJob_TestedEarly(h) == WasPending(h) /\ hook[h].deployment = "provisioning"

EnqueuesJob(h) == WasPending(h) /\ hook[h].deployment \in {"pending", "provisioning"}

\* Mutant of FirstPaymentPaid: the id of the Mollie subscription is not kept.
FirstPaymentPaid_IdLost(h) ==
  /\ hook[h].stage = "moving"
  /\ IF EnqueuesJob(h) THEN Queue!EnqueueJob(App) ELSE UNCHANGED queueVars
  /\ dep' = IF MovesDeployment(h) THEN [dep EXCEPT !.status = "provisioning"] ELSE dep
  /\ sub' = WithPaymentStatus(h, "current")
  /\ mollie' = [mollie EXCEPT !.recurring = TRUE]
  /\ WebhookDone(h)
  /\ UNCHANGED <<releases, powers, clusterVars, work, api>>

\* _handle_first_payment_paid: subscription current, deployment provisioning
\* with its job, and the Mollie subscription created once.
FirstPaymentPaid(h) ==
  /\ hook[h].stage = "moving"
  /\ IF EnqueuesJob(h) THEN Queue!EnqueueJob(App) ELSE UNCHANGED queueVars
  /\ dep' = IF MovesDeployment(h) THEN [dep EXCEPT !.status = "provisioning"] ELSE dep
  /\ sub' = [WithPaymentStatus(h, "current") EXCEPT !.mollieSubscription = TRUE]
  /\ mollie' = [mollie EXCEPT !.recurring = TRUE]
  /\ WebhookDone(h)
  /\ UNCHANGED <<releases, powers, clusterVars, work, api>>

\* The call raises and rolls back: its job is refused, or creating the Mollie
\* subscription failed, after Mollie created it or before (the idempotency
\* key makes a second creation return the first).  The answer is not 200, so
\* Mollie will call again.
FirstPaymentPaidFails(h) ==
  /\ hook[h].stage = "moving"
  /\ \E created \in BOOLEAN :
       /\ IF EnqueuesJob(h) /\ Queue!HasOpenJob(App)
          THEN ~created
          ELSE ~hook[h].sub.mollieSubscription
       /\ mollie' = [mollie EXCEPT !.recurring = @ \/ created, !.due = @ \union {0}]
  /\ hook' = [hook EXCEPT ![h] = NoHook]
  /\ UNCHANGED <<vars, sub, recorded>>

\* _handle_first_payment_failed.
FirstPaymentFailed(h) ==
  /\ Loaded(h, TRUE, "failed")
  /\ sub' = WithPaymentStatus(h, "arrears")
  /\ WebhookDone(h)
  /\ UNCHANGED <<vars, mollie>>

\* A payment that is still open is recorded and otherwise ignored.
PaymentStillOpen(h) ==
  /\ Loaded(h, TRUE, "open")
  /\ WebhookDone(h)
  /\ UNCHANGED <<vars, sub, mollie>>

\* _handle_recurring_payment_paid and _handle_recurring_payment_failed.
RenewalReported(h) ==
  /\ \E status \in {"paid", "failed"} :
       /\ Loaded(h, FALSE, status)
       /\ sub' = WithPaymentStatus(h, IF status = "paid" THEN "current" ELSE "arrears")
  /\ WebhookDone(h)
  /\ UNCHANGED <<vars, mollie>>

WebhookStep(h) ==
  \/ \E p \in 0 .. Len(mollie.renewals) : WebhookFetch(h, p)
  \/ WebhookLoad(h)
  \/ LoadDeployments(h)
  \/ FirstPaymentPaid(h)
  \/ FirstPaymentPaidFails(h)
  \/ FirstPaymentFailed(h)
  \/ PaymentStillOpen(h)
  \/ RenewalReported(h)

BillingNext ==
  \/ CreatePaidDeployment
  \/ \E status \in PaymentStates : UpdatePaymentStatus(status)
  \/ \E status \in {"paid", "failed"} : FirstPaymentEnds(status) \/ RenewalCharged(status)
  \/ \E h \in Hooks : WebhookStep(h)
  \/ \E p \in 0 .. MaxRenewals : WebhookFetchFails(p)
  \/ dep.status # "absent" /\ Next /\ UNCHANGED billingVars

BillingSpec == BillingInit /\ [][BillingNext]_allVars

\* Workers make progress as in DeploymentLifecycle.  Mollie makes the calls
\* that are due, a call that was started runs to its end, and creating the
\* subscription does not fail every time.
BillingFairness ==
  /\ \A w \in Workers : /\ WF_allVars(ClaimJob(w) /\ UNCHANGED billingVars)
                        /\ WF_allVars(ReconcileStep(w) /\ UNCHANGED billingVars)
  /\ WF_allVars(LeaseStep /\ UNCHANGED billingVars)
  /\ \A h \in Hooks : /\ SF_allVars(0 \in mollie.due /\ WebhookFetch(h, 0))
                      /\ WF_allVars(WebhookStep(h) /\ hook[h].stage # "none")
                      /\ SF_allVars(FirstPaymentPaid(h))

BillingFairSpec == BillingSpec /\ BillingFairness

-----------------------------------------------------------------------------
(* Properties.                                                             *)

\* Nothing is installed before it is paid for: whatever updates, deletions,
\* power changes and webhook calls cross, a paid plan's deployment has nothing
\* in the cluster until Mollie holds its first payment as paid.
NothingBeforePayment == live.release # 0 \/ secrets # {} => mollie.first = "paid"

\* While nobody edits payment_status by hand, a paid deployment never waits
\* without a job, also when two webhook calls and a deletion cross
\* (_handle_first_payment_paid enqueues only on pending -> current).
PaidNeverStranded == ~OwnerEdits => NeverStranded

\* Billing and the deployment agree, whatever calls, edits and deletions cross.
BillingAgrees == BillingTypeOK /\ PaidNeverStranded

\* A first payment for which Mollie called in vain: get_payment failed.
Unread == 0 \in mollie.unread

\* A deployment whose first payment was paid does not stay pending
\* (mollie_webhook): it is provisioned, or it was deleted meanwhile, unless the
\* handler failed to read the payment, which nothing makes good.
PaidIsServed ==
  (mollie.first = "paid" /\ dep.status = "pending") ~> (dep.status # "pending" \/ Unread)

\* A subscription that Mollie created for a call that then failed is not lost:
\* a later call of the webhook learns its id, so that its renewals find the
\* platform's subscription (the idempotency key of create_subscription), unless
\* that call fails to read the payment.  It takes a worker: while a job is open
\* the call is refused.
RecurringIsLearned ==
  (\E w \in Workers : <>[](w \in up)) => (mollie.recurring ~> (sub.mollieSubscription \/ Unread))

\* A payment comes to its end on both sides: what was paid is served, and what
\* Mollie goes on charging is known.
PaymentsComeThrough == PaidIsServed /\ RecurringIsLearned

-----------------------------------------------------------------------------
(* Statements of the documentation that the code does not keep.            *)

\* openspec/specs/deployment-payment-states: when the first payment is
\* confirmed, a pending deployment becomes provisioning and a reconcile job is
\* enqueued.
PaymentEnqueuesJob ==
  [][dep.status = "pending" /\ dep'.status = "provisioning" => Queue!HasOpenJob(App)']_allVars

\* mollie_webhook: a successful first payment begins provisioning the
\* deployment, also when its reading fails.
PaidIsProvisioned ==
  (mollie.first = "paid" /\ dep.status = "pending") ~> (dep.status # "pending")
=============================================================================

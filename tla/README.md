# Freepod in TLA+

Models of freepod (the platform's code calls itself Caelus): a hosting platform
with an API and workers (`src/api`), daemons (`src/daemons`), a command line
client (`src/cli`), a builder container (`src/products/custom/builder`) and an
operations agent (`src/ops/upgrader`). The modules follow that code step by
step; TLC checks them on small instances, and TLAPS proves for every instance the
safety of the job queue, of a deployment's lifecycle and what it promises its owner,
of its payment, of the build worker and the pod of a build, of who an account
belongs to, of signing in to an app and out again, of tenant databases and of rotating
the encryption key, of the catalog beside its administrators, of vars, object storage, bucket
sizes, image retention, log streams, the upgrader's runs, and of the command line's deploys, credentials and requests. Paths below are relative to `src/api/app` unless they start with `src/`.

Check a run with `tlc -config <cfg> <module>`, a proof with `tlapm <module>.tla`.
`PROJECT.json` lists the runs, maps every definition to the lines it models, and
lists the hazards the properties are about.

## The system

A user **signs in** from the command line, **packs** a project, has an image
**built** from it in a pod of its own, and creates a **deployment** of a product
from the **catalog**. Paid plans first wait for a **payment**. The API writes
what is wanted into PostgreSQL and enqueues a **reconcile job**; a pool of
**worker** processes, in any number of pods, claims jobs and makes the cluster
(Helm, Kubernetes, **object storage**, **tenant databases**) agree. Daemons sign
visitors in to apps, stream logs, measure buckets; periodic workers sample
**usage**, **prune** images, sweep database quotas and **upgrade** products.
Everything is coordinated through the database: rows, unique indexes,
conditional `UPDATE`s, row and advisory locks. Almost nothing is coordinated in
memory, and almost nothing in one transaction with a system outside.

| component | state | operations | what is hard | correct means | module |
|---|---|---|---|---|---|
| Job queue (`services/jobs.py`), worker pool (`worker.py`) | `deployment_reconcile_job`, processes | enqueue, claim, report; crash, leave, return | competing claims, dead and slow holders, late reports | one open job and one worker per deployment, no job stranded | `ReconcileQueue` |
| Deployment requests (`services/deployments.py`, `power.py`), reconciler (`reconcile.py`), provisioner (`provisioner.py`) | deployment, release and power rows; the Helm release and Secrets; the session's copy of the row | create, update, delete, stop, start; every commit and external call of a reconcile | failure or death between any two calls; a stale copy; read, then conditional write | the row says what the cluster runs; a deletion is not undone | `DeploymentLifecycle`, `Rollout` |
| Payments (`api/webhooks.py`, `services/subscriptions.py`, `mollie.py`) | subscription and payment rows | webhook calls, PATCH | repeated, overlapping, late and failing calls | paid is served, unpaid is not | `FirstPayment` |
| Builds (`services/builds.py`, `build_worker.py`) | `build`, its Job, the mirrored log | create, a pass of the worker | killed between two commits, rotated output, two workers | each build ends once, no Job outlives its row | `BuildPipeline` |
| Builder container (`src/products/custom/builder/build.py`, `services/build_jobs.py`) | the pod: archive, tree, meter, termination message | receive, extract, build, push, meter, report | limits met exactly, a kill, a thread beside the build | the one message says what happened, and fits | `BuilderRun` |
| Image retention (`services/image_retention.py`, `registry_prune.py`) | registry tags, ledger of releases | list, read, delete | lists read one after another while builds and writes go on | what is retained can be pulled | `ImageRetention` |
| Tenant databases (`services/relational_storage.py`, `db_worker.py`) | `tenant_database`, roles, databases | ensure, quota sweep, teardown, purge | a crash between any two statements | nothing exists that no row names; quota states settle | `TenantDatabase` |
| Object storage (`services/object_storage.py`, `garage.py`) | bucket, key, credentials on the row | provision, repair, tear down, one call at a time | a call fails with or without its effect | what is handed out works; a teardown leaves no key | `ObjectStorage` |
| Vars (`services/vars.py`) | head rows, snapshots | set, replace, delete, update with vars | writes during a snapshot | a release froze one edit's result | `DeploymentVars` |
| Secret encryption (`services/var_crypto.py`) | key list of each process, rows with their key | start check, encrypt, rotate | processes with different lists; an interrupted sweep | whoever serves can read everything | `KeyRotation` |
| Catalog, products, templates (`services/catalog.py`) | products, templates, stored images | apply in a rollout, administrative writes | two rollouts and an administrator at once | applied whole or not at all; what the administrator owns stays | `Catalog` |
| Usage ledger (`services/usage/`) | recorded windows and builds | a sampling pass, a report | missed windows, positions derived from what is recorded | each window once, none out of reach | `UsageLedger` |
| Bucket exporter (`src/daemons/bucket-exporter`) | sizes, marks | activity, one read per turn, seed | a write during the read of its size | none starves, sizes converge | `BucketExporter` |
| App access (`services/app_access.py`), app-auth daemon (`src/daemons/app-auth`) | access entries, codes, sessions, ended sessions | invite, sign in, consent, redeem, refresh, back-channel logout | concurrent claims of one address; a logout beside a sign-in | a session is its browser's and its account's; an ended one is refused | `AppSignIn`, `AppSignOut` |
| Log streams (`services/log_stream.py`, `loki.py`; `src/cli/src/freepod/logs.py`) | cursors, open streams | poll, connect, reconnect, print | overlapping polls, cut batches, dropped connections | no gap, no repetition, no end | `LogFollow` |
| Command line: credentials and requests (`src/cli/src/freepod/auth.py`, `api.py`) | the token cache, each command's token | sign in, send, renew, retry, sign out | answers lost or late; several commands at once | carried out once; nothing leaves its environment | `ClientAuth` |
| Command line: archive (`archive.py`), deploy (`deploy.py`, `build.py`, `project.py`), transfers (`objects.py`, `s3.py`) | `.freepod.json`, the upload, parts in flight | pack; deploy, recreate, delete, init; cp, mv | Ctrl-C anywhere, other clients, one item failing | what git tracks is packed; a deployment stays addressable; a move loses nothing | `ProjectArchive`, `ClientDeploy`, `BucketTransfer` |
| Product upgrader (`src/ops/upgrader`) | runs, sessions, proposals | request, nightly run, session, publish, cancel, restart | a cancel or a timeout at the wrong moment | runs keep apart and end | `ProductUpgrader` |
| Users, handles, hostnames, SSH keys (`deps.py`, `services/users.py`, `hostnames.py`, `ssh_keys.py`), SSH auth daemon (`src/daemons/ssh-auth`) | `user`, `user_ssh_key`, the hostnames of deployments; what a request loaded | find, make, adopt, rename, delete an account; claim a handle, take a hostname, add and remove keys | reads and checks in statements of their own, updates that name a row by id, indexes over live rows only | an account, its names and its keys are one person's | `Accounts` |
| Formats and DNS of hostnames, plans, mail, registry tokens, manifests, UI, charts, the command lines' own option parsing | single rows or none | — | — | not modelled: single guarded writes, computation or configuration | — |

## Modules

One module per component, as in the table. The modules do not share state
except as follows.

* `DeploymentLifecycle` uses the queue by `INSTANCE ReconcileQueue WITH
  Deployments <- {App}` on the same variables, and implements it
  (`UsesTheQueue`, checked and proved). It also implements `Rollout`
  (`KeepsItsPromise`, checked and proved). `FirstPayment` extends
  `DeploymentLifecycle` with the paid path on the same row.
* `ReconcileQueue_proofs`, `DeploymentLifecycle_proofs`, `FirstPayment_proofs`
  (which extends the former), `BuildPipeline_proofs` and `Accounts_proofs` hold the
  theorems of the module each is named after. The other three hold those of modules
  that share no state: `Access_proofs` of `AppSignIn`, `AppSignOut` and `ClientAuth`,
  `Housekeeping_proofs` of `KeyRotation`, `TenantDatabase`, `BucketExporter` and `Catalog`,
  `Components_proofs` of
  `ImageRetention`, `ProductUpgrader`, `LogFollow`, `BuilderRun`, `ObjectStorage`,
  `ClientDeploy` and `DeploymentVars`.
* `MC...` modules give constants for TLC. `MCOverlap`, `MCDeployments`, `MCProgress`,
  `MCAccess`, `MCBackground` and `MCRequests` check several components that
  share no state in one run: `focus` is chosen at the start and only that
  component's actions are taken, so a run's states are those of each component
  added up, not multiplied, and nothing is interleaved that the components could
  not tell apart. Fairness is that of each module, restricted to its focus.

What the components have in common but not in state (a build's image that a
deployment names, a key that a reconcile publishes) appears in the module that
depends on it, as nondeterminism: `ImageRetention` has its own deployments and
builds, `ClientDeploy` its own API and other clients.

Definitions whose comment says *Mutant of D* are variants of `D` as a plausible
bug would leave it; no specification uses them. Putting one in place of `D`
breaks a property, which is how the properties are known to be sensitive to the
code. They are listed in `PROJECT.json`.

### ReconcileQueue

`jobs` is the table (a row's id is its position), `holds[w]` the job process `w`
works on, `up` the live processes. One action is one transaction: `EnqueueJob`
(refused by the partial unique index while a job is open), `ClaimNextJob`
(`FOR UPDATE SKIP LOCKED`, oldest claimable first; a queued row, or a running
one whose lease is over), `CompleteJob` (the `UPDATE ... WHERE locked_by` of
`_complete_job`), `Crash`, `Shutdown`, `Restart`. Time is one bit per row,
`leaseOver`, the only comparison the code makes with it. The lease is twice the
Helm timeout, so that it should outlive its holder; `MayWedge = TRUE` drops that
assumption. `run_after` is abstracted: `defer_job` has no caller.

### DeploymentLifecycle, Rollout and FirstPayment

`dep`, `releases` and `powers` are the rows, `live` and `secrets` the cluster,
`work[w]` what `reconcile()` holds in its session and local variables, `api[c]`
what a request has read before it writes. A reconcile is one step per commit and
per external call; `CrashWorker` may come between any two. `work[w].row` is what
the session loaded; `expired` says the next access reads the row again; `Flushed`
writes what SQLAlchemy writes, the columns whose value differs from what was
loaded. The model follows one deployment; hostname uniqueness is an index.

`Rollout` is what all this is for, as the owner of a deployment sees it: one request
at a time is accepted, the cluster is brought to what is wanted or the attempt is
given up, success is claimed only of what runs, and nothing is installed once a
deletion was accepted. It has no jobs, workers, crashes or copies of rows: a
reconcile that is started over is an `Install` that is repeated. `AsRollout` maps the
row, the cluster and whether a job is open to it.

In `FirstPayment`, `mollie` holds what is true at Mollie, including `due`, the
payments it will call the webhook for. A call fetches the payment, loads its rows and
then the deployment, and commits, in steps of their own, so calls overlap with each
other, with the owner and with workers. Any `get_payment` may fail; the handler answers
200 and Mollie does not call for that payment again: `unread` remembers it.

### BuildPipeline and BuilderRun

`BuildPipeline` is the build worker: `builds` is the table, `kube[b]` the Job,
`worker[w]` where a process is in `run_pass`. The log is a sequence of bytes,
because clients read it by offset; `Byte(n)` is the n-th byte a Job writes. There
are finitely many build workers, in any number; what only one worker at a time can
promise (`OneWorker`, as deployed) says so: two that mirror one Job overwrite each
other's logs, so `LogNeverShrinks` holds for one only. `BuilderRun` is the inside of one Job: the
bytes received and extracted are numbers compared with the limits, the meter is a
thread whose ticks fall anywhere, and the termination message is cut by
characters while the kernel's file is cut by bytes. `Area` is the integral of the
readings, a recursive function, as the reference for the meter's running sum. At most
`MaxTransient` probes of the egress gate fail for another reason before the jail is
up, and `BuilderAssumption` has that be at most one: the gate waits for two refusals in
a row "so a single transient failure is not mistaken for the jail" (`egress_gate.py`),
and promises nothing for two.

### Accounts

`users`, `keys` and `apps` are the tables (an id is a position), `request[c]` what
request `c` has found, loaded and decided. A request finds its caller's record by
the ladder of `_resolve_user` (by subject, then by address: adopt an unbound record
or make a new one), each rung a statement of its own, loads it, checks, and writes
in one commit. Nothing is locked: partial unique indexes over live records refuse a
write, which `get_current_user` tries again once, and an `UPDATE` names its row by
id, whatever became of it since it was read. `by` of a key is history: who
registered it.

All of this overlaps freely. `crossed` is history: the records that a commit wrote to
although they were not as its request had seen them, because a deletion, another
adoption or another claim had passed in between. The properties hold of every other
record, so that what such a commit does wrong stays with the record it wrote to;
`claims_overlap` and `key_outlives_account` show two things it may do. The
administrator's commands on handles and keys, custom domains with their DNS, and the
terms of service are left out.

### The other modules

* `AppSignIn`: two browsers through claim, consent, code and redemption, while
  the owner edits the access list and releases switch sign-in on and off. Removing an
  entry locks it, signs its person out of an OIDC app and commits or, when the app does
  not accept the logout, leaves it: two steps (`leaving`), during which a bind waits.
  `via` and `through` remember by which entries a sign-in was admitted: the one it
  bound, and those that were bound to its account when it read the list.
  `AppSignOut`: time is a small clock; `EndedRetention` and `SessionTTL` are
  equal there as in the code (7 days), and what is proved needs `SessionTTL <=
  EndedRetention` only; `EndedLookback` is the overlap of polls.
* `LogFollow`: lines have stamps, of which several may be equal; a poll reads a
  batch from a cursor; the client reconnects from its own. Lines of one stamp are taken
  to differ in text, by which the code's cursor tells them apart.
* `TenantDatabase`, `ObjectStorage`: one step per statement or call, each of which may fail,
  in `ObjectStorage` also after it took effect. `KeyIds` bounds the keys Garage mints.
* `ImageRetention`: listing, ledger and deletion are three steps beside builds
  and writes; `left` is history, the images that have left retention since they
  were built. `DeploymentVars`: the lock of `merge_vars` and the transaction of an
  update are steps; `Declared` are the keys whose sensitivity the template's schema says.
* `Catalog`: an apply is one transaction under the advisory lock; what it flushed
  is locked, what it only read is not, so administrators write in between.
* `KeyRotation`: the operator's procedure of `src/tf/README.md` (distribute,
  promote, sweep, retire) with processes that start and end at any moment. A sweep
  is not required before a key is retired: the property holds without it, because
  processes then refuse to start.
* `UsageLedger`: grid lines are clock ticks; cost is rate times time.
  `BucketExporter`: one read per turn, the choice of the bucket is the code's; `tried`
  keeps for each bucket those tried longer ago, in place of a time.
* `ClientAuth`: three commands of one user share a cache, tokens are generations;
  a request may be lost before or after it was carried out. `ProjectArchive`: a
  pattern is a record, a path a sequence of names, the built-in excludes name
  directories and files; git's verdict on a path is
  defined separately (`GitTracks`) as the reference the walk is compared with.
  `ClientDeploy`: one checkout, interrupted between any two requests or writes.
  An upload reads the archive from the reader's position, which a refused slot leaves
  anywhere (`Rewound`). `BucketTransfer`: items in flight, batches, multipart uploads,
  faults; a name that ends in a slash is a folder unless it holds data (`FullMarkers`).
* `ProductUpgrader`: scheduler, web and session threads with the code's lock and
  sentinel file.

## Runs

Passing runs. A property that ends a module's list of parts (`...Hold`,
`...AreSound`) is a conjunction; its parts are named and commented in the module.
Two collect the liveness of the components of a run: `AllComeThrough`, that a
followed log's lines arrive (`LinesArrive`), a recorded sign-out is applied for good
(`SignOutIsApplied`) and every command ends (`CommandsEnd`); `AllGetsThere`, that jobs
settle (`JobsSettle`), the usage ledger catches up (`CatchesUp`), sizes and quotas come
to be right (`SizesConverge`, `QuotaConverges`) and a purge completes
(`PurgeCompletes`).

| run | instance | properties |
|---|---|---|
| `overlap` | leases may run out under live holders, in the queue with 3 jobs and in a deployment with 2; 2 build workers; 2 rollouts and an administrator on 3 products, 4 templates, 2 images; keys: 2 keys, 2 processes, 2 rows, 3 edits, 1 sweep; accounts: 2 people who present 3 identities with 2 addresses, 1 handle, 1 label, 1 SSH key, 2 requests, 2 records, 1 deployment | `OneLeaseHolder`, `StaleReportsChangeNothing`, `NeverStranded`, `ClaimedOnce`, `AccountsAreSound`, `CatalogHolds`, `SecretsStayReadable` |
| `deployments` | free: 2 workers, 2 requests, 3 releases, 2 power changes, 4 jobs, 1 crash; paid (`PaidBounds`): 2 webhook calls that read the payment, 1 request, 2 releases, 2 jobs, 1 renewal beside the first of them; builds (`BuildBounds`): 2 builds, limit 1, 3 bytes of output over a cap of 2, 1 kill; a pod with 5 archives around every limit; a bucket with 3 reconciles and 2 faults | `RowIsTrue`, `OutcomesAgree`, `BillingAgrees`, `BuildsReportTruly`, `JobsMatchRows`, `StorageHolds`, `FinalIsFinal`, the refinement `UsesTheQueue`, `RowsOnlyGrow` |
| `progress` | free: 2 workers, 2 releases, 1 power change, 1 request, 3 jobs, 1 crash, tenant database; paid: 1 worker, calls that fail or are repeated, `payment_status` edited by hand, 1 request, 2 releases; builds: 2 builds, limit 1, 1 kill | `NothingBeforePayment`, the refinement `KeepsItsPromise`, `RequestsSettle`, `PaymentsComeThrough`, `BuildsEnd` |
| `access` | sign-in: 2 browsers, 2 people of one address, 1 entry, 1 release; sign-out: 4 ticks, 2 tabs, 2 logins, a restart or a key rotation; log: 3 lines, batches of 2, 2 dropped connections; client: 3 commands, 2 environments, 2 network faults | `SignInsAreSound`, `SignOutsHold`, `StreamsAreExact`, `ClientHolds`, `AllComeThrough` |
| `background` | queue: 2 deployments, 2 processes, 3 jobs, 2 attempts, 2 crashes; ledger: 7 ticks, windows of 2, 2 builds, 1 fault; exporter: 2 buckets, 1 outage; database: 2 reconciles, 2 resizes, 1 fault; upgrader: 2 runs, 1 restart, 1 cancel | `TypeOK`, `OneWorkerPerDeployment`, `AttemptsCountDeaths`, `LedgerHolds`, `SizesKeepUp`, `AllGetsThere`, `DatabasesHold`, `RunsEndApart` |
| `requests` | vars: 2 writers, 2 keys, 3 requests; retention: 4 builds of 3 images, 4 releases of which 2 were there before, 1 past image retained, 1 prune; checkout: 2 environments, 2 deployments, 2 commands, an archive of 2 reads; transfers: 10 commands over 12 names, one of them a folder's with data, 1 fault; upgrader as above; archive: files at three depths, every pair of 10 patterns at the root with 4 nested files and 7 `.freepodignore`s | `VarsCompose`, `RetentionHolds`, `CheckoutHolds`, `TransfersAreSound`, `RunsKeepApart`, `PacksAreRight` |

Why the bounds show the interesting cases: two processes are needed for a
take-over and a third would repeat the second, since a deployment has one open
job; three releases allow one that was applied, one that failed and one on top of
it; two power changes allow a failed one between two others; a log cap of 2 with 3
bytes covers below, at and above the cap; two accounts of one address are a race
and three are the same race; three log lines with a batch of 2 cut a batch inside
a stamp; 3 products and 2 names are enough for a swap of names; 2 keys are all a
rotation ever has; two people who share an address and two requests are a race for
one record, one handle or one hostname, and two records are one that is deleted and
one made after it; three edits complete one and begin the next; batches of one
row with two rows interrupt a sweep in the middle of a column and between two.
One fault at a time is a bound: two independent faults in one transfer or one
tenant database are not explored. Symmetry is used in `overlap`, `deployments` and
`requests`, which have no liveness, over the sets whose permutations save more
states than they cost. `CHECK_DEADLOCK FALSE` is set where a
component really stops (a command that ended, a catalog that is applied, a clock
at its bound); the other runs check deadlock.

Runs in which TLC finds a counterexample to what a comment or a document of the
repository says. Each is a finding in `PROJECT.json`, with the quoted line:

| run | statement | what happens |
|---|---|---|
| `applied_not_live` | after a failure the applied release is the running one (comment in `reconcile()`) | a call *after* a successful upgrade fails: nothing is rolled back |
| `paid_without_job` | payment makes a deployment `provisioning` with a job | not if `payment_status` was edited while the payment was open; neither update nor power can then reach the deployment |
| `nested_move` | a source is deleted only after its copy is complete | `mv :a/b/ :a/` overwrites a source that is still to be copied, and deletes it afterwards |
| `claims_overlap` | a handle is claimed once, by an account without one | of two overlapping claims of one account the second replaces the first's handle |
| `paid_but_unread` | a successful first payment begins provisioning (docstring of `mollie_webhook`) | `get_payment` fails once: the call is answered with 200, no other comes, and the deployment stays pending |
| `key_outlives_account` | no key outlives its owner | a key is inserted after the deletion of the account its request had loaded |

### Fairness

* Queue and lifecycle: a live process keeps polling; an abandoned lease runs out.
  That it finishes what it does is an *assumption*: the calls it makes return. The code
  bounds `helm upgrade` and `helm uninstall` only; other commands run without a timeout
  (`proc.py:42-44`), and deleting a namespace waits until it is gone
  (`provisioner.py:49`). `RequestsSettle`, `JobsSettle` and with it `AllGetsThere` say
  nothing about a process that hangs in such a call. Restarts
  get *no* fairness, because `run_worker` does not replace a dead child; the
  liveness properties assume that from some time on one process stays up.
  Requests get none.
* Payments: workers as above. Mollie makes the calls that are due (the
  repository's design document counts on ten retries over 26 hours), a call that
  was started ends, and `create_subscription` does not fail for ever. `get_payment` may
  fail at any call; `PaymentsComeThrough` excepts a payment whose call was answered
  without it having been read, and `paid_but_unread` shows what becomes of it.
* Builds: the worker keeps passing (its pod is restarted by Kubernetes), every Job
  ends by its `activeDeadlineSeconds`, and looking at a Job does not fail always.
* Sign-out: the daemon's refresh loop goes on. Logs: polls start and end, a
  reader prints and reconnects; nothing about lines being written.
* Ledger and exporter: their loops go on and a read ends one way or the other.
  Tenant databases: the reconciler and the daily worker go on, and the grace
  period ends. Upgrader: every thread of a container that is up goes on. Client
  commands: every command takes its next step (requests have timeouts).
* No fairness is given to users, administrators, faults, crashes or restarts.

## Proofs

Each theorem holds for every value of the constants that satisfies its module's
assumption: any sets of deployments, workers, requests, webhook calls, browsers,
people, addresses, artifacts, keys and processes, and any bounds.

| theorem | states |
|---|---|
| `QueueTypeCorrect` | `Spec => []TypeOK` of the queue |
| `OneOpenJobAlways` | `Spec => []OneOpenJob` |
| `MutualExclusion` | `Spec => []OneWorkerPerDeployment` |
| `LeaseExclusion` | `Spec => []OneLeaseHolder` |
| `AttemptsAreDeaths` | `Spec => []AttemptsCountDeaths` |
| `StaleReports` | `Spec => StaleReportsChangeNothing` |
| `LifecycleUsesTheQueue` | the lifecycle implements the queue |
| `ReconcilesExclude` | so the queue's mutual exclusion holds of the reconciler |
| `LifecycleInvariance` | `Spec => []LifecycleInv` of the lifecycle |
| `RowStaysTrue` | `Spec => []RowIsTrue` |
| `OutcomesStayTrue` | `Spec => []OutcomesAgree` |
| `NobodyStranded` | `Spec => []NeverStranded`, leases that run out included |
| `FinalStaysFinal` | `Spec => FinalIsFinal` |
| `PromiseKept` | the lifecycle implements `Rollout`, with `~MayWedge` |
| `BillingInvariance` | `BillingSpec => []BillingInv` |
| `NothingInstalledUnpaid` | `BillingSpec => []NothingBeforePayment`, edits by hand included |
| `BillingStaysTrue` | `BillingSpec => []BillingAgrees` |
| `BuildsInvariance` | `Spec => []BuildsInv` of the build worker |
| `JobsStayMatched` | `Spec => []JobsMatchRows` |
| `RowsStayGrown` | `Spec => RowsOnlyGrow` |
| `BuildsClaimedOnce` | `Spec => []ClaimedOnce`, for any number of build workers |
| `AccountsSound` | `AccountsSpec => []AccountsAreSound` |
| `SignInInvariance` | `SignInSpec => []SignInInv` |
| `SignInsStaySound` | `SignInSpec => []SignInsAreSound` |
| `SecretsAlwaysReadable` | `RotationSpec => SecretsStayReadable` |
| `RetentionIsSound` | `RetentionSpec => RetentionHolds` |
| `RunsStayApart` | `UpgraderSpec => []RunsKeepApart` |
| `FollowingIsExact` | `FollowSpec => []StreamsAreExact` |
| `BuildsStayTrue` | `BuilderSpec => []BuildsReportTruly` |
| `StorageStaysWhole` | `StorageSpec => StorageHolds` |
| `CheckoutStaysSound` | `ClientSpec => CheckoutHolds` |
| `VarsStayWhole` | `VarsSpec => VarsCompose` |
| `SignOutStays` | `SignOutSpec => []SignOutsHold` |
| `ClientStaysSound` | `AuthSpec => []ClientHolds` |
| `DatabasesStayTrue` | `TenantSpec => DatabasesHold` |
| `SizesStayCurrent` | `ExporterSpec => []SizesKeepUp` |
| `CatalogStaysTrue` | `CatalogSpec => CatalogHolds` |

What is assumed of the constants: bounds are naturals and switches Booleans; the
null worker, person, sign-in and key are none of their kind; people have an address
each, apps an owner (`SignInAssumption`); what presents itself to the API is a subject or
none with an address (`AccountsAssumption`); a batch of a sweep has at least one row
(`RotationAssumption`); the build worker admits at least one Job, the marker and
the eviction line are bytes and there are finitely many workers (`BuildAssumption`);
a run's catalog lists slugs (`UpgraderAssumption`); batches and buffers are not empty
(`FollowAssumption`); archives are of the given shape and one probe may fail
(`BuilderAssumption`); a key has a name and an allowance is a number
(`StorageAssumption`); the default environment is one, and an archive has a first byte
(`ClientAssumption`); keys are finitely many and no value is the tombstone
(`VarsAssumption`); commands are finitely many and send at least once
(`AuthAssumption`); buckets are finitely many, numbered in the order of their aliases
(`ExporterAssumption`); the catalog's tables before the first rollout satisfy their
unique indexes, point to templates of their own product and hold one template of a
spec inserted by an apply, an image has one document per slug, and slugs and ids are
numbers other than the null (`CatalogAssumption`); of the lifetimes of a sign-out, `TxTimeout <= EndedLookback`,
`SessionTTL <= EndedRetention` and `LoginLifespan <= SignInRetention`
(`SignOutAssumption`: `src/daemons/app-auth/ended.go:14` states the first, the test
`TestSignOutRetention` pins the other two as equalities).
Nothing is assumed about behaviour.

**Queue.** Mutual exclusion says nothing about which row a process holds, so after
a claim it cannot be re-established. `QueueInv` adds: a running row is locked and a
queued one is not (`LockedRows`); a dead process holds nothing (`DownHoldsNothing`);
while leases outlive their holders, what a process holds is a running row locked
by it and in lease (`HoldersAreLocked`); attempts, plus one for a row abandoned or
out of lease, never exceed the deaths (`DeathsCounted`). Two holders of one
deployment then hold open rows of it, which by `OneOpenJob` are one row, which has
one lock.

**Lifecycle.** `LifecycleUsesTheQueue` maps every step of the lifecycle to an
action of the queue or a stutter. The queue's invariant is then part of the
lifecycle's, and the job table is looked at through three questions only: is a job
open (`Open`), what does a process work on (`holds`), is its lock still its own
(`Locked`); one lemma per queue action says what it does to the answers.
`LifecycleInv` has three parts, because they hold under different conditions.
`Sound` (types, what a row or a process refers to exists, a deletion is never taken
back) needs nothing. `Progress` is `NeverStranded` with what carries it, and survives a
lease that runs out under a live worker: a process that still has its lock and has
seen a settled row knows that it is settled, and once it has recorded an outcome
nothing is under way (`KnowsProgress`). `Alone`, for leases that outlive their
holders, says what the one reconciler knows between two of its steps: its copy of
the row is the row, its plan is what is desired (`PlanIsDesired`), the calls behind
it have left this in the cluster (`ClusterFollows`); and that the rows agree with
each other when nobody is at work (`ReadyHolds`, `PowersAgree`, `ReleasesAgree`).
From it `RowIsTrue`, `OutcomesAgree` and `FinalIsFinal` follow.
Without the queue's mutual exclusion `Alone` is false, which is why `MayWedge`
appears in those three.

**Payment.** `BillingInv` keeps `Sound` and `Progress` through the steps of
Mollie and of webhook calls. `Billed` adds that what a call was told about the
first payment is final (`CallsFit`), and that before that payment nothing is in the
cluster, the only job is one of a deletion, and no reconcile is further than its
validation (`UnpaidIsBare`); `NothingBeforePayment` needs no more, whoever edits
what by hand. That what is paid for has a job needs `PendingTogether`: unless
somebody edits `payment_status`, deployment and subscription wait together, and a
call that loaded them waiting loaded both. `paid_without_job` shows that the
condition is needed.

**Builds.** `Sound` holds for any number of workers: claims are conditional updates,
so a build is claimed once, and a worker refers to builds that exist. `Orderly` is
for one: what it still has to visit runs, the one it inspects has the log it stored,
one it is about to finish has no active Job, and there is room for one it may claim
(`KnowsPass`); active Jobs belong to running rows, and no more rows run than may.

**Signing in.** That an entry admits one account only is not inductive: the code
may be issued long after the list was read, and entries are removed, added and
bound in between. `GrantsHold` follows each admission from the reading to the code:
an entry that let somebody in is bound to them as long as it exists, and no id is
given out twice (`ListOrderly`). `LoginsHold`, `AgreedHold` and `SessionsHold` tie
login cookie, consent and session to the sign-in they came from.

**Accounts.** What a request knows at its commit was read several steps before, and
no lock has kept it true. `AccountsInv` says what is true all the same: that a request,
a key and a deployment refer to records that exist (`Resolved`); that a handle has one
holder, deleted ones included (`HandlesAreUnique`); that a request that found its record
for a subject finds that subject in it (`KnowsWho`); that one about to write decided on
the handle the account has (`KnowsName`); that a key's account is alive and bound to who
registered it (`KeyIsOwners`), and a hostname ends in its owner's handle
(`NameIsOwners`) -- each but for records in `crossed`. Every step that could break one of
them for another record is a commit that marks the record it writes to (`Marks`), so the
proof follows each record from a request's look at it to the commit.

**Signing out.** A copy that is refreshed incrementally can miss a record that commits
late, and forgets what it held. `EndIsOnce` says that a login is recorded as ended once,
at a time the commit lags by at most `TxTimeout`; `CopyIsCurrent` that what the copy has
not read lies within the next refresh's lookback, and that what it has read it holds, or
the record is older than `EndedRetention`, when by `CookiesExpire` no cookie issued up to
it is still alive. That a session carries the recorded sid follows from the row being
written with the code and kept, as long as no sign-in can have been purged.

**Credentials.** `Orderly` counts what a command has sent, carried out and logged in
against its one renewal: an attempt is spent with each send, a request that changes
something stops at the first answer that leaves open whether it was carried out, and a
second renewal is not begun. Every copy of the cache holds each credential under its own
environment (`Clean`), so whatever another command overwrites with it does too.

**Tenant databases.** `CallsHold` ties each process to the job or the row it works for,
`DeletionHolds` a pending purge to a deployment that was deleted and is not provisioned
again. `EnsuredHolds` and `PurgeHolds` say what the statements behind a reconcile and
behind a purge have left, wherever the other process is; the quota sweep changes login
and recorded state between them and undoes none of it.

**Exporter.** `TriesAreOrdered` says that the buckets tried stand in one order. By
`TurnsAreFair` what a bucket has waited, and what it may still have to (two turns for
each bucket ahead of it in that order, one more if a changed bucket is next), is within
the bound: a turn that passes it over either uses up the changed turn or shortens its
queue. `WritesHold` keeps a write ahead of the cursor or marked through the read during
which it was made: the mark that a refresh makes meanwhile outlives the read.

**Catalog.** Between the statements of an apply administrators write to the rows it has
only read, so what it knows must say of which rows. `CatalogInv` says: what it has flushed
belongs to documents it has taken up and leaves visibility and old templates as they are
(`DraftFits`); it knows the row it works on unless somebody has written to it since
(`KnowsRow`); a document it is done with is declared by the rows it sees (`DoneIsDeclared`,
from which `AppliedIsDeclared` follows at the commit); the image last applied is what the
tables say until somebody writes (`SettledIsDeclared`), wherefore an apply of the same image
flushes nothing but pointers (`AgainIsQuiet`), and neither does one of what `curate` wrote
(`CopyIsTrue`). The unique indexes hold of the committed rows and of those that the apply
sees (`TablesFit`): a flush is checked against what is committed, and an administrator waits
for what is flushed. A row that administrators have
touched while the apply ran is excepted throughout, as in the properties.

**Rotation.** That a serving process reads all that is stored is not inductive: the
next row is written under the first key of some *other* process. `RotationInv` adds
that every process holds the first key of every other and of the operator's list
(`HeadsAreHeld`), which survives an edit only because keys are promoted and retired
when every process has the present list; that an open transaction writes with its
process's first key (`WritesAreCurrent`); that sweeps run beside live processes
(`SweepersLive`); and, for the sweep's completeness, that since a sweep that began
with everything rolled out either nobody has written with another key and the
columns behind it stay swept, or the list was turned round and the sweep's end no
longer claims anything (`SweepsAreFirm`).

**Rollout.** Each step of the lifecycle is one of `Rollout` or leaves what it speaks
of alone: a commit of a request is its acceptance, since the row and the job are
written together; a Helm call is `Install`, because by `PlanIsDesired` and the copy
being the row the plan is what is wanted; a report of success is `Succeed`, because
by `ClusterFollows` the cluster runs it. That nothing is accepted while one is busy is
not in the code of a request: it follows from the rows (a settled status has no open
job but the one whose outcome is recorded) and from `Alone`.

**Images.** That what is retained can be pulled is inductive only together with
where the prune's tags come from (`RetentionTyped`: a tag is of a build that was
opened, a doomed one of a build that will not be recorded again) and with `NamedIsSeen`:
what was released, and what a write in flight was checked for, is retained or in
`left`. The lemmas on `KeptOf` say which images the window keeps when a release is
appended or applied; from them `ReturnsAreKnown` follows.

**Upgrader.** One lock holder at a time (`OneHolder`) makes the open run, the open
product and the live session those of that thread (`RunsFit`, `ResultsFit`,
`SessionFits`); what a cancel watches is that run (`CancelFits`), and a row is recorded
`opened` only after the hub has its pull request (`HubFits`).

**Log streams.** A query returns the first lines after its cursor in order
(`InOrderIs`, `ForwardIs`, `BackwardIs`, by least counterexample). `StampsAscend`
and `CursorFits` make the cursor the newest nanosecond emitted together with its
lines, so that what was sent has no gap (`Whole`); `WireFits`, `PrintedFits` and
`SentReachesBack` carry that over the wire to what is printed across reconnects.

**The pod of a build.** `MeterFits` says that the running sum is the area under the
readings so far, however the thread and main interleave; `PlaceFits` what is done
where main is, `WorkFits` that the tree stays within its limits, `GateFits` that
nothing runs outside the jail; `MessageFits` carries them into the message.

**Object storage.** A call that fails may have had its effect, so no step may rely on
an answer. `StepsStand` says that what a reconcile has done already still stands at
each of its later steps; `KeysFit` that there is one key at most and none is published
before the quota; `RulesAreSeen` that the rules are as the job saw them unless the
tenant has written since; `TornDown` what each step of a teardown leaves behind and
that nothing provisions after it.

**Checkout.** The command's copy of the file is the file (`FileFits`), its kind and step
fit (`KindFits`); the deployment it works on is recorded except between creation and
record (`AppFits`, `NothingStranded`), and its build is one whose log it has printed
before it goes on (`BuildFits`, `LogIsShown`).

**Vars.** `ChangesAreExact` is about the code's diff alone: appending the rows that
`write_vars` computes makes of every key what the write asks for (the last row of a
key wins, tombstones included). `LockFits` and `PlansAreFresh` say that a plan was
made under the row lock from the head as it still is, which makes it true of a
commit.

Only model-checked: all liveness, which is out of the prover's reach (fairness and
`ENABLED`): `RequestsSettle`, `PaymentsComeThrough`, `BuildsEnd`, `AllComeThrough`,
`AllGetsThere`, and the part of `RunsEndApart` that stands in one property with safety.
Of the safety properties, `PacksAreRight`, `TransfersAreSound` and `LedgerHolds` compare
with folds over sequences or sets of any size: what a fold computes for every input needs
an induction over an operator, which the prover cannot instantiate. (Over natural
numbers a least counterexample does instead, as in the proof of `FollowingIsExact`.)
Where a run checks a property by the name its `MC` module gives it, it is that of the
component's module and proved there: `NeverStranded` and `ClaimedOnce` of `overlap` as
`NobodyStranded` and `BuildsClaimedOnce`, `JobsMatchRows` and `RowsOnlyGrow` of
`deployments` as `JobsStayMatched` and `RowsStayGrown`, `KeepsItsPromise` and
`NothingBeforePayment` of `progress` as `PromiseKept` and `NothingInstalledUnpaid`.

## Where the code differs from its documents

Beside the six findings; the models have the behaviour of the code.

* **Reconciler.** A worker that dies after recording a failed release and before
  reporting its job makes the next one record it again
  (`services/reconcile.py:322` says these fields are never rewritten). A worker
  whose lease ran out writes its late success over a power row another has failed
  (`reconcile.py:188`); this is why the lifecycle properties assume `~MayWedge`,
  except `NeverStranded`. `deleting` goes to `error` when a teardown fails
  (`src/openspec/specs/deployment-payment-states/spec.md:84` does not list it).
* **Payments.** A repeated report of the first payment clears
  arrears of a failed renewal (`src/openspec/specs/mollie-webhook/spec.md:171`).
* **Builds.** The eviction line is appended after the log was cut to its cap
  (`build_worker.py:67`); `merge_log` compares lengths only (`build_worker.py:161`);
  two build workers at once overwrite a terminal status (`models/build.py:154`) and
  each other's longer log; the deployment runs one. A connection that breaks while the image config is read fails a build
  whose image is pushed, over a warning (`src/products/custom/builder/build.py:496`).
* **Accounts.** Two subjects that present one address may both adopt its unbound
  record, and the second keeps it
  (`src/openspec/specs/caller-identity-resolution/spec.md:62-65`). A key that outlives
  its account is still admitted by the SSH daemon. The handle of an account
  that is deleted between another's check and its commit changes hands, since the
  index covers live records only (`src/openspec/specs/account-handle/spec.md:120-123`).
* **App sign-out.** A cookie issued after the sign-out is served once the record is
  forgotten (`src/daemons/app-auth/ended.go:50`); redeeming a code does not look at
  ended sessions. Deliveries of a logout are attempted once. Sign-ins from one
  identity provider session to one client shall receive the same `sid`
  (`src/openspec/specs/app-oidc-provider/spec.md:420`), and a sign-in on record cannot
  matter for longer than the realm's lifespan, which is what it is kept for
  (`src/daemons/app-auth/store.go:64`). But a sign-in that begins before the end of that
  lifespan and waits on the consent page may be recorded after it, when the earlier record
  was purged, and after a rotation of the keyring gets another sid. `SidsAgree` therefore
  ends at `SignInRetention`; without that TLC finds the case in `access`.
* **Usage.** The position is derived from what is recorded, so a window without any
  bucket does not advance it
  (`src/openspec/specs/object-storage-usage/spec.md:67-71`); a pass of nothing but
  empty windows reads them again for ever, and `CatchesUp` excepts it.
* **Tenant databases.** The role of a deleted deployment can log in again after a
  sweep (`src/openspec/specs/deployment-relational-storage/spec.md:153`). The docstring
  of `find_orphans` (`services/relational_storage.py:411-414`) has role and database made
  before their row; the code commits the row first.
* **Object storage.** A template that no longer opts in leaves key and bucket at
  deletion (`reconcile.py:441`;
  `src/openspec/specs/deployment-object-storage/spec.md:241`). Credentials can be
  read before the quota is set (`spec.md:143`). A tenant's lifecycle rules written
  between the read and the write of a reconcile are overwritten
  (`services/object_storage.py:59`). Two overlapping reconciles can make two keys
  of one name, of which a teardown finds one.
* **Image retention.** An image that leaves retention between a write's check and
  its commit can be removed although the release names it
  (`src/openspec/specs/tenant-image-retention/spec.md:120-122`);
  `RetainedCanBePulled` excepts it (`left`). A rollback to an image the window still
  keeps moves the window one image further back and so readmits one that had left
  (`services/image_retention.py:150`), which the specification leaves to a new build
  (`spec.md:81-84`); `ReturnsAreKnown` excepts it (`RollsBack`).
* **Catalog.** An adoption that commits late passes the check of a deletion; an
  apply fails for ever when names are swapped; curating a product again drops its
  screenshots; a curated product can take the folder of another whose slug is its
  name.
* **Secrets.** "No stored value names a key, so it can be removed" is true only once
  no process encrypts under it
  (`src/openspec/specs/deployment-vars-data-model/spec.md:130`; the command's own
  text and `src/tf/README.md` say so).
* **Log streams.** A stream that has shown nothing yet asks from the present at
  every poll, so a line written between two polls is not shown, and after it a line
  that arrives with a stamp before the cursor is not either
  (`services/log_stream.py:312`;
  `src/openspec/specs/deployment-log-api/spec.md:39-42, :76-80`); `LinesArrive`
  assumes a first line.
* **Command line.** A deploy may report the success of somebody else's later
  release (`src/cli/src/freepod/deploy.py:730`). `authenticate` "never silently
  start[s] a login" (`auth.py:516`), but `_renew` does after a refused refresh
  (`api.py:384`). The token cache is read, changed and replaced without a lock
  (`auth.py:234`), so two commands at once lose one's entry. A source overwritten
  between its copy and the batched delete of a `mv` is lost (`objects.py:400`). A
  negated directory in a nested ignore file overrides an outer file pattern, which
  git would keep (cli-project-archive specification).
* **Upgrader.** A cancel that is accepted while the result is judged does not stop
  the publishing; a crash between push and pull request leaves a branch that later
  runs skip (`src/ops/upgrader/upgrader/proposal.py:132`).

## Not modelled

* A Helm release left locked by a killed process, and a rollback that itself
  fails: the code has no handling of either beyond the next reconcile's error.
* The parent process of the pool: a child that died is not replaced
  (`worker.py:129`), so a liveness property of the pool as a whole would be false
  at once; the models assume one process that stays up instead.
* The order of renewals (`api/webhooks.py:246`): each report writes what it says and
  no document promises more.
* Database errors in the middle of a transaction other than the refused inserts
  named above; two faults at once where a bound says one.
* Prices, customers, mandates, `cancel_subscription`.
* Manifests, values, mails, pages, rendering, DNS, prompts, and reads without
  effects; the ciphertext itself, the seals and tokens of the daemons, the agent
  that the upgrader runs, railpack and buildkit.
* In the client: plan selection, power, the terms of service, ls, cat, rm and
  link; two commands in one checkout at once. In the archive: re-included
  directories (`NoDirectoryReincluded`), whose ranking is the pathspec library's,
  and a tree that changes during the walk.
* In accounts: the administrator's commands on handles and keys, custom domains, the
  terms of service, and labels that are reserved.
* In the upgrader: a workspace that cannot be made after the product's row is committed
  (`src/ops/upgrader/upgrader/runner.py:291-294`), which leaves the row open until a
  restart. In log streams: lines of one nanosecond and one text, which the cursor takes
  for one (`services/log_stream.py:206`). Of the catalog, no property speaks of
  screenshots. A code of an ended session can be redeemed, and no property
  speaks of its cookie: `SignOutsHold` is about those issued up to the end.
* In app access: the cache of access lists, the userinfo endpoint and the daily
  limit of invitations.
* The components marked `not_modelled` in `PROJECT.json`: lookups without state,
  single-row writes guarded by unique indexes, configuration, presentation.

## What could come next

Two transfers at once, and two commands in one checkout.

--------------------------- MODULE ObjectStorage ---------------------------
(* One deployment's bucket and access key in Garage                         *)
(* (services/object_storage.py, services/garage.py): every reconcile        *)
(* provisions or repairs them one call at a time, a delete revokes and      *)
(* leaves the bucket to expire, and any call may fail, with or without its  *)
(* effect, while the tenant uses what it has.                               *)
EXTENDS Naturals, FiniteSets

CONSTANTS
  Allowances,     \* storage a plan may declare; 0 is none
  KeyIds,         \* bound: the access keys Garage may mint
  MaxStorageJobs, MaxStorageFaults, MaxRuleWrites \* bounds

ASSUME StorageAssumption ==
  /\ Allowances \subseteq Nat /\ KeyIds \subseteq Nat \ {0}
  /\ {MaxStorageJobs, MaxStorageFaults, MaxRuleWrites} \subseteq Nat

VARIABLES
  offer,     \* the desired template opts in; the plan's allowance; a delete was asked for
  keys,      \* Garage: the access keys with this deployment's name
  bucket,    \* Garage: the bucket with its alias
  secret,    \* the key in the namespace's Secret, or 0
  known,     \* keys whose secret the tenant has seen
  storageJob,    \* the reconcile under way
  jobEnd,   \* of the last one that ended
  ruled,     \* the tenant wrote its lifecycle rules since the job looked
  spentJobs, spentFaults, ruleWrites

storageVars == <<offer, keys, bucket, secret, known, storageJob, jobEnd, ruled, spentJobs, spentFaults, ruleWrites>>

NoBucket == [exists |-> FALSE, grants |-> {}, quota |-> 0, cors |-> FALSE, rules |-> "none"]
NoStorageJob == [step |-> "none", key |-> 0, allowance |-> 0, hasRules |-> FALSE]

StorageInit ==
  /\ offer \in [optedIn : {TRUE}, allowance : Allowances, deleted : {FALSE}]
  /\ keys = {} /\ bucket = NoBucket /\ secret = 0 /\ known = {}
  /\ storageJob = NoStorageJob /\ jobEnd = "none" /\ ruled = FALSE
  /\ spentJobs = 0 /\ spentFaults = 0 /\ ruleWrites = 0

OnStep(step) == storageJob.step = step
EndsJob(how) == storageJob' = NoStorageJob /\ jobEnd' = how
ByReconciler == UNCHANGED <<offer, known, ruleWrites, spentJobs>>

----------------------------------------------------------------------------
(* The reconcile of one job *)

\* Mutant of TeardownOrder: the rule is set while the tenant can still replace it.
TeardownOrder_RuleFirst == <<"expire", "revoke", "uninstall">>

\* The key goes first: it could replace the rule that follows.
TeardownOrder == <<"revoke", "expire", "uninstall">>
TornNext(step) == LET i == CHOOSE i \in 1..2 : TeardownOrder[i] = step IN TeardownOrder[i + 1]

\* The template that is desired when the job begins decides whether storage
\* is looked after, in a delete as well.
BeginStorageJob ==
  /\ OnStep("none") /\ jobEnd # "deleted" /\ spentJobs < MaxStorageJobs
  /\ spentJobs' = spentJobs + 1
  /\ storageJob' = [NoStorageJob EXCEPT
       !.allowance = offer.allowance,
       !.step = CASE offer.optedIn /\ offer.deleted -> TeardownOrder[1]
                  [] offer.optedIn /\ ~offer.deleted -> "quota"
                  [] ~offer.optedIn /\ offer.deleted -> "uninstall"
                  [] OTHER -> "helm"]
  /\ UNCHANGED <<offer, keys, bucket, secret, known, jobEnd, ruled, spentFaults, ruleWrites>>

\* Without a positive allowance nothing is created.
ResolveQuota ==
  /\ OnStep("quota")
  /\ IF storageJob.allowance = 0 THEN EndsJob("error")
     ELSE storageJob' = [storageJob EXCEPT !.step = "key"] /\ UNCHANGED jobEnd
  /\ UNCHANGED <<keys, bucket, secret, ruled, spentFaults>> /\ ByReconciler

\* A call that is answered, or that fails with or without its effect, which
\* ends the job: the next one begins from the start.
Call(here, effect, next) ==
  /\ OnStep(here)
  /\ \/ effect /\ storageJob' = next /\ UNCHANGED <<jobEnd, spentFaults>>
     \/ /\ spentFaults < MaxStorageFaults /\ spentFaults' = spentFaults + 1
        /\ effect \/ UNCHANGED <<keys, bucket, secret, ruled>>
        /\ EndsJob("error")
  /\ ByReconciler

Go(step) == [storageJob EXCEPT !.step = step]

\* A key of that name is used again, and its secret read back; else Garage
\* mints one.
Unused == KeyIds \ (known \union keys \union {secret} \union bucket.grants)
FreshKey == CHOOSE k \in Unused : TRUE
MintKey ==
  /\ keys = {} => Unused # {}
  /\ keys' = (IF keys = {} THEN {FreshKey} ELSE keys)
  /\ UNCHANGED <<bucket, secret, ruled>>
EnsureKey == Call("key", MintKey, [Go("bucket") EXCEPT !.key = CHOOSE k \in keys' : TRUE])

\* Looked for on its own, whatever was found of the key.
MakeBucket ==
  /\ bucket' = IF bucket.exists THEN bucket ELSE [NoBucket EXCEPT !.exists = TRUE]
  /\ UNCHANGED <<keys, secret, ruled>>
EnsureBucket == Call("bucket", MakeBucket, Go("grant"))

\* The grant only ever widens.
Grant == bucket' = [bucket EXCEPT !.grants = @ \union {storageJob.key}] /\ UNCHANGED <<keys, secret, ruled>>
AllowKey == Call("grant", Grant, Go("look"))

Look == ruled' = FALSE /\ UNCHANGED <<keys, bucket, secret>>
LookAtBucket == Call("look", Look, [Go("update") EXCEPT !.hasRules = bucket.rules # "none"])

\* Quota and CORS are written every time; the default rule only where none was seen.
Configure ==
  /\ bucket' = [bucket EXCEPT !.quota = storageJob.allowance, !.cors = TRUE,
                              !.rules = IF storageJob.hasRules THEN @ ELSE "default"]
  /\ UNCHANGED <<keys, secret, ruled>>
UpdateBucket == Call("update", Configure, Go("publish"))

\* The Secret is written before Helm starts a pod that reads it.
Publish == secret' = storageJob.key /\ UNCHANGED <<keys, bucket, ruled>>
PublishSecret == Call("publish", Publish, Go("helm"))

DropKey == keys' = {} /\ UNCHANGED <<bucket, secret, ruled>>
RevokeKey == Call("revoke", DropKey, Go(TornNext("revoke")))

Expire ==
  /\ bucket' = IF bucket.exists THEN [bucket EXCEPT !.rules = "expiry"] ELSE bucket
  /\ UNCHANGED <<keys, secret, ruled>>
SetExpiry == Call("expire", Expire, Go(TornNext("expire")))

\* Helm, and for a delete the namespace with its Secret.
FinishStorageJob ==
  /\ OnStep("helm") \/ OnStep("uninstall")
  /\ secret' = IF OnStep("uninstall") THEN 0 ELSE secret
  /\ \/ EndsJob(IF OnStep("uninstall") THEN "deleted" ELSE "ready")
     \/ OnStep("helm") /\ EndsJob("error")
  /\ UNCHANGED <<keys, bucket, ruled, spentFaults>> /\ ByReconciler

StorageJobStep ==
  \/ BeginStorageJob \/ ResolveQuota \/ EnsureKey \/ EnsureBucket \/ AllowKey \/ LookAtBucket
  \/ UpdateBucket \/ PublishSecret \/ RevokeKey \/ SetExpiry \/ FinishStorageJob

----------------------------------------------------------------------------
(* The tenant, and others *)

ByOthers == UNCHANGED <<storageJob, jobEnd, spentJobs>>

\* Another template or plan, or a delete.
ChangeOffer ==
  /\ ~offer.deleted
  /\ \/ offer' = [offer EXCEPT !.deleted = TRUE]
     \/ offer' = [offer EXCEPT !.optedIn = ~@]
     \/ \E a \in Allowances : a # offer.allowance /\ offer' = [offer EXCEPT !.allowance = a]
  /\ UNCHANGED <<keys, bucket, secret, known, ruled, spentFaults, ruleWrites>> /\ ByOthers

\* The owner reads the credentials, from the pod's Secret, or from the API as
\* soon as the key exists and until the delete is asked for. Another viewer
\* is never sent the secret.
ReadCredentials ==
  /\ known' = known \union (IF offer.optedIn /\ ~offer.deleted THEN keys ELSE {}) \union ({secret} \ {0})
  /\ known' # known
  /\ UNCHANGED <<offer, keys, bucket, secret, ruled, spentFaults, ruleWrites>> /\ ByOthers

HasAccess == known \intersect keys \intersect bucket.grants # {}

\* A key that may write may also replace the bucket's rules, whole, or clear them.
WriteRules ==
  /\ HasAccess /\ ruleWrites < MaxRuleWrites /\ ruleWrites' = ruleWrites + 1
  /\ \E rules \in {"none", "own"} : bucket' = [bucket EXCEPT !.rules = rules]
  /\ ruled' = TRUE
  /\ UNCHANGED <<offer, keys, secret, known, spentFaults>> /\ ByOthers

\* A grant or a key is removed by hand.
RemovedByHand ==
  /\ spentFaults < MaxStorageFaults /\ spentFaults' = spentFaults + 1 /\ OnStep("none")
  /\ \/ bucket.grants # {} /\ bucket' = [bucket EXCEPT !.grants = {}] /\ UNCHANGED keys
     \/ keys # {} /\ keys' = {} /\ bucket' = [bucket EXCEPT !.grants = @ \ keys]
  /\ UNCHANGED <<offer, secret, known, ruled, ruleWrites>> /\ ByOthers

StorageNext == StorageJobStep \/ ChangeOffer \/ ReadCredentials \/ WriteRules \/ RemovedByHand

StorageSpec == StorageInit /\ [][StorageNext]_storageVars

----------------------------------------------------------------------------
(* Properties *)

\* What a reconcile that provisions ends with is whole, whatever its
\* predecessors left: one key, granted, a quota from the plan, the same key in
\* the Secret.
ProvisionedIsWhole ==
  OnStep("helm") /\ storageJob.key # 0 =>
    /\ keys = {storageJob.key} /\ secret = storageJob.key /\ storageJob.key \in bucket.grants
    /\ bucket.exists /\ bucket.quota = storageJob.allowance /\ bucket.quota > 0 /\ bucket.cors
    /\ bucket.rules = "none" => ruled

\* No pod is handed a bucket without a quota.
NoPodUnbounded == secret # 0 => bucket.quota > 0

\* A published key is never rotated while it exists: running pods keep it.
CredentialsStay == [][secret' \in {secret, 0} \/ secret \notin keys']_storageVars

\* The tenant's own rules are only overwritten by those of a deleted
\* deployment, or when they were written after the job had looked.
OwnRulesStay == [][(bucket.rules = "own" /\ bucket'.rules = "default") => ruled]_storageVars

\* Once the expiry rule is set no credential reaches the bucket, so the rule
\* stays; a deleted deployment has no key and a bucket that drains, unless its
\* last template no longer opted in.
TeardownHolds ==
  /\ bucket.rules = "expiry" => keys = {}
  /\ (jobEnd = "deleted" /\ offer.optedIn) => keys = {} /\ (bucket.exists => bucket.rules = "expiry")

\* The parts of what a deployment's storage promises.
StorageHolds == [](ProvisionedIsWhole /\ NoPodUnbounded /\ TeardownHolds) /\ CredentialsStay /\ OwnRulesStay
============================================================================

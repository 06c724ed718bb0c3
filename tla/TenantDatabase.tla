--------------------------- MODULE TenantDatabase ---------------------------
(* One deployment's PostgreSQL database (api/app/services/                  *)
(* relational_storage.py) under the two processes that work on it: the      *)
(* reconciler, which provisions it and revokes it, one job at a time        *)
(* (ReconcileQueue), and the housekeeping worker (db_worker.py), which      *)
(* sweeps quotas and purges. Each statement on the tenant cluster and each  *)
(* commit is a step; a step may fail or its process die before it.          *)
(*                                                                          *)
(* The size is the threshold it has reached: 0 below 80%, then 80, 90, 100  *)
(* (read-only) and 150 (blocked) percent of the plan's allowance.           *)
EXTENDS Integers, FiniteSets

CONSTANTS MaxTenantJobs, \* bound: reconciles asked for
          MaxResizes,    \* bound: changes of the size, or of the plan
          MaxTenantFaults \* bound: failed statements and deaths of a process

ASSUME TenantAssumption == {MaxTenantJobs, MaxResizes, MaxTenantFaults} \subseteq Nat

Levels == 0..4
Processes == {"reconcile", "worker"}

VARIABLES
  row,      \* the deployment_database row, NoDatabase when there is none
  role,     \* "none", "login" or "nologin"
  password, \* the role's password is the row's
  db,       \* "none", "public" (PUBLIC may connect) or "private"
  readonly, \* default_transaction_read_only is on
  level,    \* the size, as the threshold reached
  due,      \* the grace period after the purge deadline has run out
  job,      \* the open reconcile job: "none", "apply", "delete"
  pc,       \* pc[p]: the statement process p is at, "idle" between calls
  seen,     \* seen[p]: the level p measured, and the warning it loaded
  deleted,  \* the deployment's deletion was asked for
  handed,   \* credentials have been handed to the release
  told,     \* history: the threshold the owner was last mailed about
  tenantJobs, resizes, tenantFaults

tenantVars == <<row, role, password, db, readonly, level, due, job, pc, seen, deleted, handed, told, tenantJobs,
                resizes, tenantFaults>>
bookkeeping == <<deleted, handed, told, tenantJobs, resizes, tenantFaults>>

NoDatabase == [there |-> FALSE, purge |-> FALSE, quota |-> "ok", warned |-> 0]
NothingSeen == [level |-> 0, warned |-> 0]

TenantInit ==
  /\ row = NoDatabase /\ role = "none" /\ password = FALSE /\ db = "none" /\ readonly = FALSE
  /\ level = 0 /\ due = FALSE /\ job = "none"
  /\ pc = [p \in Processes |-> "idle"] /\ seen = [p \in Processes |-> NothingSeen]
  /\ deleted = FALSE /\ handed = FALSE /\ told = 0 /\ tenantJobs = 0 /\ resizes = 0 /\ tenantFaults = 0

\* A statement of p's call: the one that comes next.
AtStatement(p, here, next) == pc[p] = here /\ pc' = [pc EXCEPT ![p] = next]

-----------------------------------------------------------------------------
(* Requests, the tenant, time and faults.                                   *)

AskApply ==
  /\ job = "none" /\ ~deleted /\ tenantJobs < MaxTenantJobs
  /\ job' = "apply" /\ tenantJobs' = tenantJobs + 1
  /\ UNCHANGED <<row, role, password, db, readonly, level, due, pc, seen, deleted, handed, told, resizes, tenantFaults>>

\* A delete that failed may be asked for again.
AskDelete ==
  /\ job = "none" /\ tenantJobs < MaxTenantJobs
  /\ job' = "delete" /\ deleted' = TRUE /\ tenantJobs' = tenantJobs + 1
  /\ UNCHANGED <<row, role, password, db, readonly, level, due, pc, seen, handed, told, resizes, tenantFaults>>

\* The tenant writes or deletes, or the plan changes. Read-only is a default a
\* session may override.
Resize(l) ==
  /\ db # "none" /\ l # level /\ resizes < MaxResizes
  /\ level' = l /\ resizes' = resizes + 1
  /\ UNCHANGED <<row, role, password, db, readonly, due, job, pc, seen, deleted, handed, told,
                 tenantJobs, tenantFaults>>

\* deployment_database_purge_grace_days go by.
GraceEnds ==
  /\ row.purge /\ ~due /\ due' = TRUE
  /\ UNCHANGED <<row, role, password, db, readonly, level, job, pc, seen, bookkeeping>>

\* The reconciler's call raises, and its job fails; or its process dies and the
\* job is claimed again. The worker's failure is logged, and the row is swept
\* again. Nothing of either is undone.
StatementFails(p) ==
  /\ pc[p] # "idle" /\ tenantFaults < MaxTenantFaults /\ tenantFaults' = tenantFaults + 1
  /\ pc' = [pc EXCEPT ![p] = "idle"] /\ seen' = [seen EXCEPT ![p] = NothingSeen]
  /\ job' \in IF p = "reconcile" THEN {job, "none"} ELSE {job}
  /\ UNCHANGED <<row, role, password, db, readonly, level, due, deleted, handed, told, tenantJobs, resizes>>

-----------------------------------------------------------------------------
(* ensure_database.                                                         *)

\* _store_password: the row and its password are committed first, and an
\* existing row's password is kept.
StorePassword ==
  /\ job = "apply" /\ AtStatement("reconcile", "idle", "role")
  /\ row' = [row EXCEPT !.there = TRUE]
  /\ UNCHANGED <<role, password, db, readonly, level, due, job, seen, bookkeeping>>

CreateRole ==
  /\ AtStatement("reconcile", "role", "password")
  /\ role' = IF role = "none" THEN "login" ELSE role
  /\ UNCHANGED <<row, password, db, readonly, level, due, job, seen, bookkeeping>>

SetPassword ==
  /\ AtStatement("reconcile", "password", "database")
  /\ password' = TRUE
  /\ UNCHANGED <<row, role, db, readonly, level, due, job, seen, bookkeeping>>

CreateDatabase ==
  /\ AtStatement("reconcile", "database", "revoke")
  /\ db' = IF db = "none" THEN "public" ELSE db
  /\ UNCHANGED <<row, role, password, readonly, level, due, job, seen, bookkeeping>>

\* _revoke_public_access, read back: a revoke that did nothing fails the call.
RevokePublicAccess ==
  /\ AtStatement("reconcile", "revoke", "evaluate")
  /\ db' = "private"
  /\ UNCHANGED <<row, role, password, readonly, level, due, job, seen, bookkeeping>>

-----------------------------------------------------------------------------
(* evaluate_quota_state, by the reconcile and by the quota sweep.           *)

\* _state_for and _crossed_threshold.
StateFor(l) == CASE l = 0 -> "ok" [] l \in {1, 2} -> "warned" [] l = 3 -> "readonly" [] l = 4 -> "blocked"
Crossed(l) == IF l > 3 THEN 3 ELSE l

\* quota_tick: the rows that await no purge.
BeginSweep ==
  /\ row.there /\ AtStatement("worker", "idle", "evaluate")
  /\ ~row.purge
  /\ UNCHANGED <<row, role, password, db, readonly, level, due, job, seen, bookkeeping>>

\* The deadline is looked at once, and the database measured. A database that
\* does not exist cannot be.
Measure(p) ==
  /\ AtStatement(p, "evaluate", "readonly")
  /\ ~row.purge /\ db # "none"
  /\ seen' = [seen EXCEPT ![p] = [level |-> level, warned |-> row.warned]]
  /\ UNCHANGED <<row, role, password, db, readonly, level, due, job, bookkeeping>>

\* A row awaiting purge is left alone; a missing database raises. The row stays
\* as it is.
NothingToMeasure(p) ==
  /\ AtStatement(p, "evaluate", "idle")
  /\ row.purge \/ db = "none"
  /\ UNCHANGED <<row, role, password, db, readonly, level, due, job, seen, bookkeeping>>

\* _apply_quota_state, first the database's default, then the role.
ApplyReadOnly(p) ==
  /\ AtStatement(p, "readonly", "login")
  /\ readonly' = (StateFor(seen[p].level) \in {"readonly", "blocked"})
  /\ UNCHANGED <<row, role, password, db, level, due, job, seen, bookkeeping>>

ApplyLogin(p) ==
  /\ AtStatement(p, "login", "record")
  /\ role' = IF StateFor(seen[p].level) = "blocked" THEN "nologin" ELSE "login"
  /\ UNCHANGED <<row, password, db, readonly, level, due, job, seen, bookkeeping>>

\* The state is recorded; only the sweep mails, and it records the warning only
\* when the mail is away.
RecordState(p) ==
  LET l == seen[p].level IN
  /\ AtStatement(p, "record", "idle")
  /\ \E sent \in BOOLEAN :
       /\ sent => p = "worker" /\ l # 0 /\ Crossed(l) # seen[p].warned
       /\ ~sent /\ p = "worker" /\ l # 0 /\ Crossed(l) # seen[p].warned
            => tenantFaults < MaxTenantFaults
       /\ tenantFaults' = IF ~sent /\ p = "worker" /\ l # 0 /\ Crossed(l) # seen[p].warned
                       THEN tenantFaults + 1 ELSE tenantFaults
       /\ row' = [row EXCEPT !.quota = StateFor(l),
                             !.warned = CASE l = 0 -> 0 [] sent -> Crossed(l) [] OTHER -> @]
       /\ told' = CASE l = 0 -> 0 [] sent -> Crossed(l) [] OTHER -> told
  /\ seen' = [seen EXCEPT ![p] = NothingSeen]
  /\ IF p = "reconcile" THEN handed' = TRUE /\ job' = "none" ELSE UNCHANGED <<handed, job>>
  /\ UNCHANGED <<role, password, db, readonly, level, due, deleted, tenantJobs, resizes>>

-----------------------------------------------------------------------------
(* teardown_database and purge_database.                                    *)

RevokeLogin ==
  /\ job = "delete" /\ AtStatement("reconcile", "idle", "mark")
  /\ role' = IF role # "none" /\ row.there THEN "nologin" ELSE role
  /\ UNCHANGED <<row, password, db, readonly, level, due, job, seen, bookkeeping>>

SetDeadline ==
  /\ AtStatement("reconcile", "mark", "idle")
  /\ row' = [row EXCEPT !.purge = row.there]
  /\ job' = "none"
  /\ UNCHANGED <<role, password, db, readonly, level, due, seen, bookkeeping>>

\* Mutant of BeginPurge: the row is deleted before what it names.
BeginPurge_ForgetsFirst ==
  /\ row.purge /\ due /\ AtStatement("worker", "idle", "dropdb")
  /\ row' = NoDatabase
  /\ UNCHANGED <<role, password, db, readonly, level, due, job, seen, bookkeeping>>

\* purge_tick: the rows past their deadline, which purge_database checks again.
BeginPurge ==
  /\ row.purge /\ due /\ AtStatement("worker", "idle", "dropdb")
  /\ UNCHANGED <<row, role, password, db, readonly, level, due, job, seen, bookkeeping>>

DropDatabase ==
  /\ AtStatement("worker", "dropdb", "droprole")
  /\ db' = "none" /\ readonly' = FALSE
  /\ UNCHANGED <<row, role, password, level, due, job, seen, bookkeeping>>

DropRole ==
  /\ AtStatement("worker", "droprole", "forget")
  /\ role' = "none" /\ password' = FALSE
  /\ UNCHANGED <<row, db, readonly, level, due, job, seen, bookkeeping>>

ForgetRow ==
  /\ AtStatement("worker", "forget", "idle")
  /\ row' = NoDatabase /\ due' = FALSE /\ handed' = FALSE
  /\ UNCHANGED <<role, password, db, readonly, level, job, seen, deleted, told, tenantJobs, resizes,
                 tenantFaults>>

-----------------------------------------------------------------------------
\* What each process does next by itself.
ReconcilerStep ==
  \/ StorePassword \/ CreateRole \/ SetPassword \/ CreateDatabase \/ RevokePublicAccess
  \/ RevokeLogin \/ SetDeadline
EvaluateStep(p) ==
  Measure(p) \/ NothingToMeasure(p) \/ ApplyReadOnly(p) \/ ApplyLogin(p) \/ RecordState(p)
PurgeStep == BeginPurge \/ DropDatabase \/ DropRole \/ ForgetRow

TenantNext ==
  \/ AskApply \/ AskDelete \/ GraceEnds \/ \E l \in Levels : Resize(l)
  \/ ReconcilerStep \/ BeginSweep \/ PurgeStep
  \/ \E p \in Processes : EvaluateStep(p) \/ StatementFails(p)

TenantSpec == TenantInit /\ [][TenantNext]_tenantVars

\* The queue retries a job and the worker's ticks recur; the deadline passes.
TenantFairness ==
  /\ WF_tenantVars(ReconcilerStep) /\ WF_tenantVars(EvaluateStep("reconcile"))
  /\ WF_tenantVars(BeginSweep) /\ WF_tenantVars(EvaluateStep("worker"))
  /\ WF_tenantVars(PurgeStep) /\ WF_tenantVars(GraceEnds)

-----------------------------------------------------------------------------
TenantTypeOK ==
  /\ row \in [there : BOOLEAN, purge : BOOLEAN, quota : {"ok", "warned", "readonly", "blocked"},
              warned : 0..3]
  /\ role \in {"none", "login", "nologin"} /\ db \in {"none", "public", "private"}
  /\ level \in Levels /\ job \in {"none", "apply", "delete"}
  /\ {password, readonly, due, handed} \subseteq BOOLEAN

\* Whatever dies in between, a role or a database on the cluster has its row:
\* what find_orphans looks for is never left behind by ensure_database or by
\* purge_database.
NoOrphans == role # "none" \/ db # "none" => row.there

\* Credentials the release holds open its database and nobody else's do:
\* ensure_database answers only when every step before has taken effect, over
\* retries that found some of them done.
HandedIsUsable ==
  handed /\ ~row.purge => role # "none" /\ password /\ db = "private"

\* A tenant's data is dropped only after its deployment was deleted and its
\* deadline passed, and the role outlives the database.
OnlyDueIsDropped ==
  [][/\ db # "none" /\ db' = "none" => row.purge /\ due
     /\ role # "none" /\ role' = "none" => row.purge /\ due /\ db = "none"]_tenantVars

\* Sweeps and reconciles that measured before one another's writes may leave
\* the cluster in the wrong state, but not for good: a provisioned database's
\* read-only mode, its login, its recorded state and the mail all come to match
\* its size.
QuotaConverges ==
  <>[](~row.there \/ deleted \/ db = "none"
       \/ /\ readonly = (level >= 3) /\ role = (IF level = 4 THEN "nologin" ELSE "login")
          /\ row.quota = StateFor(level)
          /\ level > 0 => told = Crossed(level))

\* A deleted deployment's database, role and row are gone in the end, through
\* deaths between the three.
PurgeCompletes == row.purge ~> ~row.there /\ role = "none" /\ db = "none"

\* The parts of what a tenant database promises.
DatabasesHold == [](TenantTypeOK /\ NoOrphans /\ HandedIsUsable) /\ OnlyDueIsDropped
=============================================================================

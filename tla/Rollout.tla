------------------------------- MODULE Rollout -------------------------------
(***************************************************************************)
(* What a deployment promises its owner: a request is accepted while none  *)
(* is being worked on, the cluster is brought to what is wanted, or the    *)
(* attempt is given up, and only then the next request is accepted.        *)
(*                                                                         *)
(* Nothing is said here of jobs, leases, worker processes, crashes, rows   *)
(* and copies of rows: DeploymentLifecycle implements this specification   *)
(* with them, as long as leases outlive the processes that hold them.      *)
(***************************************************************************)
EXTENDS Naturals

VARIABLES
  status,    \* what the owner is shown
  wanted,    \* the release and the power state that were asked for
  applied,   \* those that the last success brought about
  deleted,   \* was the deletion accepted?
  running,   \* what the cluster runs
  busy       \* is a request being worked on?

rolloutVars == <<status, wanted, applied, deleted, running, busy>>

\* Before anything is asked for; a deployment runs unless it is stopped.
Unasked == [release |-> 0, power |-> "running"]

Nothing == [release |-> 0, power |-> "stopped"]

Init ==
  /\ status = "absent"
  /\ wanted = Unasked
  /\ applied = Unasked
  /\ deleted = FALSE
  /\ running = Nothing
  /\ busy = FALSE

-----------------------------------------------------------------------------
(* Requests.  An accepted one is recorded at once and worked on afterwards.*)

Accept(newStatus) ==
  /\ ~busy
  /\ busy' = TRUE
  /\ status' = newStatus
  /\ UNCHANGED <<applied, running>>

Create ==
  /\ status = "absent"
  /\ Accept("provisioning")
  /\ wanted' = [wanted EXCEPT !.release = 1]
  /\ UNCHANGED deleted

\* Also after a deletion that failed: update_deployment does not look at it.
Update ==
  /\ status \in {"ready", "error"}
  /\ Accept("provisioning")
  /\ wanted' = [wanted EXCEPT !.release = @ + 1]
  /\ UNCHANGED deleted

Delete ==
  /\ status # "absent"
  /\ Accept("deleting")
  /\ deleted' = TRUE
  /\ UNCHANGED wanted

\* A power change leaves the status alone: the deployment stays ready.
ChangePower ==
  /\ status = "ready"
  /\ Accept("ready")
  /\ wanted' = [wanted EXCEPT !.power = IF @ = "running" THEN "stopped" ELSE "running"]
  /\ UNCHANGED deleted

-----------------------------------------------------------------------------
(* The work on a request.  It may be started over at any point, and what   *)
(* it did to the cluster is not undone when it is.                         *)

\* The cluster gets all that is wanted, and only of a deployment that stays.
Install ==
  /\ busy
  /\ ~deleted
  /\ running' = wanted
  /\ UNCHANGED <<status, wanted, applied, deleted, busy>>

\* It is emptied only for a deletion.
Remove ==
  /\ busy
  /\ deleted
  /\ running' = Nothing
  /\ UNCHANGED <<status, wanted, applied, deleted, busy>>

\* Success is claimed of what runs, not of what was tried.
Succeed ==
  /\ busy
  /\ ~deleted
  /\ running = wanted
  /\ status' = "ready"
  /\ applied' = wanted
  /\ UNCHANGED <<wanted, deleted, running, busy>>

\* A failure takes back the power change that was asked for, not the release.
Fail ==
  /\ busy
  /\ status' = "error"
  /\ wanted' = IF deleted THEN wanted ELSE [wanted EXCEPT !.power = applied.power]
  /\ UNCHANGED <<applied, deleted, running, busy>>

Vanish ==
  /\ busy
  /\ deleted
  /\ running = Nothing
  /\ status' = "deleted"
  /\ UNCHANGED <<wanted, applied, deleted, running, busy>>

\* The work is over only once its outcome is shown.
Settle ==
  /\ busy
  /\ status \in {"ready", "error", "deleted"}
  /\ busy' = FALSE
  /\ UNCHANGED <<status, wanted, applied, deleted, running>>

Next ==
  \/ Create \/ Update \/ Delete \/ ChangePower
  \/ Install \/ Remove \/ Succeed \/ Fail \/ Vanish \/ Settle

Spec == Init /\ [][Next]_rolloutVars
=============================================================================

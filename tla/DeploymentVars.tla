--------------------------- MODULE DeploymentVars ---------------------------
(* A deployment's vars (api/app/services/vars.py): an append-only table     *)
(* whose newest row per key is the head, written by concurrent PATCHes,     *)
(* PUTs and DELETEs (api/app/api/vars.py) and by updates that also freeze   *)
(* the head into a release (services/deployments.py update_deployment).     *)
(*                                                                          *)
(* A request loads the deployment, then takes its row lock, reads the head  *)
(* and plans its rows, and commits. A value is a model value; what the      *)
(* schema says of chart values and vars together is the relation Agrees.    *)
EXTENDS Integers, FiniteSets, FiniteSetsExt, Sequences, SequencesExt

CONSTANTS VarKeys, VarValues,
          ChartValues,   \* what user_values_json may be
          Declared,      \* keys whose sensitivity the schema declares, with what it says
          Strict,        \* chart values the schema accepts only with every key present
          VarWriters,      \* concurrent requests
          NoVarWriter,
          MaxVars,       \* MAX_VARS_PER_DEPLOYMENT
          MaxRequests,   \* bound: requests
          MaxNamed,      \* bound: keys a body names
          MaxVarReleases \* bound: releases

Gone == "gone"   \* a tombstone's value

ASSUME VarsAssumption ==
  /\ IsFiniteSet(VarKeys) /\ Gone \notin VarValues
  /\ DOMAIN Declared \subseteq VarKeys /\ \A k \in DOMAIN Declared : Declared[k] \in BOOLEAN
  /\ Strict \subseteq ChartValues /\ NoVarWriter \notin VarWriters
  /\ {MaxVars, MaxRequests, MaxNamed, MaxVarReleases} \subseteq Nat

VarRow == [key : VarKeys, value : VarValues \union {Gone}, sensitive : BOOLEAN]

\* VarWrite: what a body says of a key: nothing, null, no value, or a value,
\* and whether it names the sensitivity.
Entry == [says : {"nothing", "delete"}, sensitive : {"unsaid"}]
         \union [says : {"keep"} \union VarValues, sensitive : {"unsaid", "yes", "no"}]

Bodies == {body \in [VarKeys -> Entry] : Cardinality({k \in VarKeys : body[k].says # "nothing"}) <= MaxNamed}

VARIABLES
  rows,       \* the committed deployment_var rows, in id order
  chart,      \* the deployment's user_values_json
  state,      \* its status: "ready", "provisioning" or "deleting"
  shipped,    \* its releases: the vars and the chart values each froze
  running,    \* the number of the applied release
  rowLock,    \* who holds the deployment's row lock
  request,    \* request[w]: the request in flight
  requests

varsVars == <<rows, chart, state, shipped, running, rowLock, request, requests>>

NoRequest == [kind |-> "none", entries |-> [k \in VarKeys |-> [says |-> "nothing", sensitive |-> "unsaid"]],
              chart |-> "none", plan |-> <<>>, locked |-> FALSE]

\* create_deployment has made the first release, here without vars, and it runs.
VarsInit ==
  /\ rows = <<>> /\ chart \in ChartValues \ Strict /\ state = "ready"
  /\ shipped = << [vars |-> {}, chart |-> chart] >> /\ running = 1
  /\ rowLock = NoVarWriter /\ request = [w \in VarWriters |-> NoRequest] /\ requests = 0

-----------------------------------------------------------------------------
(* The head.                                                                *)

\* head: the newest row of each key, tombstones left out after the choice.
HeadOf(rs) ==
  {n \in DOMAIN rs : rs[n].value # Gone /\ \A m \in DOMAIN rs : rs[m].key = rs[n].key => m <= n}

RowOf(rs, k) == {rs[n] : n \in {m \in HeadOf(rs) : rs[m].key = k}}

\* validate_vars and validate_document, and the count of _check_limits.
Agrees(values, content) ==
  /\ values \in Strict => {r.key : r \in content} = VarKeys
  /\ Cardinality(content) <= MaxVars

\* _resolve_sensitive: declared, said, kept, or not.
Sensitive(k, entry, existing) ==
  IF k \in DOMAIN Declared THEN Declared[k]
  ELSE IF entry.sensitive = "unsaid" THEN \E r \in existing : r.sensitive
  ELSE entry.sensitive = "yes"

\* What write_vars leaves for key k: the entry's row, the current one, or none.
Wanted(rs, k, entry, replace) ==
  LET existing == RowOf(rs, k) IN
  CASE entry.says = "delete" -> {}
    [] entry.says = "nothing" -> IF replace THEN {} ELSE existing
    [] entry.says = "keep" -> {[r EXCEPT !.sensitive = Sensitive(k, entry, existing)] : r \in existing}
    [] OTHER -> {[key |-> k, value |-> entry.says, sensitive |-> Sensitive(k, entry, existing)]}

\* An entry does not contradict the schema; one without a value needs a var to
\* keep, and cannot make it readable.
Acceptable(rs, k, entry) ==
  /\ k \in DOMAIN Declared /\ entry.sensitive # "unsaid" => Declared[k] = (entry.sensitive = "yes")
  /\ entry.says = "keep" =>
       /\ RowOf(rs, k) # {}
       /\ \A r \in RowOf(rs, k) : r.sensitive => Sensitive(k, entry, {r})

\* The rows write_vars appends: changed keys in order, then tombstones.
Changes(rs, entries, replace) ==
  LET wanted(k) == Wanted(rs, k, entries[k], replace)
      set == {k \in VarKeys : wanted(k) # {} /\ wanted(k) # RowOf(rs, k)}
      del == {k \in VarKeys : wanted(k) = {} /\ RowOf(rs, k) # {}}
      row(k) == CHOOSE r \in wanted(k) : TRUE
      stone(k) == [key |-> k, value |-> Gone, sensitive |-> FALSE]
      added == SetToSeq({row(k) : k \in set})
      removed == SetToSeq({stone(k) : k \in del})
  IN added \o removed

Content(rs, ids) == {rs[n] : n \in ids}

-----------------------------------------------------------------------------
(* Requests.                                                                *)

\* merge_vars, replace_vars, delete_var: the deployment is loaded, and a
\* deployment being deleted refused.
LoadForWrite(w, kind, entries) ==
  /\ request[w] = NoRequest /\ requests < MaxRequests /\ requests' = requests + 1
  /\ state # "deleting"
  /\ request' = [request EXCEPT ![w] = [NoRequest EXCEPT !.kind = kind, !.entries = entries, !.chart = chart]]
  /\ UNCHANGED <<rows, chart, state, shipped, running, rowLock>>

\* update_deployment loads it too; the values it submits are its own.
LoadForUpdate(w, entries, values) ==
  /\ request[w] = NoRequest /\ requests < MaxRequests /\ requests' = requests + 1
  /\ Len(shipped) < MaxVarReleases
  /\ request' = [request EXCEPT ![w] = [NoRequest EXCEPT !.kind = "update", !.entries = entries, !.chart = values]]
  /\ UNCHANGED <<rows, chart, state, shipped, running, rowLock>>

\* Mutant of LockAndPlan: the rows are planned without the lock.
LockAndPlan_Unlocked(w) ==
  LET r == request[w]
      plan == Changes(rows, r.entries, r.kind = "replace")
      after == rows \o plan IN
  /\ r.kind # "none" /\ ~r.locked
  /\ IF /\ r.kind = "update" => state = "ready"
        /\ \A k \in VarKeys : Acceptable(rows, k, r.entries[k])
        /\ Agrees(r.chart, Content(after, HeadOf(after)))
       THEN request' = [request EXCEPT ![w].plan = plan, ![w].locked = TRUE]
       ELSE request' = [request EXCEPT ![w] = NoRequest]
  /\ UNCHANGED <<rows, chart, state, shipped, running, rowLock, requests>>

\* _lock_deployment -- for an update its guarded UPDATE, which also needs the
\* deployment ready -- and then the head is read and the rows planned. What is
\* refused writes nothing.
LockAndPlan(w) ==
  LET r == request[w]
      plan == Changes(rows, r.entries, r.kind = "replace")
      after == rows \o plan IN
  /\ r.kind # "none" /\ ~r.locked /\ rowLock = NoVarWriter
  /\ IF /\ r.kind = "update" => state = "ready"
        /\ \A k \in VarKeys : Acceptable(rows, k, r.entries[k])
        /\ Agrees(r.chart, Content(after, HeadOf(after)))
       THEN /\ rowLock' = w
            /\ request' = [request EXCEPT ![w].plan = plan, ![w].locked = TRUE]
       ELSE /\ request' = [request EXCEPT ![w] = NoRequest]
            /\ UNCHANGED rowLock
  /\ UNCHANGED <<rows, chart, state, shipped, running, requests>>

\* The commit: the rows, and for an update the chart values and the release
\* that snapshot_release bound to the head.
CommitVars(w) ==
  LET r == request[w]
      after == rows \o r.plan IN
  /\ r.locked
  /\ rows' = after
  /\ IF r.kind = "update"
       THEN /\ shipped' = Append(shipped, [vars |-> HeadOf(after), chart |-> r.chart])
            /\ chart' = r.chart /\ state' = "provisioning"
       ELSE UNCHANGED <<shipped, chart, state>>
  /\ rowLock' = IF rowLock = w THEN NoVarWriter ELSE rowLock
  /\ request' = [request EXCEPT ![w] = NoRequest]
  /\ UNCHANGED <<running, requests>>

\* The reconcile of the newest release, applied or failed.
ReconcileVars ==
  /\ state = "provisioning"
  /\ state' = "ready"
  /\ \/ running' = Len(shipped)
     \/ UNCHANGED running
  /\ UNCHANGED <<rows, chart, shipped, rowLock, request, requests>>

DeleteApp ==
  /\ state = "ready" /\ rowLock = NoVarWriter /\ state' = "deleting"
  /\ UNCHANGED <<rows, chart, shipped, running, rowLock, request, requests>>

VarsNext ==
  \/ \E w \in VarWriters :
       \/ \E entries \in Bodies :
            \/ \E kind \in {"merge", "replace"} : LoadForWrite(w, kind, entries)
            \/ \E values \in ChartValues : LoadForUpdate(w, entries, values)
       \/ LockAndPlan(w) \/ CommitVars(w)
  \/ ReconcileVars \/ DeleteApp

VarsSpec == VarsInit /\ [][VarsNext]_varsVars

-----------------------------------------------------------------------------
VarsTypeOK ==
  /\ rows \in Seq(VarRow) /\ chart \in ChartValues /\ running \in 0..Len(shipped)
  /\ rowLock \in VarWriters \union {NoVarWriter}

\* A release freezes exactly the head it was committed with, never a mixture
\* with a write that was going on beside it, and its vars satisfy the schema
\* together with its chart values.
ReleasesAreWhole ==
  [][Len(shipped') > Len(shipped) =>
       LET new == shipped'[Len(shipped')] IN
       new.vars = HeadOf(rows') /\ Agrees(new.chart, Content(rows', new.vars))]_varsVars

\* A write does what it says to the head as it is when it commits: a PUT leaves
\* its own keys and no other, a PATCH changes no key it does not name.
WritesAreExact ==
  [][\A w \in VarWriters :
       request[w].locked /\ request'[w] = NoRequest =>
         \A k \in VarKeys :
           RowOf(rows', k) = Wanted(rows, k, request[w].entries[k], request[w].kind = "replace")]_varsVars

\* A value written as sensitive is never readable again: a readable head row
\* carries a value supplied after the last sensitive row of its key.
NeverExposed ==
  [][\A k \in VarKeys : \A r \in RowOf(rows, k) : \A n \in RowOf(rows', k) :
       r.sensitive /\ ~n.sensitive =>
         \E w \in VarWriters : request'[w] = NoRequest /\ request[w].entries[k].says \in VarValues]_varsVars

\* Concurrent edits of vars compose: what each release froze is one edit's
\* result, whole, and no edit undoes or exposes what it did not name.
VarsCompose == []VarsTypeOK /\ ReleasesAreWhole /\ WritesAreExact /\ NeverExposed
=============================================================================
